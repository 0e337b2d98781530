-------------------------- MODULE MCCoupledColumn --------------------------
(***************************************************************************)
(* Small instances of CoupledColumn: quantities are a few units of depth,  *)
(* chosen around the thresholds (min_depth, the top cell's pore room).     *)
(***************************************************************************)
EXTENDS CoupledColumn

\* Every size of Darcy flux against a pond of up to four units.
MCDarcys == {-3, -1, 0, 1, 2}

MCTopValues == {-2, -1, 1}

\* One representative of each sign, for the subcycled window.
FewLaterals == {-12, 0, 3}
FewRains == {0, 2}
FewEvaps == {0, 2}
FewDarcys == {-3, -1, 1}
FewExcesses == {0, 1}
OneInternal == {0}
NoDischarge == {0}
=============================================================================
