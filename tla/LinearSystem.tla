---------------------------- MODULE LinearSystem ----------------------------
(***************************************************************************)
(* When a linear system rebuilds its preconditioner (core/LinearSystem).   *)
(*                                                                         *)
(* The settings of a system are a record with preconditioner, matType,     *)
(* reuseMaxSolves and reuseIterationFactor (in tenths).  One solve is an   *)
(* attempt, and a second one if the first diverged under a preconditioner  *)
(* built for an earlier operator; an attempt is a record with converged    *)
(* and iterations, as PETSc reports them.                                  *)
(*                                                                         *)
(* A system's state is the class's three variables and three that only     *)
(* watch it: served, the solves the present preconditioner has been used   *)
(* for; strained, whether the last of them took more iterations than the   *)
(* policy allows; and outcome, what the last solve came to.                *)
(***************************************************************************)
EXTENDS Integers

preconditioners == {"bjacobi-icc", "amg", "gamg"}

\* What a system needs of the PETSc it is built with.
buildable(settings, packages) ==
    /\ settings.preconditioner = "amg" => "hypre" \in packages
    /\ settings.matType = "aijkokkos" => "kokkos" \in packages
    /\ settings.preconditioner \in preconditioners
    /\ settings.matType \in {"aij", "aijkokkos"}

reusesHierarchy(settings) ==
    settings.preconditioner # "bjacobi-icc" /\ settings.reuseMaxSolves > 0

NewSystem == [rebuildNext |-> TRUE, solvesSinceRebuild |-> 0, baselineIterations |-> 0,
              served |-> 0, strained |-> FALSE, outcome |-> "none"]

\* The wet/dry mask changed, so the operator changed its structure.
forceRebuild(sys) == [sys EXCEPT !.rebuildNext = TRUE]

\* More iterations than the factor and the allowance of two give: tenths.
OverTrigger(settings, iterations, baseline) ==
    10 * iterations > settings.reuseIterationFactor * baseline + 20

\* Mutant: the solves since a rebuild are counted and not looked at.
settleUncounted(settings, sys, rebuilt, iterations) ==
    LET baseline == IF rebuilt THEN iterations ELSE sys.baselineIterations
        over     == OverTrigger(settings, iterations, baseline)
    IN IF reusesHierarchy(settings)
         THEN [rebuildNext |-> (~rebuilt /\ sys.rebuildNext) \/ over,
               solvesSinceRebuild |-> (IF rebuilt THEN 0 ELSE sys.solvesSinceRebuild) + 1,
               baselineIterations |-> baseline,
               served |-> (IF rebuilt THEN 0 ELSE sys.served) + 1,
               strained |-> over,
               outcome |-> "solved"]
         ELSE [sys EXCEPT !.served = 1, !.strained = FALSE, !.outcome = "solved"]

(***************************************************************************)
(* The policy, after a solve that converged with the given iterations on a *)
(* preconditioner that was rebuilt for it or not.                          *)
(***************************************************************************)
settle(settings, sys, rebuilt, iterations) ==
    LET baseline == IF rebuilt THEN iterations ELSE sys.baselineIterations
        since    == (IF rebuilt THEN 0 ELSE sys.solvesSinceRebuild) + 1
        over     == OverTrigger(settings, iterations, baseline)
    IN IF reusesHierarchy(settings)
         THEN [rebuildNext |-> \/ ~rebuilt /\ sys.rebuildNext
                               \/ over
                               \/ since >= settings.reuseMaxSolves,
               solvesSinceRebuild |-> since,
               baselineIterations |-> baseline,
               served |-> (IF rebuilt THEN 0 ELSE sys.served) + 1,
               strained |-> over,
               outcome |-> "solved"]
         ELSE [sys EXCEPT !.served = 1, !.strained = FALSE, !.outcome = "solved"]

\* Whether the first attempt sees a preconditioner built for this operator.
freshFirst(settings, sys) == reusesHierarchy(settings) => sys.rebuildNext

solve(settings, sys, first, second) ==
    LET fresh == freshFirst(settings, sys)
        retry == ~first.converged /\ ~fresh
        last  == IF retry THEN second ELSE first
    IN IF last.converged
         THEN settle(settings, sys, reusesHierarchy(settings) /\ (fresh \/ retry),
                     last.iterations)
         ELSE [sys EXCEPT !.outcome = IF fresh \/ retry THEN "diverged" ELSE "stale"]

(***************************************************************************)
(* What the policy promises: no preconditioner is used for more solves     *)
(* than the settings allow, none is used again after a solve that took too *)
(* many iterations, and a solve is only given up under a preconditioner    *)
(* built for the operator it solves.                                       *)
(***************************************************************************)
Larger(a, b) == IF a >= b THEN a ELSE b

SystemSound(settings, sys) ==
    /\ sys.served <= Larger(1, settings.reuseMaxSolves)
    /\ sys.strained => sys.rebuildNext
    /\ reusesHierarchy(settings) /\ sys.served = settings.reuseMaxSolves
          => sys.rebuildNext
    /\ sys.outcome # "stale"
=============================================================================
