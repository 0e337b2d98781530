----------------------------- MODULE OutputFile -----------------------------
(***************************************************************************)
(* The HDF5 file a run writes: its datasets, its monitor tables and its    *)
(* checkpoints (io/Hdf5Output, io/Checkpoint, io/Monitor), and which of it *)
(* is on disk.                                                             *)
(*                                                                         *)
(* A file is the run that created it, the objects in it in the order they  *)
(* were written, and how many of them a flush has made durable.  An object *)
(* is a record: the group it is in, the time the group or dataset is named *)
(* for, the part of the group it is, and the state it was written from.    *)
(***************************************************************************)
EXTENDS Integers, Sequences

object(group, label, part, from) ==
    [group |-> group, label |-> label, part |-> part, from |-> from]

\* Opened with H5F_ACC_TRUNC: whatever the name held is gone.
created(owner) == [owner |-> owner, objects |-> <<>>, durable |-> 0]

Objects(file) == {file.objects[n] : n \in DOMAIN file.objects}
Durable(file) == {file.objects[n] : n \in 1..file.durable}

\* H5Dcreate refuses a name that exists.  Rows are appended to a table that
\* does, and attributes and groups that exist are taken as they are.
datasets == {"grid", "surface", "groundwater", "transport", "temperature", "table"}
attributes == {"group", "t", "step", "scalar_dt_surface", "scalar_dtg",
               "scalar_tgw_lag", "scalar_names"}

Clashes(file, new) ==
    /\ \/ new.group \in datasets
       \/ new.group = "checkpoint" /\ new.part \notin attributes
    /\ \E old \in Objects(file) : /\ old.group = new.group
                                  /\ old.label = new.label
                                  /\ old.part = new.part

\* A sequence of objects can be written one after the other.
writable(file, new) ==
    /\ \A m \in DOMAIN new : ~Clashes(file, new[m])
    /\ \A m, n \in DOMAIN new : new[m].group \in datasets /\ m # n =>
          <<new[m].group, new[m].label, new[m].part>>
              # <<new[n].group, new[n].label, new[n].part>>

\* Writing stops at the first that is refused.
written(file, new) ==
    LET accepted == CHOOSE n \in 0..Len(new) :
                        /\ writable(file, SubSeq(new, 1, n))
                        /\ n = Len(new) \/ ~writable(file, SubSeq(new, 1, n + 1))
    IN [file EXCEPT !.objects = @ \o SubSeq(new, 1, accepted)]

flushed(file) == [file EXCEPT !.durable = Len(file.objects)]

\* What a killed run leaves: what was flushed, and whatever the library had
\* written of the rest on its own, taken to be some prefix of it.
leftovers(file) ==
    {[file EXCEPT !.objects = SubSeq(@, 1, n), !.durable = n] :
        n \in file.durable..Len(file.objects)}

-----------------------------------------------------------------------------
(***************************************************************************)
(* Checkpoints.  mods says which modules the run has on.                   *)
(***************************************************************************)
coupledRun(mods) == mods.surfaceWater /\ mods.groundwater

If(condition, parts) == IF condition THEN parts ELSE <<>>

checkpointScalars(mods) ==
    If(coupledRun(mods), <<"scalar_dt_surface">>)
    \o If(mods.groundwater, <<"scalar_dtg">>)
    \o If(coupledRun(mods), <<"scalar_tgw_lag">>)

scalarFields2(on, mods, names) ==
    If(on /\ mods.surfaceWater, SubSeq(names, 1, 3))
    \o If(on /\ mods.groundwater, SubSeq(names, 4, 4))

checkpointFields2(mods) ==
    If(mods.surfaceWater, <<"eta", "etan", "uu", "vv", "cflx", "cfly">>)
    \o If(coupledRun(mods), <<"seep_accum", "qss">>)
    \o scalarFields2(mods.transport, mods,
                     <<"s_surf", "s_fu_old", "s_fv_old", "s_dzz_top">>)
    \o scalarFields2(mods.temperature, mods,
                     <<"t_surf", "t_fu_old", "t_fv_old", "t_dzz_top">>)

checkpointFields3(mods) ==
    If(mods.groundwater, <<"h", "wc">>
                         \o If(mods.transport, <<"s_subs">>)
                         \o If(mods.temperature, <<"t_subs">>))

\* Everything a checkpoint consists of, in the order it is written.
checkpointParts(mods) ==
    <<"group", "t", "step">> \o checkpointScalars(mods) \o <<"scalar_names">>
        \o checkpointFields2(mods) \o checkpointFields3(mods)

Parts(mods) == {checkpointParts(mods)[n] : n \in DOMAIN checkpointParts(mods)}

\* state: the tag of each part of the run's state.  The group itself and the
\* list of its scalars carry the tag of its time.
checkpointOf(mods, state, label) ==
    LET parts     == checkpointParts(mods)
        tag(part) == state[IF part \in DOMAIN state THEN part ELSE "t"]
    IN [n \in DOMAIN parts |-> object("checkpoint", label, parts[n], tag(parts[n]))]

Saved(file, label) == {o \in Objects(file) : o.group = "checkpoint" /\ o.label = label}

(***************************************************************************)
(* Reading one back.  The scalars the group lists must be there, and every *)
(* field and scalar the reading run needs; others in the group are not     *)
(* looked at.                                                              *)
(***************************************************************************)
\* Mutant: a checkpoint is taken for whole once its header is there.
readableHeader(file, label, mods) ==
    {"group", "t"} \subseteq {o.part : o \in Saved(file, label)}

readable(file, label, mods) ==
    Parts(mods) \subseteq {o.part : o \in Saved(file, label)}

\* An attribute that was written twice has the later value.
read(file, label, part) ==
    LET at == {n \in DOMAIN file.objects :
                  /\ file.objects[n].group = "checkpoint"
                  /\ file.objects[n].label = label
                  /\ file.objects[n].part = part}
    IN file.objects[CHOOSE n \in at : \A m \in at : m <= n].from

\* The state a run constructed, overwritten by what is read.
restored(file, label, mods, state) ==
    [part \in DOMAIN state |->
        IF part \in Parts(mods) \cap {o.part : o \in Saved(file, label)}
          THEN read(file, label, part) ELSE state[part]]
=============================================================================
