------------------------------ MODULE MCStorage -----------------------------
(***************************************************************************)
(* Storage for TLC.                                                        *)
(***************************************************************************)
EXTENDS Storage, TLC

Symmetry == Permutations(Threads) \cup Permutations(Names)

(***************************************************************************)
(* States are told apart by what the next steps can depend on: contents by *)
(* whether they can be read, table entries by their order, arguments and   *)
(* flags while they are in use; not by what is in files that nothing       *)
(* names, or by which of a file's two versions is the present one.  Only   *)
(* after a rename that failed late do two handles write one file: then by  *)
(* which of them, and of the entries of the directory file, lead to the    *)
(* same version.                                                           *)
(***************************************************************************)
Alike ==
  {x \in Threads \X Threads :
     /\ fh[x[1]] # None /\ fh[x[2]] # None
     /\ fh[x[1]].fno = fh[x[2]].fno /\ fh[x[1]].slot = fh[x[2]].slot}

Present ==
  {x \in Threads \X Idxs :
     LET e == dents[x[2]]
     IN  /\ fh[x[1]] # None /\ Readable(e.fno, e.hash)
         /\ fh[x[1]].fno = e.fno /\ fh[x[1]].slot = SlotOf(e.fno, e.hash)}

Rank(p) == IF p = None THEN None ELSE Cardinality({q \in Listed : q <= p})

View ==
  <<use, refs, pc, dir,
    [i \in Idxs |-> <<dents[i].name, dents[i].fno, Readable(dents[i].fno, dents[i].hash)>>],
    IF dirh = None THEN None ELSE <<dirh.bits, dirh.dents = dents>>,
    {<<Rank(p), pobjs[p]>> : p \in Listed},
    [t \in Threads |-> <<Rank(po[t]), Rank(to[t])>>],
    [t \in Threads |->
       IF pc[t] \in {"create", "head", "rename", "renamePobj", "enumGet"}
         THEN arg[t] ELSE NoArg],
    [t \in Threads |->
       IF pc[t] \in {"remove", "failed", "close", "release"} THEN {} ELSE fl[t]],
    [t \in Threads |->
       IF fh[t] = None THEN None
       ELSE <<fh[t].idx, fh[t].fno, Current(fh[t]), fh[t].ver = dents[fh[t].idx].hash>>],
    IF use.late THEN <<Alike, Present>> ELSE None>>

(***************************************************************************)
(* A TA that enumerates its objects, on storage that works; one that       *)
(* renames them, on storage that fails; the latter if a failed commit may  *)
(* have taken effect, and if a good file may seem corrupt.  Objects are    *)
(* shared for reading.                                                     *)
(***************************************************************************)
Full == {"r", "w", "meta"}

Shared == {"r", "sr"}

Enumerates(overs) ==
  [opens |-> {Full, Shared}, creates |-> {Full}, overs |-> overs,
   enums |-> TRUE, renames |-> FALSE, faults |-> FALSE,
   late |-> FALSE, misread |-> FALSE]

Renames ==
  [opens |-> {Full, {"r", "w"}, Shared}, creates |-> {Full},
   overs |-> BOOLEAN, enums |-> FALSE, renames |-> TRUE, faults |-> TRUE,
   late |-> FALSE, misread |-> FALSE]

FailsLate ==
  [opens |-> {Full}, creates |-> {Full}, overs |-> {TRUE},
   enums |-> FALSE, renames |-> TRUE, faults |-> FALSE,
   late |-> TRUE, misread |-> FALSE]

Misreads ==
  [opens |-> {Full, Shared}, creates |-> {Full}, overs |-> {TRUE},
   enums |-> FALSE, renames |-> TRUE, faults |-> FALSE,
   late |-> FALSE, misread |-> TRUE]

(***************************************************************************)
(* No create is refused while the TA enumerates; or some may be.           *)
(***************************************************************************)
MCUses == {Enumerates({TRUE}), Renames, FailsLate, Misreads}

EnumUses == {Enumerates(BOOLEAN)}
=============================================================================
