---------------------------- MODULE MCTaManager ----------------------------
(***************************************************************************)
(* TaManager for TLC: the threads are alike, and the TAs to consider.      *)
(***************************************************************************)
EXTENDS TaManager, TLC

Symmetry == Permutations(Threads)

SharedTas ==
  {f \in TaFlags : f.SingleInstance /\ f.MultiSession /\ ~f.KeepAlive}

(***************************************************************************)
(* Every two of the flags in every combination; a shared TA also panics.   *)
(* Without TA_FLAG_SINGLE_INSTANCE the other flags have no effect.         *)
(***************************************************************************)
AllTas ==
  {f \in TaFlags :
     IF f.CanPanic THEN f \in SharedTas /\ ~f.NoInstanceLock
     ELSE IF f.SingleInstance
     THEN f.NoInstanceLock = (f.MultiSession # f.KeepAlive)
     ELSE ~(f.MultiSession \/ f.KeepAlive \/ f.NoInstanceLock)}

CalmTas == {f \in SharedTas : ~f.CanPanic}

PanickyTas == SharedTas \ CalmTas
=============================================================================
