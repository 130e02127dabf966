------------------------------ MODULE Monitor ------------------------------
(***************************************************************************)
(* What a mutex with its condition variables promises its callers: a       *)
(* reader/writer monitor.  A thread is outside, entering, inside or        *)
(* waiting for a condition, in read or in write mode.  This is the         *)
(* abstract specification that module Mutex implements.                    *)
(***************************************************************************)
CONSTANTS Threads,      \* the threads that share the monitor
          CondVars      \* the condition variables linked to it

VARIABLES phase,        \* [Threads -> {"out", "entering", "in", "waiting"}]
          read,         \* [Threads -> BOOLEAN]: TRUE for read mode
          cond          \* the condition a "waiting" thread waits for

vars == <<phase, read, cond>>

NoCond == "none"

In(t) == phase[t] = "in"

(***************************************************************************)
(* A reader is admitted beside readers, a writer only to an empty monitor. *)
(***************************************************************************)
MayEnter(t) ==
  \A u \in Threads \ {t} : In(u) => read[t] /\ read[u]

Init ==
  /\ phase = [t \in Threads |-> "out"]
  /\ read \in [Threads -> BOOLEAN]
  /\ cond = [t \in Threads |-> NoCond]

Request(t, r) ==
  /\ phase[t] = "out"
  /\ phase' = [phase EXCEPT ![t] = "entering"]
  /\ read' = [read EXCEPT ![t] = r]
  /\ UNCHANGED cond

Enter(t) ==
  /\ phase[t] = "entering"
  /\ MayEnter(t)
  /\ phase' = [phase EXCEPT ![t] = "in"]
  /\ UNCHANGED <<read, cond>>

(***************************************************************************)
(* A try-lock that succeeds requests and enters in one step.               *)
(***************************************************************************)
TryEnter(t, r) ==
  /\ phase[t] = "out"
  /\ \A u \in Threads \ {t} : In(u) => r /\ read[u]
  /\ phase' = [phase EXCEPT ![t] = "in"]
  /\ read' = [read EXCEPT ![t] = r]
  /\ UNCHANGED cond

Leave(t) ==
  /\ In(t)
  /\ phase' = [phase EXCEPT ![t] = "out"]
  /\ UNCHANGED <<read, cond>>

(***************************************************************************)
(* Waiting gives the monitor up and keeps the mode for the way back in.    *)
(***************************************************************************)
Wait(t, c) ==
  /\ In(t)
  /\ phase' = [phase EXCEPT ![t] = "waiting"]
  /\ cond' = [cond EXCEPT ![t] = c]
  /\ UNCHANGED read

Waiters(c) == {t \in Threads : phase[t] = "waiting" /\ cond[t] = c}

(***************************************************************************)
(* A signalled waiter has to enter again; it does not own the monitor.     *)
(***************************************************************************)
Resume(W) ==
  /\ phase' = [t \in Threads |-> IF t \in W THEN "entering" ELSE phase[t]]
  /\ cond' = [t \in Threads |-> IF t \in W THEN NoCond ELSE cond[t]]
  /\ UNCHANGED read

Signal(c)    == \E t \in Waiters(c) : Resume({t})
Broadcast(c) == Resume(Waiters(c))

Next ==
  \/ \E t \in Threads :
       \/ \E r \in BOOLEAN : Request(t, r) \/ TryEnter(t, r)
       \/ Enter(t)
       \/ Leave(t)
       \/ \E c \in CondVars : Wait(t, c)
  \/ \E c \in CondVars : Signal(c) \/ Broadcast(c)

Spec == Init /\ [][Next]_vars
=============================================================================
