------------------------------ MODULE MCRegShm ------------------------------
(***************************************************************************)
(* RegShm with a bound on the number of calls and of mappings, and with    *)
(* the fairness of a system that keeps scheduling its threads.             *)
(***************************************************************************)
EXTENDS RegShm

CONSTANTS MaxCalls,     \* bound on the number of calls and mappings
          t1, t2, t3

MCThreads == {t1, t2, t3}

MCMapperSets == {{t1}, {t1, t2}}

VARIABLE calls          \* how many of them have been started

LiveInit == Init /\ calls = 0

LiveNext ==
  /\ \E t \in Threads :
       \/ Step(t) /\ UNCHANGED calls
       \/ /\ Start(t) \/ IncMap(t)
          /\ calls < MaxCalls
          /\ calls' = calls + 1
  /\ UNCHANGED mappers

(***************************************************************************)
(* A thread that has a step to take takes it: the normal world resumes it, *)
(* and every call returns (so it puts what it has a reference to).         *)
(***************************************************************************)
Fairness ==
  \A t \in Threads : WF_<<vars, calls>>(Step(t) /\ UNCHANGED <<mappers, calls>>)

LiveSpec == LiveInit /\ [][LiveNext]_<<vars, calls>> /\ Fairness

(***************************************************************************)
(* mobj_reg_shm_release_by_cookie() returns once the calls that use the    *)
(* object have: the last of them wakes it up, unless the core has stopped. *)
(***************************************************************************)
ReleaseReturns == \A t \in Threads : rel[t] ~> ~rel[t] \/ halted
=============================================================================
