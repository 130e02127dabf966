------------------------------ MODULE MCMutex ------------------------------
(***************************************************************************)
(* Mutex for TLC, and its progress.  Readers that keep coming can starve a *)
(* writer, so progress is stated for threads that make MaxCalls calls in   *)
(* all, and until a wake-up RPC fails.                                     *)
(***************************************************************************)
EXTENDS Mutex

CONSTANT MaxCalls       \* how many calls to m the threads make

ASSUME MaxCallsAssumption == MaxCalls \in Nat

VARIABLES calls,        \* the calls made so far
          lost          \* a wake-up RPC has failed

LiveInit == Init /\ calls = 0 /\ lost = FALSE

LosesWake ==
  \E t \in Threads : pc[t] = "wake_rpc" /\ pc'[t] # pc[t] /\ handle[t] \notin woken'

LiveNext ==
  /\ \E t \in Threads :
       \/ (Internal(t) \/ Release(t) \/ SleepFails(t)) /\ UNCHANGED calls
       \/ /\ Acquire(t) \/ Condvar(t)
          /\ calls < MaxCalls
          /\ calls' = calls + 1
  /\ lost' = (lost \/ LosesWake)

(***************************************************************************)
(* A thread that can run is scheduled (the normal world resumes it), and a *)
(* thread that holds m goes on to release it.                              *)
(***************************************************************************)
Fairness ==
  \A t \in Threads : WF_vars(Internal(t)) /\ WF_vars(Release(t))

LiveSpec == LiveInit /\ [][LiveNext]_<<vars, calls, lost>> /\ Fairness

(***************************************************************************)
(* Every mutex_lock(), mutex_read_lock() and signalled condvar_wait()      *)
(* returns with m held: __mutex_lock() may queue again and again when it   *)
(* loses the race for m, but with finitely many calls it gets there,       *)
(* unless a wake-up RPC failed, which is only logged.                      *)
(***************************************************************************)
LockReturns ==
  \A t \in Threads : Phase(t) = "entering" ~> (pc[t] = "hold" \/ lost)
=============================================================================
