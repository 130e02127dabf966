----------------------------- MODULE MCTaLive ------------------------------
(***************************************************************************)
(* TaManager with a bound on the number of calls, and with the fairness of *)
(* a system that keeps scheduling its threads and whose TA returns.        *)
(***************************************************************************)
EXTENDS MCTaManager

CONSTANT MaxCalls       \* bound on the number of calls

VARIABLE calls          \* how many of them have been made

LiveInit == Init /\ calls = 0

LiveNext ==
  \E t \in Threads :
    \/ Step(t) /\ UNCHANGED calls
    \/ Call(t) /\ calls < MaxCalls /\ calls' = calls + 1

Fairness == \A t \in Threads : WF_<<vars, calls>>(Step(t) /\ UNCHANGED calls)

LiveSpec == LiveInit /\ [][LiveNext]_<<vars, calls>> /\ Fairness

(***************************************************************************)
(* Every open, invoke and close returns, whatever it waits for: the TA,    *)
(* the single-instance lock, a session, the references to a session or the *)
(* loading of a context.                                                   *)
(***************************************************************************)
CallsReturn == \A t \in Threads : pc[t] # "idle" ~> pc[t] = "idle"
=============================================================================
