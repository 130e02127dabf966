------------------------------- MODULE Mutex -------------------------------
(***************************************************************************)
(* The sleeping mutex of core/kernel/mutex.c, the condition variables      *)
(* linked to it and the wait queue of core/kernel/wait_queue.c, for one    *)
(* mutex m shared by the threads of the core.                              *)
(*                                                                         *)
(* m->state is -1 (write locked), 0 (free) or the number of readers.  It   *)
(* is read and written under m->spin_lock, and the wait queue under        *)
(* wq_spin_lock, taken inside it when a thread queues itself; so each of   *)
(* these critical sections is one step.  A thread sleeps and is woken by   *)
(* RPC to the normal world, outside every spinlock.                        *)
(***************************************************************************)
EXTENDS Integers, Sequences, FiniteSets, SequencesExt

CONSTANTS Threads,      \* the core's threads (CFG_NUM_THREADS of them)
          CondVars,     \* the condition variables linked to m
          LossyWake     \* TRUE if a wake-up RPC may fail (wait_queue.c 38-40)

ASSUME ThreadsAssumption == IsFiniteSet(Threads)
ASSUME LossyWakeAssumption == LossyWake \in BOOLEAN
ASSUME CondVarsAssumption == "none" \notin CondVars

VARIABLES
  state,      \* m->state
  wq,         \* m->wq: the threads whose wqe is linked, first to last
  done,       \* wqe->done of each thread
  wait_read,  \* wqe->wait_read: the mode of the thread's present lock call
  cv,         \* wqe->cv: the condvar waited for, or NULL
  pc,         \* where each thread is
  wake_type,  \* wq_wake_next(): wake_type_assigned and wake_read
  handle,     \* wq_wake_next(): the thread the wake-up RPC is for
  woken       \* normal world: wake-ups not yet consumed by a sleep

mvars == <<state, wait_read>>
wqvars == <<wq, done, cv>>
wakevars == <<wake_type, handle>>
vars == <<state, wq, done, wait_read, cv, pc, wake_type, handle, woken>>

NULL == "none"

Goto(t, l) == pc' = [pc EXCEPT ![t] = l]

Locations == {"idle",       \* no call to m, nothing held
              "lock",       \* the head of the loop in __mutex_[read_]lock()
              "sleep",      \* wq_wait_final(): in the sleep RPC
              "check",      \* wq_wait_final(): about to read wqe->done
              "hold",       \* holds m, in mode wait_read
              "wake",       \* wq_wake_next(): about to scan the queue
              "wake_rpc",   \* wq_wake_next(): about to send the wake-up RPC
              "panic"}

Queued(t) == \E i \in DOMAIN wq : wq[i] = t

Init ==
  /\ state = 0
  /\ wq = << >>
  /\ done = [t \in Threads |-> FALSE]
  /\ wait_read = [t \in Threads |-> FALSE]
  /\ cv = [t \in Threads |-> NULL]
  /\ pc = [t \in Threads |-> "idle"]
  /\ wake_type = [t \in Threads |-> "unassigned"]
  /\ handle = [t \in Threads |-> t]
  /\ woken = {}

-----------------------------------------------------------------------------
(***************************************************************************)
(* A thread calls mutex_lock() (r = FALSE) or mutex_read_lock().           *)
(***************************************************************************)
CallLock(t, r) ==
  /\ pc[t] = "idle"
  /\ wait_read' = [wait_read EXCEPT ![t] = r]
  /\ Goto(t, "lock")
  /\ UNCHANGED <<state, wqvars, wakevars, woken>>

(***************************************************************************)
(* wq_wait_init_condvar(): a fresh wqe at the tail of the queue.           *)
(***************************************************************************)
WaitInit(t, c) ==
  /\ done' = [done EXCEPT ![t] = FALSE]
  /\ cv' = [cv EXCEPT ![t] = c]
  /\ wq' = Append(wq, t)

(***************************************************************************)
(* One turn of the loop in __mutex_lock() and in __mutex_read_lock().      *)
(***************************************************************************)
CanLock(r) == IF r THEN state # -1 ELSE state = 0

Locked(r) == IF r THEN state + 1 ELSE -1

LockTurn(t) ==
  /\ pc[t] = "lock"
  /\ IF CanLock(wait_read[t])
       THEN /\ state' = Locked(wait_read[t])
            /\ Goto(t, "hold")
            /\ UNCHANGED wqvars
       ELSE /\ WaitInit(t, NULL)
            /\ Goto(t, "sleep")
            /\ UNCHANGED state
  /\ UNCHANGED <<wait_read, wakevars, woken>>

(***************************************************************************)
(* mutex_trylock() and mutex_read_trylock() that succeed; one that fails   *)
(* changes nothing.                                                        *)
(***************************************************************************)
TryLock(t, r) ==
  /\ pc[t] = "idle"
  /\ CanLock(r)
  /\ state' = Locked(r)
  /\ wait_read' = [wait_read EXCEPT ![t] = r]
  /\ Goto(t, "hold")
  /\ UNCHANGED <<wqvars, wakevars, woken>>

-----------------------------------------------------------------------------
(***************************************************************************)
(* __mutex_unlock(): the caller goes on into wq_wake_next().               *)
(***************************************************************************)
Unlock(t) ==
  /\ pc[t] = "hold"
  /\ ~wait_read[t]
  /\ state' = 0
  /\ Goto(t, IF state = 0 THEN "panic" ELSE "wake")
  /\ UNCHANGED <<wait_read, wqvars, wakevars, woken>>

(***************************************************************************)
(* Mutant: the last reader returns without wq_wake_next().                 *)
(***************************************************************************)
MutantReadUnlock(t) ==
  /\ pc[t] = "hold"
  /\ wait_read[t]
  /\ state' = state - 1
  /\ Goto(t, "idle")
  /\ UNCHANGED <<wait_read, wqvars, wakevars, woken>>

(***************************************************************************)
(* __mutex_read_unlock(): only the last reader wakes.                      *)
(***************************************************************************)
ReadUnlock(t) ==
  /\ pc[t] = "hold"
  /\ wait_read[t]
  /\ IF state <= 0
       THEN UNCHANGED state /\ Goto(t, "panic")
       ELSE /\ state' = state - 1
            /\ Goto(t, IF state' = 0 THEN "wake" ELSE "idle")
  /\ UNCHANGED <<wait_read, wqvars, wakevars, woken>>

(***************************************************************************)
(* Mutants of __condvar_wait(): with newstate, the lock it gives up is     *)
(* counted wrongly; with wakes = FALSE, it goes to sleep without waking.   *)
(***************************************************************************)
MutantWait(t, c, newstate, wakes) ==
  /\ pc[t] = "hold"
  /\ WaitInit(t, c)
  /\ wait_read' = [wait_read EXCEPT ![t] = state > 0]
  /\ state' = newstate
  /\ Goto(t, IF state' = 0 /\ wakes THEN "wake" ELSE "sleep")
  /\ UNCHANGED <<wakevars, woken>>

MutantWaitDecrements(t, c) == MutantWait(t, c, state - 1, TRUE)
MutantWaitUnlocksAll(t, c) == MutantWait(t, c, 0, TRUE)
MutantWaitKeepsQuiet(t, c) ==
  MutantWait(t, c, IF state > 1 THEN state - 1 ELSE 0, FALSE)

(***************************************************************************)
(* __condvar_wait() up to wq_wait_final(): queue as a condvar waiter, give *)
(* up one lock and, if m is free now, wake the next.  The mode to take m   *)
(* back in is the one read from m->state.                                  *)
(***************************************************************************)
CondvarWait(t, c) ==
  /\ pc[t] = "hold"
  /\ IF state = 0
       THEN UNCHANGED <<mvars, wqvars>> /\ Goto(t, "panic")
       ELSE /\ WaitInit(t, c)
            /\ wait_read' = [wait_read EXCEPT ![t] = state > 0]
            /\ state' = IF state > 1 THEN state - 1 ELSE 0
            /\ Goto(t, IF state' = 0 THEN "wake" ELSE "sleep")
  /\ UNCHANGED <<wakevars, woken>>

-----------------------------------------------------------------------------
(***************************************************************************)
(* wq_wake_next(): one turn of its loop looks for the first active waiter  *)
(* that is not done and has the type of the first one it found.            *)
(***************************************************************************)
TypeOf(u) == IF wait_read[u] THEN "read" ELSE "write"

Eligible(t) ==
  {i \in DOMAIN wq : /\ cv[wq[i]] = NULL
                     /\ ~done[wq[i]]
                     /\ wake_type[t] \in {"unassigned", TypeOf(wq[i])}}

(***************************************************************************)
(* The end of wq_wake_next(): __condvar_wait() goes on to wq_wait_final(), *)
(* an unlock returns.  Locals that go out of scope get their first value.  *)
(***************************************************************************)
WakeReturn(t) ==
  /\ Goto(t, IF Queued(t) THEN "sleep" ELSE "idle")
  /\ wake_type' = [wake_type EXCEPT ![t] = "unassigned"]
  /\ handle' = [handle EXCEPT ![t] = t]

WakeOne(t, i) ==
  /\ done' = [done EXCEPT ![wq[i]] = TRUE]
  /\ wake_type' = [wake_type EXCEPT ![t] = TypeOf(wq[i])]
  /\ handle' = [handle EXCEPT ![t] = wq[i]]
  /\ Goto(t, "wake_rpc")

WakeScan(t) ==
  /\ pc[t] = "wake"
  /\ \/ /\ Eligible(t) = {}
        /\ WakeReturn(t)
        /\ UNCHANGED done
     \/ \E i \in Eligible(t) : /\ \A j \in Eligible(t) : i <= j
                               /\ WakeOne(t, i)
  /\ UNCHANGED <<mvars, wq, cv, woken>>

(***************************************************************************)
(* The wake-up RPC: the normal world remembers it until the thread sleeps. *)
(* A failed RPC is only logged.  Readers are woken in a loop.              *)
(***************************************************************************)
WakeRpc(t) ==
  /\ pc[t] = "wake_rpc"
  /\ \/ woken' = woken \cup {handle[t]}
     \/ LossyWake /\ UNCHANGED woken
  /\ IF wake_type[t] = "read"
       THEN Goto(t, "wake") /\ UNCHANGED wakevars
       ELSE WakeReturn(t)
  /\ UNCHANGED <<mvars, wqvars>>

-----------------------------------------------------------------------------
(***************************************************************************)
(* wq_wait_final(): the sleep RPC returns because of a wake-up ...         *)
(***************************************************************************)
SleepReturns(t) ==
  /\ pc[t] = "sleep"
  /\ t \in woken
  /\ woken' = woken \ {t}
  /\ Goto(t, "check")
  /\ UNCHANGED <<mvars, wqvars, wakevars>>

(***************************************************************************)
(* ... or because the RPC failed, which is only logged.                    *)
(***************************************************************************)
SleepFails(t) ==
  /\ pc[t] = "sleep"
  /\ Goto(t, "check")
  /\ UNCHANGED <<mvars, wqvars, wakevars, woken>>

(***************************************************************************)
(* Mutants: the wqe stays linked; any return from the sleep RPC counts.    *)
(***************************************************************************)
MutantKeepsWqe(t) ==
  /\ pc[t] = "check"
  /\ Goto(t, IF done[t] THEN "lock" ELSE "sleep")
  /\ UNCHANGED <<mvars, wqvars, wakevars, woken>>

MutantTrustsRpc(t) ==
  /\ pc[t] = "check"
  /\ \E i \in DOMAIN wq : wq[i] = t /\ wq' = RemoveAt(wq, i)
  /\ done' = [done EXCEPT ![t] = FALSE]
  /\ Goto(t, "lock")
  /\ UNCHANGED <<mvars, cv, wakevars, woken>>

(***************************************************************************)
(* ... and the wqe is unlinked if it is done, else the thread sleeps again.*)
(* After it the caller tries to take m in the mode it waits for.           *)
(***************************************************************************)
CheckDone(t) ==
  /\ pc[t] = "check"
  /\ IF done[t]
       THEN /\ \E i \in DOMAIN wq : wq[i] = t /\ wq' = RemoveAt(wq, i)
            /\ done' = [done EXCEPT ![t] = FALSE]
            /\ Goto(t, "lock")
       ELSE UNCHANGED <<wq, done>> /\ Goto(t, "sleep")
  /\ UNCHANGED <<mvars, cv, wakevars, woken>>

-----------------------------------------------------------------------------
(***************************************************************************)
(* condvar_signal() and condvar_broadcast(): wq_promote_condvar() makes    *)
(* the first waiter of c, or every one, an active waiter; it wakes nobody. *)
(* Every caller in the core holds the mutex, which is what makes the next  *)
(* unlock wake the promoted thread.                                        *)
(***************************************************************************)
CvWaiters(c) == {i \in DOMAIN wq : cv[wq[i]] = c}

MaySignal(t) == pc[t] = "hold"

CondvarSignal(t, c) ==
  /\ MaySignal(t)
  /\ \E i \in CvWaiters(c) : /\ \A j \in CvWaiters(c) : i <= j
                             /\ cv' = [cv EXCEPT ![wq[i]] = NULL]
  /\ UNCHANGED <<mvars, wq, done, pc, wakevars, woken>>

CondvarBroadcast(t, c) ==
  /\ MaySignal(t)
  /\ cv' = [u \in Threads |-> IF cv[u] = c THEN NULL ELSE cv[u]]
  /\ UNCHANGED <<mvars, wq, done, pc, wakevars, woken>>

-----------------------------------------------------------------------------
(***************************************************************************)
(* The steps a thread owes once it is in a call, and the calls it makes.   *)
(***************************************************************************)
Internal(t) ==
  \/ LockTurn(t)
  \/ WakeScan(t)
  \/ WakeRpc(t)
  \/ SleepReturns(t)
  \/ CheckDone(t)

Release(t) == Unlock(t) \/ ReadUnlock(t)

Acquire(t) == \E r \in BOOLEAN : CallLock(t, r) \/ TryLock(t, r)

Condvar(t) ==
  \E c \in CondVars : \/ CondvarWait(t, c)
                      \/ CondvarSignal(t, c)
                      \/ CondvarBroadcast(t, c)

Next ==
  \E t \in Threads :
    Internal(t) \/ Release(t) \/ Acquire(t) \/ Condvar(t) \/ SleepFails(t)

Spec == Init /\ [][Next]_vars

-----------------------------------------------------------------------------
(***************************************************************************)
(* Properties                                                              *)
(***************************************************************************)
TypeOK ==
  /\ state \in Nat \cup {-1}
  /\ wq \in Seq(Threads)
  /\ done \in [Threads -> BOOLEAN]
  /\ wait_read \in [Threads -> BOOLEAN]
  /\ cv \in [Threads -> CondVars \cup {NULL}]
  /\ pc \in [Threads -> Locations]
  /\ wake_type \in [Threads -> {"unassigned", "read", "write"}]
  /\ handle \in [Threads -> Threads]
  /\ woken \subseteq Threads

Readers == {t \in Threads : pc[t] = "hold" /\ wait_read[t]}
Writers == {t \in Threads : pc[t] = "hold" /\ ~wait_read[t]}

(***************************************************************************)
(* m->state tells who holds m, over every interleaving of lock, unlock and *)
(* condvar wait: -1 for one writer and no reader, else the number of       *)
(* readers and no writer.  With it no caller that holds m meets the panic  *)
(* of __mutex_unlock(), __mutex_read_unlock() or __condvar_wait().         *)
(***************************************************************************)
StateMatchesHolders ==
  /\ state = -1 => Readers = {} /\ \E t \in Threads : Writers = {t}
  /\ state # -1 => Writers = {} /\ state = Cardinality(Readers)
  /\ \A t \in Threads : pc[t] # "panic"

(***************************************************************************)
(* A wake-up is never missed (the reason mutex_lock() queues its wqe       *)
(* before it releases the spinlock): if m is free and an active waiter is  *)
(* not yet done, then some thread is going to take m or to scan the queue  *)
(* from its head.                                                          *)
(***************************************************************************)
ActiveWaiter(u) == Queued(u) /\ cv[u] = NULL /\ ~done[u]

WillPassOn(t) ==
  \/ pc[t] = "wake" /\ wake_type[t] = "unassigned"
  \/ pc[t] = "lock"
  \/ Queued(t) /\ done[t]

NoLostWakeup ==
  (state = 0 /\ \E u \in Threads : ActiveWaiter(u))
    => \E t \in Threads : WillPassOn(t)

(***************************************************************************)
(* A thread has its wqe, a local of its stack frame, in the queue exactly  *)
(* while it is inside wq_wait_final() or on its way there: wq_wake_next()  *)
(* never follows a link to a frame that has returned.                      *)
(***************************************************************************)
WqeLinkedWhileWaiting ==
  /\ \A i, j \in DOMAIN wq : wq[i] = wq[j] => i = j
  /\ \A t \in Threads :
       /\ pc[t] \in {"sleep", "check"} => Queued(t)
       /\ Queued(t) => pc[t] \in {"sleep", "check", "wake", "wake_rpc"}

(***************************************************************************)
(* The mutex implements the monitor of module Monitor: a thread leaves     *)
(* condvar_wait() only after a signal, and holds m in the mode it had.     *)
(***************************************************************************)
Phase(t) ==
  IF pc[t] = "hold" THEN "in"
  ELSE IF Queued(t) THEN IF cv[t] = NULL THEN "entering" ELSE "waiting"
  ELSE IF pc[t] = "lock" THEN "entering" ELSE "out"

Abstract ==
  INSTANCE Monitor WITH phase <- [t \in Threads |-> Phase(t)],
                        read <- wait_read,
                        cond <- cv

ImplementsMonitor == Abstract!Spec
=============================================================================
