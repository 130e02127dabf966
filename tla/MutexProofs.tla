---------------------------- MODULE MutexProofs ----------------------------
(***************************************************************************)
(* Proofs about module Mutex, for every set of threads and of condition    *)
(* variables.                                                              *)
(***************************************************************************)
EXTENDS Mutex, FiniteSetTheorems, SequenceTheorems, TLAPS

-----------------------------------------------------------------------------
(***************************************************************************)
(* Sequences without repetition, and who is in them.                       *)
(***************************************************************************)
Has(s, u) == \E i \in DOMAIN s : s[i] = u
Inj(s) == \A i, j \in DOMAIN s : s[i] = s[j] => i = j

(***************************************************************************)
(* Appending to the wait queue adds the appended thread and nothing else,  *)
(* and repeats nobody who was not queued (slist_add_tail()).               *)
(***************************************************************************)
LEMMA AppendElems ==
  ASSUME NEW S, NEW s \in Seq(S), NEW t \in S
  PROVE  /\ Append(s, t) \in Seq(S)
         /\ \A u : Has(Append(s, t), u) <=> Has(s, u) \/ u = t
         /\ Inj(s) /\ ~Has(s, t) => Inj(Append(s, t))
<1>1. /\ Append(s, t) \in Seq(S)
      /\ DOMAIN s = 1 .. Len(s)
      /\ DOMAIN Append(s, t) = 1 .. (Len(s) + 1)
      /\ Len(s) \in Nat
      /\ \A i \in 1 .. Len(s) : Append(s, t)[i] = s[i]
      /\ Append(s, t)[Len(s) + 1] = t
  OBVIOUS
<1>2. ASSUME NEW u PROVE Has(Append(s, t), u) <=> Has(s, u) \/ u = t
  <2>1. ASSUME Has(s, u) PROVE Has(Append(s, t), u)
    BY <1>1, <2>1 DEF Has
  <2>2. ASSUME u = t PROVE Has(Append(s, t), u)
    <3>1. Len(s) + 1 \in DOMAIN Append(s, t) BY <1>1
    <3> QED BY <1>1, <2>2, <3>1 DEF Has
  <2>3. ASSUME Has(Append(s, t), u) PROVE Has(s, u) \/ u = t
    <3>1. PICK i \in 1 .. (Len(s) + 1) : Append(s, t)[i] = u
      BY <1>1, <2>3 DEF Has
    <3>2. i \in 1 .. Len(s) \/ i = Len(s) + 1 BY <1>1
    <3> QED BY <1>1, <3>1, <3>2 DEF Has
  <2> QED BY <2>1, <2>2, <2>3
<1>3. ASSUME Inj(s), ~Has(s, t) PROVE Inj(Append(s, t))
  <2> SUFFICES ASSUME NEW i \in 1 .. (Len(s) + 1), NEW j \in 1 .. (Len(s) + 1),
                      Append(s, t)[i] = Append(s, t)[j]
               PROVE  i = j
    BY <1>1 DEF Inj
  <2> QED BY <1>1, <1>3 DEF Has, Inj
<1> QED BY <1>1, <1>2, <1>3

(***************************************************************************)
(* Unlinking one wqe from the wait queue removes that thread and nothing   *)
(* else (SLIST_REMOVE() in wq_wait_final()).                               *)
(***************************************************************************)
LEMMA RemoveElems ==
  ASSUME NEW S, NEW s \in Seq(S), Inj(s), NEW k \in DOMAIN s
  PROVE  /\ RemoveAt(s, k) \in Seq(S)
         /\ Inj(RemoveAt(s, k))
         /\ \A u : Has(RemoveAt(s, k), u) <=> Has(s, u) /\ u # s[k]
<1> DEFINE r == RemoveAt(s, k)
<1>1. /\ Len(s) \in Nat
      /\ DOMAIN s = 1 .. Len(s)
      /\ k \in 1 .. Len(s)
  OBVIOUS
<1>2. /\ r \in Seq(S)
      /\ Len(r) = Len(s) - 1
      /\ DOMAIN r = 1 .. (Len(s) - 1)
      /\ \A i \in 1 .. (Len(s) - 1) : r[i] = IF i < k THEN s[i] ELSE s[i + 1]
  <2> DEFINE a == SubSeq(s, 1, k - 1)
             b == SubSeq(s, k + 1, Len(s))
  <2>1. /\ a \in Seq(S)
        /\ Len(a) = k - 1
        /\ \A i \in 1 .. (k - 1) : a[i] = s[i]
    BY <1>1
  <2>2. /\ b \in Seq(S)
        /\ Len(b) = Len(s) - k
        /\ \A i \in 1 .. (Len(s) - k) : b[i] = s[i + k]
    BY <1>1
  <2>3. /\ a \o b \in Seq(S)
        /\ Len(a \o b) = Len(a) + Len(b)
        /\ \A i \in 1 .. Len(a) + Len(b) :
             (a \o b)[i] = IF i <= Len(a) THEN a[i] ELSE b[i - Len(a)]
    <3> HIDE DEF a, b
    <3> QED BY <2>1, <2>2, ConcatProperties
  <2>4. r = a \o b BY DEF RemoveAt
  <2> HIDE DEF a, b, r
  <2>5. r \in Seq(S) /\ Len(r) = Len(s) - 1
    <3>1. r \in Seq(S) /\ Len(r) = Len(a) + Len(b) BY <2>3, <2>4
    <3>2. Len(a) + Len(b) = Len(s) - 1
      <4>1. Len(a) = k - 1 /\ Len(b) = Len(s) - k BY <2>1, <2>2
      <4>2. k \in Int /\ Len(s) \in Int BY <1>1
      <4> QED BY ONLY <4>1, <4>2
    <3> QED BY <3>1, <3>2
  <2>6. ASSUME NEW i \in 1 .. (Len(s) - 1)
        PROVE  r[i] = IF i < k THEN s[i] ELSE s[i + 1]
    <3>1. i \in 1 .. Len(a) + Len(b) BY <1>1, <2>1, <2>2
    <3>2. r[i] = IF i <= k - 1 THEN a[i] ELSE b[i - (k - 1)]
      BY <2>1, <2>3, <2>4, <3>1
    <3>3. CASE i < k BY <1>1, <2>1, <3>2, <3>3
    <3>4. CASE ~(i < k)
      <4>1. i - (k - 1) \in 1 .. (Len(s) - k) BY <1>1, <3>4
      <4>2. r[i] = b[i - (k - 1)] BY <1>1, <3>2, <3>4
      <4>3. i - (k - 1) + k = i + 1 BY <1>1
      <4> QED BY <2>2, <3>4, <4>1, <4>2, <4>3
    <3> QED BY <3>3, <3>4
  <2>7. DOMAIN r = 1 .. Len(r) BY <2>5
  <2> QED BY <2>5, <2>6, <2>7
<1> HIDE DEF r
<1>3. Inj(r)
  <2> SUFFICES ASSUME NEW i \in 1 .. (Len(s) - 1), NEW j \in 1 .. (Len(s) - 1),
                      r[i] = r[j]
               PROVE  i = j
    BY <1>2 DEF Inj
  <2> DEFINE f(n) == IF n < k THEN n ELSE n + 1
  <2>1. /\ f(i) \in DOMAIN s /\ f(j) \in DOMAIN s
        /\ s[f(i)] = s[f(j)]
    BY <1>1, <1>2
  <2>2. f(i) = f(j) BY <2>1 DEF Inj
  <2> QED BY <1>1, <2>2
<1>4. ASSUME NEW u PROVE Has(r, u) <=> Has(s, u) /\ u # s[k]
  <2>1. ASSUME Has(r, u) PROVE Has(s, u) /\ u # s[k]
    <3>1. PICK i \in 1 .. (Len(s) - 1) : r[i] = u BY <1>2, <2>1 DEF Has
    <3>2. CASE i < k
      BY <1>1, <1>2, <3>1, <3>2 DEF Has, Inj
    <3>3. CASE ~(i < k)
      <4>1. i + 1 \in DOMAIN s /\ s[i + 1] = u /\ i + 1 # k
        BY <1>1, <1>2, <3>1, <3>3
      <4> QED BY <4>1 DEF Has, Inj
    <3> QED BY <3>2, <3>3
  <2>2. ASSUME Has(s, u), u # s[k] PROVE Has(r, u)
    <3>1. PICK i \in 1 .. Len(s) : s[i] = u BY <1>1, <2>2 DEF Has
    <3>2. CASE i < k
      <4>1. i \in 1 .. (Len(s) - 1) /\ r[i] = u BY <1>1, <1>2, <3>1, <3>2
      <4> QED BY <1>2, <4>1 DEF Has
    <3>3. CASE i > k
      <4>1. i - 1 \in 1 .. (Len(s) - 1) /\ r[i - 1] = s[i]
        BY <1>1, <1>2, <3>3
      <4> QED BY <1>2, <3>1, <4>1 DEF Has
    <3> QED BY <1>1, <2>2, <3>1, <3>2, <3>3
  <2> QED BY <2>1, <2>2
<1> QED BY <1>2, <1>3, <1>4 DEF r

-----------------------------------------------------------------------------
(***************************************************************************)
(* Type correctness.                                                       *)
(***************************************************************************)
LEMMA InitTypeOK == Init => TypeOK
BY DEF Init, TypeOK, Locations, NULL

(***************************************************************************)
(* Every step keeps the state well typed.                                  *)
(***************************************************************************)
LEMMA NextTypeOK == TypeOK /\ [Next]_vars => TypeOK'
<1> SUFFICES ASSUME TypeOK, [Next]_vars PROVE TypeOK'
  OBVIOUS
<1> USE DEF TypeOK, Locations, NULL, Goto, mvars, wqvars, wakevars
<1>1. ASSUME NEW t \in Threads, NEW r \in BOOLEAN, CallLock(t, r)
      PROVE  TypeOK'
  BY <1>1 DEF CallLock
<1>2. ASSUME NEW t \in Threads, LockTurn(t) PROVE TypeOK'
  <2>1. CASE CanLock(wait_read[t])
    BY <1>2, <2>1 DEF LockTurn, CanLock, Locked
  <2>2. CASE ~CanLock(wait_read[t])
    <3>1. Append(wq, t) \in Seq(Threads) OBVIOUS
    <3> QED BY <1>2, <2>2, <3>1 DEF LockTurn, WaitInit
  <2> QED BY <2>1, <2>2
<1>3. ASSUME NEW t \in Threads, NEW r \in BOOLEAN, TryLock(t, r)
      PROVE  TypeOK'
  BY <1>3 DEF TryLock, CanLock, Locked
<1>4. ASSUME NEW t \in Threads, Unlock(t) PROVE TypeOK'
  BY <1>4 DEF Unlock
<1>5. ASSUME NEW t \in Threads, ReadUnlock(t) PROVE TypeOK'
  BY <1>5 DEF ReadUnlock
<1>6. ASSUME NEW t \in Threads, NEW c \in CondVars, CondvarWait(t, c)
      PROVE  TypeOK'
  <2>1. CASE state = 0 BY <1>6, <2>1 DEF CondvarWait
  <2>2. CASE state # 0
    <3>1. Append(wq, t) \in Seq(Threads) OBVIOUS
    <3>2. wait_read' \in [Threads -> BOOLEAN]
      <4>1. (state > 0) \in BOOLEAN OBVIOUS
      <4>2. wait_read' = [wait_read EXCEPT ![t] = state > 0]
        BY <1>6, <2>2 DEF CondvarWait
      <4> QED BY <4>1, <4>2
    <3>3. state' \in Nat \cup {-1}
      BY <1>6, <2>2 DEF CondvarWait
    <3>4. pc' \in [Threads -> Locations]
      BY <1>6, <2>2 DEF CondvarWait
    <3> QED BY <1>6, <2>2, <3>1, <3>2, <3>3, <3>4 DEF CondvarWait, WaitInit
  <2> QED BY <2>1, <2>2
<1>7. ASSUME NEW t \in Threads, WakeScan(t) PROVE TypeOK'
  <2>1. CASE WakeReturn(t) /\ UNCHANGED done
    BY <1>7, <2>1 DEF WakeScan, WakeReturn
  <2>2. CASE \E i \in Eligible(t) : WakeOne(t, i)
    <3>1. PICK i \in DOMAIN wq : WakeOne(t, i) BY <2>2 DEF Eligible
    <3>2. wq[i] \in Threads OBVIOUS
    <3> QED BY <1>7, <3>1, <3>2 DEF WakeScan, WakeOne, TypeOf
  <2> QED BY <1>7, <2>1, <2>2 DEF WakeScan
<1>8. ASSUME NEW t \in Threads, WakeRpc(t) PROVE TypeOK'
  BY <1>8 DEF WakeRpc, WakeReturn
<1>9. ASSUME NEW t \in Threads, SleepReturns(t) PROVE TypeOK'
  BY <1>9 DEF SleepReturns
<1>10. ASSUME NEW t \in Threads, SleepFails(t) PROVE TypeOK'
  BY <1>10 DEF SleepFails
<1>11. ASSUME NEW t \in Threads, CheckDone(t) PROVE TypeOK'
  <2>1. CASE done[t]
    <3>1. PICK i \in DOMAIN wq : wq' = RemoveAt(wq, i)
      BY <1>11, <2>1 DEF CheckDone
    <3>2. wq' \in Seq(Threads)
      <4>1. i \in 1 .. Len(wq) /\ Len(wq) \in Nat BY <3>1
      <4>2. /\ SubSeq(wq, 1, i - 1) \in Seq(Threads)
            /\ SubSeq(wq, i + 1, Len(wq)) \in Seq(Threads)
        BY <4>1
      <4> QED BY <3>1, <4>2, ConcatProperties DEF RemoveAt
    <3>3. /\ done' = [done EXCEPT ![t] = FALSE]
          /\ pc' = [pc EXCEPT ![t] = "lock"]
      BY <1>11, <2>1, Zenon DEF CheckDone
    <3>4. UNCHANGED <<state, wait_read, cv, wake_type, handle, woken>>
      BY <1>11 DEF CheckDone
    <3> QED BY <3>2, <3>3, <3>4
  <2>2. CASE ~done[t] BY <1>11, <2>2 DEF CheckDone
  <2> QED BY <2>1, <2>2
<1>12. ASSUME NEW t \in Threads, NEW c \in CondVars, CondvarSignal(t, c)
       PROVE  TypeOK'
  BY <1>12 DEF CondvarSignal, CvWaiters
<1>13. ASSUME NEW t \in Threads, NEW c \in CondVars, CondvarBroadcast(t, c)
       PROVE  TypeOK'
  BY <1>13 DEF CondvarBroadcast
<1>14. CASE UNCHANGED vars
  BY <1>14 DEF vars
<1> QED
  BY <1>1, <1>2, <1>3, <1>4, <1>5, <1>6, <1>7, <1>8, <1>9, <1>10, <1>11,
     <1>12, <1>13, <1>14
  DEF Next, Internal, Release, Acquire, Condvar

(***************************************************************************)
(* The variables of the mutex, of its wait queue and of every thread's     *)
(* calls keep their types, for any number of threads and condvars.         *)
(***************************************************************************)
THEOREM TypeCorrect == Spec => []TypeOK
BY InitTypeOK, NextTypeOK, PTL DEF Spec

-----------------------------------------------------------------------------
(***************************************************************************)
(* The wait queue.  LocalsInv relates the locals of a thread to where it   *)
(* is: only wq_wake_next() has a wake type, only a linked wqe is done, and *)
(* only a linked wqe that is not done waits for a condvar.                 *)
(***************************************************************************)
LocalsInv ==
  \A t \in Threads :
    /\ pc[t] \notin {"wake", "wake_rpc"} => wake_type[t] = "unassigned"
    /\ done[t] => Queued(t)
    /\ cv[t] # NULL => Queued(t) /\ ~done[t]

QInv == WqeLinkedWhileWaiting /\ LocalsInv

(***************************************************************************)
(* What queueing the thread t does to the queue.                           *)
(***************************************************************************)
LEMMA QueueGrows ==
  ASSUME TypeOK, WqeLinkedWhileWaiting, NEW t \in Threads, ~Queued(t),
         wq' = Append(wq, t)
  PROVE  /\ \A u \in Threads : Queued(u)' <=> Queued(u) \/ u = t
         /\ \A i, j \in DOMAIN wq' : wq'[i] = wq'[j] => i = j
<1>1. wq \in Seq(Threads) BY DEF TypeOK
<1>2. Inj(wq) /\ ~Has(wq, t) BY DEF WqeLinkedWhileWaiting, Inj, Has, Queued
<1>3. /\ \A u : Has(wq', u) <=> Has(wq, u) \/ u = t
      /\ Inj(wq')
  BY <1>1, <1>2, AppendElems
<1> QED BY <1>3 DEF Has, Inj, Queued

(***************************************************************************)
(* What unlinking the wqe of t does to the queue.                          *)
(***************************************************************************)
LEMMA QueueShrinks ==
  ASSUME TypeOK, WqeLinkedWhileWaiting, NEW t \in Threads,
         \E i \in DOMAIN wq : wq[i] = t /\ wq' = RemoveAt(wq, i)
  PROVE  /\ \A u \in Threads : Queued(u)' <=> Queued(u) /\ u # t
         /\ \A i, j \in DOMAIN wq' : wq'[i] = wq'[j] => i = j
<1>1. wq \in Seq(Threads) BY DEF TypeOK
<1>2. Inj(wq) BY DEF WqeLinkedWhileWaiting, Inj
<1>3. PICK k \in DOMAIN wq : wq[k] = t /\ wq' = RemoveAt(wq, k) OBVIOUS
<1>4. /\ \A u : Has(wq', u) <=> Has(wq, u) /\ u # t
      /\ Inj(wq')
  BY <1>1, <1>2, <1>3, RemoveElems
<1> QED BY <1>4 DEF Has, Inj, Queued

(***************************************************************************)
(* The queue invariant holds initially.                                    *)
(***************************************************************************)
LEMMA InitQInv == Init => QInv
BY DEF Init, QInv, WqeLinkedWhileWaiting, LocalsInv, Queued, NULL

(***************************************************************************)
(* Every step keeps the queue invariant.                                   *)
(***************************************************************************)
LEMMA NextQInv == TypeOK /\ QInv /\ [Next]_vars => QInv'
<1> SUFFICES ASSUME TypeOK, QInv, [Next]_vars PROVE QInv'
  OBVIOUS
<1>a. WqeLinkedWhileWaiting /\ LocalsInv BY DEF QInv
<1>q. ASSUME UNCHANGED wq
      PROVE  \A u \in Threads : Queued(u)' <=> Queued(u)
  BY <1>q DEF Queued
<1> USE DEF Goto, mvars, wqvars, wakevars
<1>1. ASSUME NEW t \in Threads, NEW r \in BOOLEAN, CallLock(t, r)
      PROVE  QInv'
  BY <1>1, <1>a, <1>q
  DEF CallLock, TypeOK, QInv, WqeLinkedWhileWaiting, LocalsInv
<1>2. ASSUME NEW t \in Threads, LockTurn(t) PROVE QInv'
  <2>1. CASE CanLock(wait_read[t])
    BY <1>2, <2>1, <1>a, <1>q
    DEF LockTurn, TypeOK, QInv, WqeLinkedWhileWaiting, LocalsInv
  <2>2. CASE ~CanLock(wait_read[t])
    <3>1. ~Queued(t) BY <1>2, <1>a DEF LockTurn, WqeLinkedWhileWaiting
    <3>2. wq' = Append(wq, t) BY <1>2, <2>2 DEF LockTurn, WaitInit
    <3>3. /\ \A u \in Threads : Queued(u)' <=> Queued(u) \/ u = t
          /\ \A i, j \in DOMAIN wq' : wq'[i] = wq'[j] => i = j
      BY <1>a, <3>1, <3>2, QueueGrows
    <3> QED
      BY <1>2, <2>2, <1>a, <3>3
      DEF LockTurn, WaitInit, TypeOK, QInv, WqeLinkedWhileWaiting, LocalsInv
  <2> QED BY <2>1, <2>2
<1>3. ASSUME NEW t \in Threads, NEW r \in BOOLEAN, TryLock(t, r)
      PROVE  QInv'
  BY <1>3, <1>a, <1>q
  DEF TryLock, TypeOK, QInv, WqeLinkedWhileWaiting, LocalsInv
<1>4. ASSUME NEW t \in Threads, Unlock(t) PROVE QInv'
  BY <1>4, <1>a, <1>q
  DEF Unlock, TypeOK, QInv, WqeLinkedWhileWaiting, LocalsInv
<1>5. ASSUME NEW t \in Threads, ReadUnlock(t) PROVE QInv'
  BY <1>5, <1>a, <1>q
  DEF ReadUnlock, TypeOK, QInv, WqeLinkedWhileWaiting, LocalsInv
<1>6. ASSUME NEW t \in Threads, NEW c \in CondVars, CondvarWait(t, c)
      PROVE  QInv'
  <2>1. CASE state = 0
    BY <1>6, <2>1, <1>a, <1>q
    DEF CondvarWait, TypeOK, QInv, WqeLinkedWhileWaiting, LocalsInv
  <2>2. CASE state # 0
    <3>1. ~Queued(t) BY <1>6, <1>a DEF CondvarWait, WqeLinkedWhileWaiting
    <3>2. wq' = Append(wq, t) BY <1>6, <2>2 DEF CondvarWait, WaitInit
    <3>3. /\ \A u \in Threads : Queued(u)' <=> Queued(u) \/ u = t
          /\ \A i, j \in DOMAIN wq' : wq'[i] = wq'[j] => i = j
      BY <1>a, <3>1, <3>2, QueueGrows
    <3> QED
      BY <1>6, <2>2, <1>a, <3>3
      DEF CondvarWait, WaitInit, TypeOK, QInv, WqeLinkedWhileWaiting,
          LocalsInv
  <2> QED BY <2>1, <2>2
<1>7. ASSUME NEW t \in Threads, WakeScan(t) PROVE QInv'
  <2>1. CASE WakeReturn(t) /\ UNCHANGED done
    BY <1>7, <2>1, <1>a, <1>q
    DEF WakeScan, WakeReturn, TypeOK, QInv, WqeLinkedWhileWaiting, LocalsInv
  <2>2. CASE \E i \in Eligible(t) : WakeOne(t, i)
    <3>1. PICK i \in Eligible(t) : WakeOne(t, i) BY <2>2
    <3>2. /\ wq[i] \in Threads
          /\ Queued(wq[i])
          /\ cv[wq[i]] = NULL
      BY <3>1 DEF Eligible, Queued, TypeOK
    <3> QED
      BY <1>7, <3>1, <3>2, <1>a, <1>q
      DEF WakeScan, WakeOne, TypeOK, QInv, WqeLinkedWhileWaiting, LocalsInv
  <2> QED BY <1>7, <2>1, <2>2 DEF WakeScan
<1>8. ASSUME NEW t \in Threads, WakeRpc(t) PROVE QInv'
  BY <1>8, <1>a, <1>q
  DEF WakeRpc, WakeReturn, TypeOK, QInv, WqeLinkedWhileWaiting, LocalsInv
<1>9. ASSUME NEW t \in Threads, SleepReturns(t) PROVE QInv'
  BY <1>9, <1>a, <1>q
  DEF SleepReturns, TypeOK, QInv, WqeLinkedWhileWaiting, LocalsInv
<1>10. ASSUME NEW t \in Threads, SleepFails(t) PROVE QInv'
  BY <1>10, <1>a, <1>q
  DEF SleepFails, TypeOK, QInv, WqeLinkedWhileWaiting, LocalsInv
<1>11. ASSUME NEW t \in Threads, CheckDone(t) PROVE QInv'
  <2>1. CASE done[t]
    <3>1. /\ \E i \in DOMAIN wq : wq[i] = t /\ wq' = RemoveAt(wq, i)
          /\ done' = [done EXCEPT ![t] = FALSE]
          /\ pc' = [pc EXCEPT ![t] = "lock"]
      BY <1>11, <2>1, Zenon DEF CheckDone
    <3>2. UNCHANGED <<cv, wake_type>> /\ pc[t] = "check"
      BY <1>11 DEF CheckDone
    <3>3. /\ \A u \in Threads : Queued(u)' <=> Queued(u) /\ u # t
          /\ \A i, j \in DOMAIN wq' : wq'[i] = wq'[j] => i = j
      BY <1>a, <3>1, QueueShrinks
    <3>4. cv[t] = NULL BY <1>a, <2>1 DEF LocalsInv
    <3>5. /\ done' = [done EXCEPT ![t] = FALSE]
          /\ pc' = [pc EXCEPT ![t] = "lock"]
      BY <3>1
    <3> QED
      BY <3>2, <3>3, <3>4, <3>5, <1>a
      DEF TypeOK, QInv, WqeLinkedWhileWaiting, LocalsInv
  <2>2. CASE ~done[t]
    BY <1>11, <2>2, <1>a, <1>q
    DEF CheckDone, TypeOK, QInv, WqeLinkedWhileWaiting, LocalsInv
  <2> QED BY <2>1, <2>2
<1>12. ASSUME NEW t \in Threads, NEW c \in CondVars, CondvarSignal(t, c)
       PROVE  QInv'
  BY <1>12, <1>a, <1>q
  DEF CondvarSignal, CvWaiters, TypeOK, QInv, WqeLinkedWhileWaiting, LocalsInv
<1>13. ASSUME NEW t \in Threads, NEW c \in CondVars, CondvarBroadcast(t, c)
       PROVE  QInv'
  BY <1>13, <1>a, <1>q
  DEF CondvarBroadcast, TypeOK, QInv, WqeLinkedWhileWaiting, LocalsInv
<1>14. CASE UNCHANGED vars
  BY <1>14, <1>a, <1>q
  DEF vars, QInv, WqeLinkedWhileWaiting, LocalsInv
<1> QED
  BY <1>1, <1>2, <1>3, <1>4, <1>5, <1>6, <1>7, <1>8, <1>9, <1>10, <1>11,
     <1>12, <1>13, <1>14
  DEF Next, Internal, Release, Acquire, Condvar

(***************************************************************************)
(* A wqe is linked exactly while its stack frame is in wq_wait_final() or  *)
(* on its way there, for any number of threads.                            *)
(***************************************************************************)
THEOREM WqeSafe == Spec => []WqeLinkedWhileWaiting
<1>1. Spec => [](TypeOK /\ QInv)
  BY InitTypeOK, NextTypeOK, InitQInv, NextQInv, PTL DEF Spec
<1>2. QInv => WqeLinkedWhileWaiting BY DEF QInv
<1> QED BY <1>1, <1>2, PTL

-----------------------------------------------------------------------------
(***************************************************************************)
(* Who holds the mutex.  A step that enters or leaves "hold" changes the   *)
(* set of readers or of writers by one thread.                             *)
(***************************************************************************)
LEMMA ReadersFinite ==
  ASSUME TypeOK
  PROVE  IsFiniteSet(Readers) /\ Cardinality(Readers) \in Nat
<1>1. Readers \subseteq Threads BY DEF Readers
<1>2. IsFiniteSet(Readers) BY <1>1, ThreadsAssumption, FS_Subset
<1> QED BY <1>2, FS_CardinalityType

(***************************************************************************)
(* The mutex is free and held by nobody initially.                         *)
(***************************************************************************)
LEMMA InitHolders == Init => StateMatchesHolders
<1> SUFFICES ASSUME Init PROVE StateMatchesHolders
  OBVIOUS
<1>1. Readers = {} /\ Writers = {} BY DEF Init, Readers, Writers
<1>2. Cardinality({}) = 0 BY FS_EmptySet
<1> QED BY <1>1, <1>2 DEF Init, StateMatchesHolders

(***************************************************************************)
(* A thread that takes the mutex, by a lock or by a try-lock.              *)
(***************************************************************************)
LEMMA TakeHolders ==
  ASSUME TypeOK, StateMatchesHolders, NEW t \in Threads, NEW r \in BOOLEAN,
         pc[t] # "hold", CanLock(r), state' = Locked(r),
         pc' = [pc EXCEPT ![t] = "hold"],
         wait_read' = [wait_read EXCEPT ![t] = r]
  PROVE  StateMatchesHolders'
<1>1. \A u \in Threads : pc'[u] # "panic"
  BY DEF StateMatchesHolders, TypeOK
<1>2. CASE r
  <2>1. state # -1 /\ state' = state + 1 BY <1>2 DEF CanLock, Locked
  <2>2. Writers' = {} BY <1>2, <2>1 DEF StateMatchesHolders, Writers, TypeOK
  <2>3. Readers' = Readers \cup {t} /\ t \notin Readers
    BY <1>2 DEF Readers, TypeOK
  <2>4. state = Cardinality(Readers) BY <2>1 DEF StateMatchesHolders
  <2>5. Cardinality(Readers') = Cardinality(Readers) + 1
    BY <2>3, ReadersFinite, FS_AddElement
  <2>6. state' = Cardinality(Readers') /\ state' # -1
    BY <2>1, <2>4, <2>5, ReadersFinite
  <2> QED BY <1>1, <2>2, <2>6 DEF StateMatchesHolders
<1>3. CASE ~r
  <2>1. state = 0 /\ state' = -1 BY <1>3 DEF CanLock, Locked
  <2>2. Writers = {} /\ Cardinality(Readers) = 0
    BY <2>1 DEF StateMatchesHolders
  <2>3. Readers = {} BY <2>2, ReadersFinite, FS_EmptySet
  <2>4. Readers' = {} BY <1>3, <2>3 DEF Readers, TypeOK
  <2>5. Writers' = {t} BY <1>3, <2>2 DEF Writers, TypeOK
  <2> QED BY <1>1, <2>1, <2>4, <2>5 DEF StateMatchesHolders
<1> QED BY <1>2, <1>3

(***************************************************************************)
(* A thread that gives the mutex up, by an unlock or by a condvar wait.    *)
(***************************************************************************)
LEMMA GiveHolders ==
  ASSUME TypeOK, StateMatchesHolders, NEW t \in Threads, pc[t] = "hold",
         state' = IF wait_read[t] THEN state - 1 ELSE 0,
         NEW l, l \notin {"hold", "panic"}, pc' = [pc EXCEPT ![t] = l],
         \A u \in Threads : u # t => wait_read'[u] = wait_read[u]
  PROVE  StateMatchesHolders'
<1>1. \A u \in Threads : pc'[u] # "panic"
  BY DEF StateMatchesHolders, TypeOK
<1>2. CASE wait_read[t]
  <2>1. t \in Readers BY <1>2 DEF Readers
  <2>2. state # -1 BY <2>1 DEF StateMatchesHolders
  <2>3. Writers = {} /\ state = Cardinality(Readers)
    BY <2>2 DEF StateMatchesHolders
  <2>4. Readers' = Readers \ {t} BY DEF Readers, TypeOK
  <2>5. Cardinality(Readers') = Cardinality(Readers) - 1
    BY <2>1, <2>4, ReadersFinite, FS_RemoveElement
  <2>6. Writers' = {} BY <2>3 DEF Writers, TypeOK
  <2>7. Cardinality(Readers) # 0
    BY <2>1, ReadersFinite, FS_EmptySet
  <2>8. state' = Cardinality(Readers') /\ state' # -1
    BY <1>2, <2>3, <2>5, <2>7, ReadersFinite
  <2> QED BY <1>1, <2>6, <2>8 DEF StateMatchesHolders
<1>3. CASE ~wait_read[t]
  <2>1. t \in Writers BY <1>3 DEF Writers
  <2>2. state = -1 BY <2>1 DEF StateMatchesHolders
  <2>3. Readers = {} /\ Writers = {t} BY <2>1, <2>2 DEF StateMatchesHolders
  <2>4. Readers' = {} BY <2>3 DEF Readers, TypeOK
  <2>5. Writers' = {} BY <2>3 DEF Writers, TypeOK
  <2>6. Cardinality({}) = 0 BY FS_EmptySet
  <2> QED BY <1>1, <1>3, <2>4, <2>5, <2>6 DEF StateMatchesHolders
<1> QED BY <1>2, <1>3

(***************************************************************************)
(* A thread that moves between locations where it does not hold the mutex. *)
(***************************************************************************)
LEMMA KeepHolders ==
  ASSUME TypeOK, StateMatchesHolders, UNCHANGED state,
         \A u \in Threads : /\ pc'[u] = "hold" <=> pc[u] = "hold"
                            /\ pc'[u] # "panic"
                            /\ pc[u] = "hold" => wait_read'[u] = wait_read[u]
  PROVE  StateMatchesHolders'
<1>1. Readers' = Readers BY DEF Readers, TypeOK
<1>2. Writers' = Writers BY DEF Writers, TypeOK
<1> QED BY <1>1, <1>2 DEF StateMatchesHolders

(***************************************************************************)
(* A thread that holds the mutex finds m->state not 0, and positive if it  *)
(* holds it for reading: the panics of the unlock paths are unreachable.   *)
(***************************************************************************)
LEMMA HolderState ==
  ASSUME TypeOK, StateMatchesHolders, NEW t \in Threads, pc[t] = "hold"
  PROVE  IF wait_read[t] THEN state > 0 ELSE state = -1
<1>1. CASE wait_read[t]
  <2>1. t \in Readers BY <1>1 DEF Readers
  <2>2. state # -1 /\ state = Cardinality(Readers)
    BY <2>1 DEF StateMatchesHolders
  <2>3. Cardinality(Readers) # 0 BY <2>1, ReadersFinite, FS_EmptySet
  <2> QED BY <1>1, <2>2, <2>3, ReadersFinite
<1>2. CASE ~wait_read[t]
  <2>1. t \in Writers BY <1>2 DEF Writers
  <2> QED BY <1>2, <2>1 DEF StateMatchesHolders
<1> QED BY <1>1, <1>2

(***************************************************************************)
(* Every step keeps m->state in agreement with the holders.                *)
(***************************************************************************)
LEMMA NextHolders ==
  TypeOK /\ StateMatchesHolders /\ [Next]_vars => StateMatchesHolders'
<1> SUFFICES ASSUME TypeOK, StateMatchesHolders, [Next]_vars
             PROVE  StateMatchesHolders'
  OBVIOUS
<1>p. \A u \in Threads : pc[u] # "panic" BY DEF StateMatchesHolders
<1> USE DEF Goto, mvars, wqvars, wakevars
<1>1. ASSUME NEW t \in Threads, NEW r \in BOOLEAN, CallLock(t, r)
      PROVE  StateMatchesHolders'
  BY <1>1, <1>p, KeepHolders DEF CallLock, TypeOK
<1>2. ASSUME NEW t \in Threads, LockTurn(t) PROVE StateMatchesHolders'
  <2>1. CASE CanLock(wait_read[t])
    <3>1. wait_read[t] \in BOOLEAN BY DEF TypeOK
    <3>2. wait_read' = [wait_read EXCEPT ![t] = wait_read[t]]
      BY <1>2 DEF LockTurn, TypeOK
    <3>3. pc[t] # "hold" BY <1>2 DEF LockTurn
    <3>4. /\ state' = Locked(wait_read[t])
          /\ pc' = [pc EXCEPT ![t] = "hold"]
      BY <1>2, <2>1 DEF LockTurn
    <3> QED BY <2>1, <3>1, <3>2, <3>3, <3>4, TakeHolders
  <2>2. CASE ~CanLock(wait_read[t])
    BY <1>2, <2>2, <1>p, KeepHolders DEF LockTurn, TypeOK
  <2> QED BY <2>1, <2>2
<1>3. ASSUME NEW t \in Threads, NEW r \in BOOLEAN, TryLock(t, r)
      PROVE  StateMatchesHolders'
  BY <1>3, TakeHolders DEF TryLock
<1>4. ASSUME NEW t \in Threads, Unlock(t) PROVE StateMatchesHolders'
  <2>1. state = -1 /\ pc[t] = "hold" /\ ~wait_read[t]
    BY <1>4, HolderState DEF Unlock
  <2>2. /\ state' = IF wait_read[t] THEN state - 1 ELSE 0
        /\ pc' = [pc EXCEPT ![t] = "wake"]
        /\ wait_read' = wait_read
    BY <1>4, <2>1 DEF Unlock
  <2> QED BY <2>1, <2>2, GiveHolders
<1>5. ASSUME NEW t \in Threads, ReadUnlock(t) PROVE StateMatchesHolders'
  <2>1. state > 0 /\ pc[t] = "hold" /\ wait_read[t]
    BY <1>5, HolderState DEF ReadUnlock
  <2>2. /\ state' = IF wait_read[t] THEN state - 1 ELSE 0
        /\ pc' = [pc EXCEPT ![t] = IF state' = 0 THEN "wake" ELSE "idle"]
        /\ wait_read' = wait_read
    BY <1>5, <2>1 DEF ReadUnlock, TypeOK
  <2>3. (IF state' = 0 THEN "wake" ELSE "idle") \notin {"hold", "panic"}
    OBVIOUS
  <2> QED BY <2>1, <2>2, <2>3, GiveHolders
<1>6. ASSUME NEW t \in Threads, NEW c \in CondVars, CondvarWait(t, c)
      PROVE  StateMatchesHolders'
  <2>1. pc[t] = "hold" BY <1>6 DEF CondvarWait
  <2>2. IF wait_read[t] THEN state > 0 ELSE state = -1 BY <2>1, HolderState
  <2>3. state # 0 BY <2>2 DEF TypeOK
  <2>4. state' = IF wait_read[t] THEN state - 1 ELSE 0
    BY <1>6, <2>2, <2>3 DEF CondvarWait, TypeOK
  <2>5. pc' = [pc EXCEPT ![t] = IF state' = 0 THEN "wake" ELSE "sleep"]
    BY <1>6, <2>3 DEF CondvarWait
  <2>6. wait_read' = [wait_read EXCEPT ![t] = state > 0]
    BY <1>6, <2>3 DEF CondvarWait
  <2>7. \A u \in Threads : u # t => wait_read'[u] = wait_read[u]
    BY <2>6 DEF TypeOK
  <2>8. (IF state' = 0 THEN "wake" ELSE "sleep") \notin {"hold", "panic"}
    OBVIOUS
  <2> QED BY <2>1, <2>4, <2>5, <2>7, <2>8, GiveHolders
<1>7. ASSUME NEW t \in Threads, WakeScan(t) PROVE StateMatchesHolders'
  <2>1. PICK l \in {"sleep", "idle", "wake_rpc"} : pc' = [pc EXCEPT ![t] = l]
    BY <1>7 DEF WakeScan, WakeReturn, WakeOne
  <2> QED BY <1>7, <2>1, <1>p, KeepHolders DEF WakeScan, TypeOK
<1>8. ASSUME NEW t \in Threads, WakeRpc(t) PROVE StateMatchesHolders'
  BY <1>8, <1>p, KeepHolders DEF WakeRpc, WakeReturn, TypeOK
<1>9. ASSUME NEW t \in Threads, SleepReturns(t) PROVE StateMatchesHolders'
  BY <1>9, <1>p, KeepHolders DEF SleepReturns, TypeOK
<1>10. ASSUME NEW t \in Threads, SleepFails(t) PROVE StateMatchesHolders'
  BY <1>10, <1>p, KeepHolders DEF SleepFails, TypeOK
<1>11. ASSUME NEW t \in Threads, CheckDone(t) PROVE StateMatchesHolders'
  <2>1. PICK l \in {"lock", "sleep"} : pc' = [pc EXCEPT ![t] = l]
    BY <1>11 DEF CheckDone
  <2> QED BY <1>11, <2>1, <1>p, KeepHolders DEF CheckDone, TypeOK
<1>12. ASSUME NEW t \in Threads, NEW c \in CondVars, CondvarSignal(t, c)
       PROVE  StateMatchesHolders'
  BY <1>12, <1>p, KeepHolders DEF CondvarSignal, TypeOK
<1>13. ASSUME NEW t \in Threads, NEW c \in CondVars, CondvarBroadcast(t, c)
       PROVE  StateMatchesHolders'
  BY <1>13, <1>p, KeepHolders DEF CondvarBroadcast, TypeOK
<1>14. CASE UNCHANGED vars
  BY <1>14, <1>p, KeepHolders DEF vars
<1> QED
  BY <1>1, <1>2, <1>3, <1>4, <1>5, <1>6, <1>7, <1>8, <1>9, <1>10, <1>11,
     <1>12, <1>13, <1>14
  DEF Next, Internal, Release, Acquire, Condvar

(***************************************************************************)
(* Mutual exclusion: m->state is -1 exactly when one writer and no reader  *)
(* holds the mutex, else it is the number of readers, and no holder meets  *)
(* a panic; for any number of threads.                                     *)
(***************************************************************************)
THEOREM MutualExclusion == Spec => []StateMatchesHolders
BY InitTypeOK, NextTypeOK, InitHolders, NextHolders, PTL DEF Spec

-----------------------------------------------------------------------------
(***************************************************************************)
(* No lost wake-up.  A step that leaves the active waiters as they are and *)
(* everybody who will pass the mutex on where they are keeps the promise.  *)
(***************************************************************************)
LEMMA KeepWakeup ==
  ASSUME NoLostWakeup, UNCHANGED state,
         \A u \in Threads : ActiveWaiter(u)' => ActiveWaiter(u),
         \A u \in Threads : WillPassOn(u) => WillPassOn(u)'
  PROVE  NoLostWakeup'
BY DEF NoLostWakeup

(***************************************************************************)
(* Every step keeps NoLostWakeup.                                          *)
(***************************************************************************)
LEMMA NextWakeup ==
  TypeOK /\ QInv /\ StateMatchesHolders /\ NoLostWakeup /\ [Next]_vars
    => NoLostWakeup'
<1> SUFFICES ASSUME TypeOK, QInv, StateMatchesHolders, NoLostWakeup,
                    [Next]_vars
             PROVE  NoLostWakeup'
  OBVIOUS
<1>l. LocalsInv BY DEF QInv
<1>q. ASSUME UNCHANGED wq
      PROVE  \A u \in Threads : Queued(u)' <=> Queued(u)
  BY <1>q DEF Queued
<1>s. ASSUME state' # 0 PROVE NoLostWakeup'
  BY <1>s DEF NoLostWakeup
<1>w. ASSUME NEW t \in Threads, WillPassOn(t)' PROVE NoLostWakeup'
  BY <1>w DEF NoLostWakeup
<1> USE DEF Goto, mvars, wqvars, wakevars
<1>1. ASSUME NEW t \in Threads, NEW r \in BOOLEAN, CallLock(t, r)
      PROVE  NoLostWakeup'
  BY <1>1, <1>w DEF CallLock, TypeOK, WillPassOn
<1>2. ASSUME NEW t \in Threads, LockTurn(t) PROVE NoLostWakeup'
  <2>1. state' # 0 BY <1>2 DEF LockTurn, CanLock, Locked, TypeOK
  <2> QED BY <2>1, <1>s
<1>3. ASSUME NEW t \in Threads, NEW r \in BOOLEAN, TryLock(t, r)
      PROVE  NoLostWakeup'
  <2>1. state' # 0 BY <1>3 DEF TryLock, CanLock, Locked, TypeOK
  <2> QED BY <2>1, <1>s
<1>4. ASSUME NEW t \in Threads, Unlock(t) PROVE NoLostWakeup'
  <2>1. state # 0 BY <1>4, HolderState DEF Unlock
  <2>2. wake_type[t] = "unassigned" BY <1>4, <1>l DEF Unlock, LocalsInv
  <2>3. WillPassOn(t)' BY <1>4, <2>1, <2>2 DEF Unlock, TypeOK, WillPassOn
  <2> QED BY <2>3, <1>w
<1>5. ASSUME NEW t \in Threads, ReadUnlock(t) PROVE NoLostWakeup'
  <2>1. state > 0 BY <1>5, HolderState DEF ReadUnlock
  <2>2. wake_type[t] = "unassigned" BY <1>5, <1>l DEF ReadUnlock, LocalsInv
  <2>3. CASE state' = 0
    <3>1. WillPassOn(t)'
      BY <1>5, <2>1, <2>2, <2>3 DEF ReadUnlock, TypeOK, WillPassOn
    <3> QED BY <3>1, <1>w
  <2> QED BY <2>3, <1>s
<1>6. ASSUME NEW t \in Threads, NEW c \in CondVars, CondvarWait(t, c)
      PROVE  NoLostWakeup'
  <2>1. pc[t] = "hold" BY <1>6 DEF CondvarWait
  <2>2. state # 0 BY <2>1, HolderState DEF TypeOK
  <2>3. wake_type[t] = "unassigned" BY <2>1, <1>l DEF LocalsInv
  <2>4. CASE state' = 0
    <3>1. pc' = [pc EXCEPT ![t] = "wake"] /\ UNCHANGED wake_type
      BY <1>6, <2>2, <2>4 DEF CondvarWait
    <3>2. WillPassOn(t)' BY <3>1, <2>3 DEF TypeOK, WillPassOn
    <3> QED BY <3>2, <1>w
  <2> QED BY <2>4, <1>s
<1>7. ASSUME NEW t \in Threads, WakeScan(t) PROVE NoLostWakeup'
  <2>1. CASE Eligible(t) = {} /\ WakeReturn(t) /\ UNCHANGED done
    <3>1. UNCHANGED <<state, wq, cv>> BY <1>7 DEF WakeScan
    <3>2. \A u \in Threads : ActiveWaiter(u)' => ActiveWaiter(u)
      BY <2>1, <3>1, <1>q DEF ActiveWaiter
    <3>3. CASE wake_type[t] = "unassigned"
      <4>1. \A u \in Threads : ~ActiveWaiter(u)
        BY <2>1, <3>3 DEF Eligible, ActiveWaiter, Queued
      <4> QED BY <3>2, <4>1 DEF NoLostWakeup
    <3>4. CASE wake_type[t] # "unassigned"
      <4>1. \A u \in Threads : WillPassOn(u) => WillPassOn(u)'
        BY <1>7, <2>1, <3>1, <3>4, <1>q
        DEF WakeScan, WakeReturn, WillPassOn, TypeOK
      <4> QED BY <3>1, <3>2, <4>1, KeepWakeup
    <3> QED BY <3>3, <3>4
  <2>2. CASE \E i \in Eligible(t) : WakeOne(t, i)
    <3>1. PICK i \in Eligible(t) : WakeOne(t, i) BY <2>2
    <3>2. wq[i] \in Threads /\ Queued(wq[i])
      BY <3>1 DEF Eligible, Queued, TypeOK
    <3>3. UNCHANGED wq BY <1>7 DEF WakeScan
    <3>4. Queued(wq[i])' BY <3>2, <3>3, <1>q
    <3>5. done'[wq[i]] BY <3>1, <3>2 DEF WakeOne, TypeOK
    <3>6. PICK u \in Threads : u = wq[i] BY <3>2
    <3>7. WillPassOn(u)' BY <3>3, <3>4, <3>5, <3>6 DEF WillPassOn, Queued
    <3> QED BY <3>7, <1>w
  <2> QED BY <1>7, <2>1, <2>2 DEF WakeScan
<1>8. ASSUME NEW t \in Threads, WakeRpc(t) PROVE NoLostWakeup'
  <2>1. UNCHANGED <<state, wq, done, cv>> /\ pc[t] = "wake_rpc"
    BY <1>8 DEF WakeRpc
  <2>2. \A u \in Threads : ActiveWaiter(u)' => ActiveWaiter(u)
    BY <2>1, <1>q DEF ActiveWaiter
  <2>3. \A u \in Threads : WillPassOn(u) => WillPassOn(u)'
    BY <1>8, <2>1, <1>q DEF WakeRpc, WakeReturn, WillPassOn, TypeOK
  <2> QED BY <2>1, <2>2, <2>3, KeepWakeup
<1>9. ASSUME NEW t \in Threads, SleepReturns(t) \/ SleepFails(t)
      PROVE  NoLostWakeup'
  <2>1. UNCHANGED <<state, wq, done, cv>> /\ pc[t] = "sleep"
    BY <1>9 DEF SleepReturns, SleepFails
  <2>2. \A u \in Threads : ActiveWaiter(u)' => ActiveWaiter(u)
    BY <2>1, <1>q DEF ActiveWaiter
  <2>3. \A u \in Threads : WillPassOn(u) => WillPassOn(u)'
    BY <1>9, <2>1, <1>q DEF SleepReturns, SleepFails, WillPassOn, TypeOK
  <2> QED BY <2>1, <2>2, <2>3, KeepWakeup
<1>10. ASSUME NEW t \in Threads, CheckDone(t) PROVE NoLostWakeup'
  <2>1. CASE done[t]
    <3>1. pc' = [pc EXCEPT ![t] = "lock"] BY <1>10, <2>1, Zenon DEF CheckDone
    <3>2. WillPassOn(t)' BY <3>1 DEF TypeOK, WillPassOn
    <3> QED BY <3>2, <1>w
  <2>2. CASE ~done[t]
    <3>1. UNCHANGED <<state, wq, done, cv>> /\ pc[t] = "check"
      BY <1>10, <2>2 DEF CheckDone
    <3>2. \A u \in Threads : ActiveWaiter(u)' => ActiveWaiter(u)
      BY <3>1, <1>q DEF ActiveWaiter
    <3>3. \A u \in Threads : WillPassOn(u) => WillPassOn(u)'
      BY <1>10, <2>2, <3>1, <1>q DEF CheckDone, WillPassOn, TypeOK
    <3> QED BY <3>1, <3>2, <3>3, KeepWakeup
  <2> QED BY <2>1, <2>2
<1>11. ASSUME NEW t \in Threads, NEW c \in CondVars,
              CondvarSignal(t, c) \/ CondvarBroadcast(t, c)
       PROVE  NoLostWakeup'
  <2>1. state # 0
    BY <1>11, HolderState DEF CondvarSignal, CondvarBroadcast, MaySignal, TypeOK
  <2>2. state' # 0 BY <1>11, <2>1 DEF CondvarSignal, CondvarBroadcast
  <2> QED BY <2>2, <1>s
<1>12. CASE UNCHANGED vars
  BY <1>12, <1>q DEF vars, NoLostWakeup, ActiveWaiter, WillPassOn
<1> QED
  BY <1>1, <1>2, <1>3, <1>4, <1>5, <1>6, <1>7, <1>8, <1>9, <1>10, <1>11,
     <1>12
  DEF Next, Internal, Release, Acquire, Condvar

(***************************************************************************)
(* mutex_unlock(), mutex_read_unlock() and condvar_wait() never lose a     *)
(* wake-up, for any number of threads: whenever the mutex is free and an   *)
(* active waiter is not done, a thread is about to scan the queue or to    *)
(* take the mutex.                                                         *)
(***************************************************************************)
THEOREM WakeupsNotLost == Spec => []NoLostWakeup
<1>1. Init => NoLostWakeup BY DEF Init, NoLostWakeup, ActiveWaiter, Queued
<1> QED
  BY <1>1, InitTypeOK, NextTypeOK, InitQInv, NextQInv, InitHolders,
     NextHolders, NextWakeup, PTL
  DEF Spec

-----------------------------------------------------------------------------
(***************************************************************************)
(* Refinement: every step of the mutex is a step of the monitor or leaves  *)
(* the monitor unchanged.                                                  *)
(***************************************************************************)
PhaseMap == [t \in Threads |-> Phase(t)]

(***************************************************************************)
(* The phase of one thread changes, those of the others do not.            *)
(***************************************************************************)
LEMMA PhaseStep ==
  ASSUME NEW t \in Threads,
         \A u \in Threads : u # t => Phase(u)' = Phase(u)
  PROVE  PhaseMap' = [PhaseMap EXCEPT ![t] = Phase(t)']
BY DEF PhaseMap

(***************************************************************************)
(* No phase changes.                                                       *)
(***************************************************************************)
LEMMA PhaseStutter ==
  ASSUME \A u \in Threads : Phase(u)' = Phase(u)
  PROVE  PhaseMap' = PhaseMap
BY DEF PhaseMap

(***************************************************************************)
(* A thread that holds the mutex is inside, and no other thread is inside  *)
(* in an incompatible mode (MayEnter of the monitor).                      *)
(***************************************************************************)
LEMMA Admitted ==
  ASSUME TypeOK, StateMatchesHolders, NEW t \in Threads, NEW r \in BOOLEAN,
         CanLock(r), NEW u \in Threads, Phase(u) = "in"
  PROVE  r /\ wait_read[u]
<1>1. pc[u] = "hold" BY DEF Phase
<1>2. IF wait_read[u] THEN state > 0 ELSE state = -1 BY <1>1, HolderState
<1> QED BY <1>2 DEF CanLock, TypeOK

(***************************************************************************)
(* Every step of the mutex maps to a step or a stutter of the monitor.     *)
(***************************************************************************)
LEMMA NextRefines ==
  TypeOK /\ QInv /\ StateMatchesHolders /\ [Next]_vars
    => [Abstract!Next]_(Abstract!vars)
<1> SUFFICES ASSUME TypeOK, QInv, StateMatchesHolders, [Next]_vars
             PROVE  Abstract!Next \/ UNCHANGED <<PhaseMap, wait_read, cv>>
  BY DEF Abstract!vars, PhaseMap
<1>a. WqeLinkedWhileWaiting /\ LocalsInv BY DEF QInv
<1>q. ASSUME UNCHANGED wq
      PROVE  \A u \in Threads : Queued(u)' <=> Queued(u)
  BY <1>q DEF Queued
<1> USE DEF Goto, mvars, wqvars, wakevars
<1>1. ASSUME NEW t \in Threads, NEW r \in BOOLEAN, CallLock(t, r)
      PROVE  Abstract!Next
  <2>1. ~Queued(t) BY <1>1, <1>a DEF CallLock, WqeLinkedWhileWaiting
  <2>2. /\ \A u \in Threads : u # t => Phase(u)' = Phase(u)
        /\ Phase(t) = "out" /\ Phase(t)' = "entering"
    BY <1>1, <2>1, <1>q DEF CallLock, Phase, TypeOK
  <2>3. PhaseMap' = [PhaseMap EXCEPT ![t] = "entering"]
    BY <2>2, PhaseStep
  <2>4. Abstract!Request(t, r)
    BY <1>1, <2>2, <2>3 DEF Abstract!Request, CallLock, PhaseMap
  <2> QED BY <2>4 DEF Abstract!Next
<1>2. ASSUME NEW t \in Threads, LockTurn(t)
      PROVE  Abstract!Next \/ UNCHANGED <<PhaseMap, wait_read, cv>>
  <2>1. ~Queued(t) BY <1>2, <1>a DEF LockTurn, WqeLinkedWhileWaiting
  <2>2. CASE CanLock(wait_read[t])
    <3>1. /\ \A u \in Threads : u # t => Phase(u)' = Phase(u)
          /\ Phase(t) = "entering" /\ Phase(t)' = "in"
      BY <1>2, <2>1, <2>2, <1>q DEF LockTurn, Phase, TypeOK
    <3>2. PhaseMap' = [PhaseMap EXCEPT ![t] = "in"] BY <3>1, PhaseStep
    <3>3. \A u \in Threads : Phase(u) = "in" => wait_read[t] /\ wait_read[u]
      <4>1. wait_read[t] \in BOOLEAN BY DEF TypeOK
      <4> QED BY <2>2, <4>1, Admitted
    <3>4. Abstract!MayEnter(t)
      BY <3>3 DEF Abstract!MayEnter, Abstract!In, PhaseMap
    <3>5. UNCHANGED <<wait_read, cv>> BY <1>2, <2>2 DEF LockTurn
    <3>6. Abstract!Enter(t)
      BY <3>1, <3>2, <3>4, <3>5 DEF Abstract!Enter, PhaseMap
    <3> QED BY <3>6 DEF Abstract!Next
  <2>3. CASE ~CanLock(wait_read[t])
    <3>1. wq' = Append(wq, t) BY <1>2, <2>3 DEF LockTurn, WaitInit
    <3>2. \A u \in Threads : Queued(u)' <=> Queued(u) \/ u = t
      BY <1>a, <2>1, <3>1, QueueGrows
    <3>3. cv[t] = NULL BY <1>a, <2>1 DEF LocalsInv
    <3>4. UNCHANGED <<wait_read, cv>>
      BY <1>2, <2>3, <3>3 DEF LockTurn, WaitInit, TypeOK
    <3>5. \A u \in Threads : Phase(u)' = Phase(u)
      BY <1>2, <2>1, <2>3, <3>2, <3>3, <3>4 DEF LockTurn, Phase, TypeOK
    <3> QED BY <3>4, <3>5, PhaseStutter
  <2> QED BY <2>2, <2>3
<1>3. ASSUME NEW t \in Threads, NEW r \in BOOLEAN, TryLock(t, r)
      PROVE  Abstract!Next
  <2>1. ~Queued(t) BY <1>3, <1>a DEF TryLock, WqeLinkedWhileWaiting
  <2>2. /\ \A u \in Threads : u # t => Phase(u)' = Phase(u)
        /\ Phase(t) = "out" /\ Phase(t)' = "in"
    BY <1>3, <2>1, <1>q DEF TryLock, Phase, TypeOK
  <2>3. PhaseMap' = [PhaseMap EXCEPT ![t] = "in"] BY <2>2, PhaseStep
  <2>4. \A u \in Threads : Phase(u) = "in" => r /\ wait_read[u]
    BY <1>3, Admitted DEF TryLock
  <2>5. Abstract!TryEnter(t, r)
    BY <1>3, <2>2, <2>3, <2>4
    DEF Abstract!TryEnter, Abstract!In, TryLock, PhaseMap
  <2> QED BY <2>5 DEF Abstract!Next
<1>4. ASSUME NEW t \in Threads, Release(t) PROVE Abstract!Next
  <2>1. pc[t] = "hold" BY <1>4 DEF Release, Unlock, ReadUnlock
  <2>2. ~Queued(t) BY <2>1, <1>a DEF WqeLinkedWhileWaiting
  <2>3. IF wait_read[t] THEN state > 0 ELSE state = -1 BY <2>1, HolderState
  <2>4. UNCHANGED <<wait_read, wq, cv>>
    BY <1>4 DEF Release, Unlock, ReadUnlock
  <2>5. PICK l \in {"wake", "idle"} : pc' = [pc EXCEPT ![t] = l]
    BY <1>4, <2>3 DEF Release, Unlock, ReadUnlock, TypeOK
  <2>6. /\ \A u \in Threads : u # t => Phase(u)' = Phase(u)
        /\ Phase(t) = "in" /\ Phase(t)' = "out"
    BY <2>1, <2>2, <2>4, <2>5, <1>q DEF Phase, TypeOK
  <2>7. PhaseMap' = [PhaseMap EXCEPT ![t] = "out"] BY <2>6, PhaseStep
  <2>8. Abstract!Leave(t)
    BY <2>4, <2>6, <2>7 DEF Abstract!Leave, Abstract!In, PhaseMap
  <2> QED BY <2>8 DEF Abstract!Next
<1>5. ASSUME NEW t \in Threads, NEW c \in CondVars, CondvarWait(t, c)
      PROVE  Abstract!Next
  <2>1. pc[t] = "hold" BY <1>5 DEF CondvarWait
  <2>2. IF wait_read[t] THEN state > 0 ELSE state = -1 BY <2>1, HolderState
  <2>3. state # 0 BY <2>2 DEF TypeOK
  <2>4. ~Queued(t) BY <2>1, <1>a DEF WqeLinkedWhileWaiting
  <2>5. /\ wq' = Append(wq, t)
        /\ cv' = [cv EXCEPT ![t] = c]
    BY <1>5, <2>3 DEF CondvarWait, WaitInit
  <2>6. UNCHANGED wait_read
    <3>1. wait_read' = [wait_read EXCEPT ![t] = state > 0]
      BY <1>5, <2>3 DEF CondvarWait
    <3>2. wait_read[t] \in BOOLEAN /\ (wait_read[t] <=> state > 0)
      BY <2>2 DEF TypeOK
    <3>3. wait_read[t] = (state > 0) BY <3>2
    <3> QED BY <3>1, <3>3 DEF TypeOK
  <2>7. \A u \in Threads : Queued(u)' <=> Queued(u) \/ u = t
    BY <1>a, <2>4, <2>5, QueueGrows
  <2>8. PICK l \in {"wake", "sleep"} : pc' = [pc EXCEPT ![t] = l]
    BY <1>5, <2>3 DEF CondvarWait
  <2>9. c # NULL BY CondVarsAssumption DEF NULL
  <2>10. /\ \A u \in Threads : u # t => Phase(u)' = Phase(u)
         /\ Phase(t) = "in" /\ Phase(t)' = "waiting"
    BY <2>1, <2>5, <2>7, <2>8, <2>9 DEF Phase, TypeOK
  <2>11. PhaseMap' = [PhaseMap EXCEPT ![t] = "waiting"] BY <2>10, PhaseStep
  <2>12. Abstract!Wait(t, c)
    BY <2>5, <2>6, <2>10, <2>11 DEF Abstract!Wait, Abstract!In, PhaseMap
  <2> QED BY <2>12 DEF Abstract!Next
<1>6. ASSUME NEW t \in Threads, WakeScan(t) \/ WakeRpc(t)
      PROVE  UNCHANGED <<PhaseMap, wait_read, cv>>
  <2>1. /\ UNCHANGED <<wait_read, wq, cv>>
        /\ pc[t] \in {"wake", "wake_rpc"}
    BY <1>6 DEF WakeScan, WakeRpc
  <2>2. PICK l \in {"sleep", "idle", "wake", "wake_rpc"} :
          pc' = [pc EXCEPT ![t] = l]
    BY <1>6 DEF WakeScan, WakeRpc, WakeReturn, WakeOne
  <2>3. \A u \in Threads : Phase(u)' = Phase(u)
    BY <2>1, <2>2, <1>q DEF Phase, TypeOK
  <2> QED BY <2>1, <2>3, PhaseStutter
<1>7. ASSUME NEW t \in Threads, SleepReturns(t) \/ SleepFails(t)
      PROVE  UNCHANGED <<PhaseMap, wait_read, cv>>
  <2>1. UNCHANGED <<wait_read, wq, cv>> /\ pc[t] = "sleep"
    BY <1>7 DEF SleepReturns, SleepFails
  <2>2. pc' = [pc EXCEPT ![t] = "check"]
    BY <1>7 DEF SleepReturns, SleepFails
  <2>3. \A u \in Threads : Phase(u)' = Phase(u)
    BY <2>1, <2>2, <1>q DEF Phase, TypeOK
  <2> QED BY <2>1, <2>3, PhaseStutter
<1>8. ASSUME NEW t \in Threads, CheckDone(t)
      PROVE  UNCHANGED <<PhaseMap, wait_read, cv>>
  <2>1. UNCHANGED <<wait_read, cv>> /\ pc[t] = "check"
    BY <1>8 DEF CheckDone
  <2>2. Queued(t) BY <2>1, <1>a DEF WqeLinkedWhileWaiting
  <2>3. CASE done[t]
    <3>1. /\ \E i \in DOMAIN wq : wq[i] = t /\ wq' = RemoveAt(wq, i)
          /\ pc' = [pc EXCEPT ![t] = "lock"]
      BY <1>8, <2>3, Zenon DEF CheckDone
    <3>2. \A u \in Threads : Queued(u)' <=> Queued(u) /\ u # t
      BY <1>a, <3>1, QueueShrinks
    <3>3. cv[t] = NULL BY <1>a, <2>3 DEF LocalsInv
    <3>4. pc' = [pc EXCEPT ![t] = "lock"] BY <3>1
    <3>5. \A u \in Threads : Phase(u)' = Phase(u)
      BY <2>1, <2>2, <3>2, <3>3, <3>4 DEF Phase, TypeOK
    <3> QED BY <2>1, <3>5, PhaseStutter
  <2>4. CASE ~done[t]
    <3>1. UNCHANGED wq /\ pc' = [pc EXCEPT ![t] = "sleep"]
      BY <1>8, <2>4 DEF CheckDone
    <3>2. \A u \in Threads : Phase(u)' = Phase(u)
      BY <2>1, <3>1, <1>q DEF Phase, TypeOK
    <3> QED BY <2>1, <3>2, PhaseStutter
  <2> QED BY <2>3, <2>4
<1>9. ASSUME NEW t \in Threads, NEW c \in CondVars, CondvarSignal(t, c)
      PROVE  Abstract!Next
  <2>1. PICK i \in CvWaiters(c) : cv' = [cv EXCEPT ![wq[i]] = NULL]
    BY <1>9 DEF CondvarSignal
  <2>2. PICK u \in Threads : u = wq[i]
    BY <2>1 DEF CvWaiters, TypeOK
  <2>3. Queued(u) /\ cv[u] = c /\ c # NULL
    BY <2>1, <2>2, CondVarsAssumption DEF CvWaiters, Queued, NULL
  <2>4. pc[u] # "hold" BY <2>3, <1>a DEF WqeLinkedWhileWaiting
  <2>5. UNCHANGED <<wait_read, wq, pc>> BY <1>9 DEF CondvarSignal
  <2>6. /\ \A w \in Threads : w # u => Phase(w)' = Phase(w)
        /\ Phase(u) = "waiting" /\ Phase(u)' = "entering"
    BY <2>1, <2>2, <2>3, <2>4, <2>5, <1>q DEF Phase, TypeOK
  <2>7. PhaseMap' = [w \in Threads |-> IF w \in {u} THEN "entering"
                                                  ELSE PhaseMap[w]]
    BY <2>6 DEF PhaseMap
  <2>8. cv' = [w \in Threads |-> IF w \in {u} THEN NULL ELSE cv[w]]
    BY <2>1, <2>2 DEF TypeOK
  <2>9. Abstract!Resume({u})
    BY <2>5, <2>7, <2>8 DEF Abstract!Resume, Abstract!NoCond, PhaseMap, NULL
  <2>10. u \in Abstract!Waiters(c)
    BY <2>3, <2>6 DEF Abstract!Waiters
  <2> QED BY <2>9, <2>10 DEF Abstract!Next, Abstract!Signal
<1>10. ASSUME NEW t \in Threads, NEW c \in CondVars, CondvarBroadcast(t, c)
       PROVE  Abstract!Next
  <2>1. /\ cv' = [w \in Threads |-> IF cv[w] = c THEN NULL ELSE cv[w]]
        /\ UNCHANGED <<wait_read, wq, pc>>
    BY <1>10 DEF CondvarBroadcast
  <2>2. c # NULL BY CondVarsAssumption DEF NULL
  <2>3. \A w \in Threads : cv[w] = c => Queued(w) /\ pc[w] # "hold"
    BY <2>2, <1>a DEF LocalsInv, WqeLinkedWhileWaiting
  <2>4. \A w \in Threads : w \in Abstract!Waiters(c) <=> cv[w] = c
    BY <2>2, <2>3 DEF Abstract!Waiters, Phase
  <2>5. \A w \in Threads :
          Phase(w)' = IF cv[w] = c THEN "entering" ELSE Phase(w)
    BY <2>1, <2>2, <2>3, <1>q DEF Phase, TypeOK
  <2>6. PhaseMap' = [w \in Threads |-> IF w \in Abstract!Waiters(c)
                                        THEN "entering" ELSE PhaseMap[w]]
    BY <2>4, <2>5 DEF PhaseMap
  <2>7. cv' = [w \in Threads |-> IF w \in Abstract!Waiters(c)
                                  THEN NULL ELSE cv[w]]
    BY <2>1, <2>4
  <2>8. Abstract!Resume(Abstract!Waiters(c))
    BY <2>1, <2>6, <2>7 DEF Abstract!Resume, Abstract!NoCond, PhaseMap, NULL
  <2> QED BY <2>8 DEF Abstract!Next, Abstract!Broadcast
<1>11. CASE UNCHANGED vars
  <2>1. UNCHANGED <<pc, wq, cv, wait_read>> BY <1>11 DEF vars
  <2>2. \A u \in Threads : Phase(u)' = Phase(u) BY <2>1, <1>q DEF Phase
  <2> QED BY <2>1, <2>2, PhaseStutter
<1> QED
  BY <1>1, <1>2, <1>3, <1>4, <1>5, <1>6, <1>7, <1>8, <1>9, <1>10, <1>11
  DEF Next, Internal, Acquire, Condvar

(***************************************************************************)
(* The mutex with its wait queue and condvars implements the monitor, for  *)
(* any number of threads and condvars.                                     *)
(***************************************************************************)
THEOREM RefinesMonitor == Spec => ImplementsMonitor
<1>1. Init => Abstract!Init
  BY DEF Init, Abstract!Init, Phase, Queued, Abstract!NoCond, NULL
<1> QED
  BY <1>1, InitTypeOK, NextTypeOK, InitQInv, NextQInv, InitHolders,
     NextHolders, NextRefines, PTL
  DEF Spec, ImplementsMonitor, Abstract!Spec
=============================================================================
