----------------------------- MODULE TaManager ------------------------------
(***************************************************************************)
(* Sessions and contexts of one user-mode trusted application,             *)
(* core/kernel/tee_ta_manager.c with tee_ta_init_user_ta_session() of      *)
(* core/kernel/user_ta.c, under calls from the normal world                *)
(* (core/tee/entry_std.c): open, invoke and close.  The TA calls no other  *)
(* TA and is not flagged TA_FLAG_CONCURRENT, as pseudo TAs may be.         *)
(*                                                                         *)
(* A step is one critical section of tee_ta_mutex, up to its end or to a   *)
(* condvar_wait(), or the code between two of them.  (That a mutex makes   *)
(* this so, and that a wait is not missed, is shown of module Mutex.)      *)
(***************************************************************************)
EXTENDS Integers, FiniteSets

CONSTANTS Threads,
          MaxSess,          \* bound on the number of sessions ever opened
          MaxCtx,           \* bound on the number of contexts ever loaded
          Tas,              \* the TAs considered: a set of records of flags
          None

TaFlags ==
  [SingleInstance : BOOLEAN,    \* TA_FLAG_SINGLE_INSTANCE
   MultiSession   : BOOLEAN,    \* TA_FLAG_MULTI_SESSION
   KeepAlive      : BOOLEAN,    \* TA_FLAG_INSTANCE_KEEP_ALIVE
   NoInstanceLock : BOOLEAN,    \* CFG_CONCURRENT_SINGLE_INSTANCE_TA
   CanPanic       : BOOLEAN]    \* the TA may panic

ASSUME TaManagerAssumption ==
  /\ IsFiniteSet(Threads) /\ None \notin Threads
  /\ MaxSess \in Nat /\ MaxCtx \in Nat
  /\ None \notin Nat
  /\ Tas \subseteq TaFlags

VARIABLES
  ta,       \* the TA's flags and the build's choice; never changes
  sess,     \* struct tee_ta_session; its number is its id
  ctxs,     \* struct tee_ta_ctx
  sil,      \* tee_ta_single_instance_thread
  known,    \* the sessions the client has been told of and has not closed
  pc, op,   \* where each thread is, and in which call; "abort" is an open
            \* that closes its session again
  s, c,     \* its session and its context
  entered,  \* it has set the context busy
  res,      \* what an open is to return: TRUE is TEE_SUCCESS
  halted    \* the core has panicked, failed an assertion or used freed
            \* memory: it takes no further step

vars == <<ta, sess, ctxs, sil, known, pc, op, s, c, entered, res, halted>>

Sess == 1 .. MaxSess
Ctxs == 1 .. MaxCtx

NoSession == [st |-> "none", ref_count |-> 0, lock_thread |-> None,
              unlink |-> FALSE, ctx |-> None]

NoContext == [st |-> "none", ref_count |-> 0, busy |-> FALSE,
              panicked |-> FALSE, is_initializing |-> FALSE]

Init ==
  /\ ta \in Tas
  /\ sess = [n \in Sess |-> NoSession]
  /\ ctxs = [x \in Ctxs |-> NoContext]
  /\ sil = None
  /\ known = {}
  /\ pc = [t \in Threads |-> "idle"]
  /\ op = [t \in Threads |-> "open"]
  /\ s = [t \in Threads |-> None]
  /\ c = [t \in Threads |-> None]
  /\ entered = [t \in Threads |-> FALSE]
  /\ res = [t \in Threads |-> FALSE]
  /\ halted = FALSE

-----------------------------------------------------------------------------
(***************************************************************************)
(* Condition variables: who sleeps on each, and where a thread goes on     *)
(* once woken up, to evaluate its condition again.                         *)
(***************************************************************************)
Asleep(l) == {u \in Threads : pc[u] = l}

LockWaiters(n) == {u \in Asleep("lockWait") : s[u] = n}
RefcWaiters(n) == {u \in Asleep("refcWait") : s[u] = n}
BusyWaiters(x) == {u \in Asleep("busyWait") : c[u] = x}

Retry == [initWait |-> "find", silWait |-> "setBusy", busyWait |-> "setBusy",
          lockWait |-> "lock", refcWait |-> "unlinkTurn"]

(***************************************************************************)
(* condvar_signal() wakes up one of the threads asleep, if there is one.   *)
(***************************************************************************)
Signal(p, W) ==
  IF W = {} THEN {p} ELSE {[p EXCEPT ![u] = Retry[p[u]]] : u \in W}

Broadcast(p, W) ==
  [u \in Threads |-> IF u \in W THEN Retry[p[u]] ELSE p[u]]

At(t, l) == ~halted /\ pc[t] = l

Goto(t, l) == pc' = [pc EXCEPT ![t] = l]

(***************************************************************************)
(* tee_ta_close_session() is called by a close and by an open that failed; *)
(* an open that has closed its session may still have it to tell.  (A      *)
(* thread that is idle here is one whose invoke finds no session.)         *)
(***************************************************************************)
Closing(t) == op[t] \in {"close", "abort"}

Closed(t) ==
  IF pc[t] # "idle" /\ op[t] = "abort" /\ res[t] THEN "tell" ELSE "idle"

-----------------------------------------------------------------------------
(***************************************************************************)
(* tee_ta_init_session_with_context() for session n of ss: the oldest      *)
(* context of the TA, once it is not being loaded; a new one if there is   *)
(* none or the TA is not single instance.                                  *)
(***************************************************************************)
ContextFind ==
  {x \in Ctxs : /\ ctxs[x].st = "listed"
                /\ \A y \in Ctxs : ctxs[y].st = "listed" => x <= y}

(***************************************************************************)
(* Mutant: the first session of a context does not keep a second one out.  *)
(***************************************************************************)
MutantMayShare(x) == ta.MultiSession \/ ctxs[x].ref_count <= 1

MayShare(x) == ta.MultiSession \/ ctxs[x].ref_count = 0

InitSessionWithContext(t, ss, n) ==
  \/ /\ \A x \in ContextFind : ~ctxs[x].is_initializing /\ ~ta.SingleInstance
     /\ sess' = ss
     /\ Goto(t, "load")
     /\ UNCHANGED ctxs
  \/ \E x \in ContextFind :
       \/ /\ ctxs[x].is_initializing
          /\ sess' = ss
          /\ Goto(t, "initWait")
          /\ UNCHANGED ctxs
       \/ /\ ~ctxs[x].is_initializing /\ ta.SingleInstance
          /\ ~MayShare(x)
          /\ sess' = ss
          /\ Goto(t, "initFail")
          /\ UNCHANGED ctxs
       \/ /\ ~ctxs[x].is_initializing /\ ta.SingleInstance
          /\ MayShare(x)
          /\ ctxs' = [ctxs EXCEPT ![x].ref_count = @ + 1]
          /\ sess' = [ss EXCEPT ![n].ctx = x]
          /\ Goto(t, "opened")

(***************************************************************************)
(* tee_ta_open_session(), tee_ta_init_session(): a new session, with a     *)
(* reference for the thread that opens it.                                 *)
(***************************************************************************)
OpenSession(t) ==
  \E n \in Sess :
    /\ At(t, "idle")
    /\ sess[n].st = "none"
    /\ \A m \in Sess : m < n => sess[m].st # "none"
    /\ InitSessionWithContext(t,
         [sess EXCEPT ![n].st = "listed", ![n].ref_count = 1], n)
    /\ s' = [s EXCEPT ![t] = n]
    /\ op' = [op EXCEPT ![t] = "open"]
    /\ res' = [res EXCEPT ![t] = FALSE]
    /\ UNCHANGED <<ta, sil, known, c, entered, halted>>

FindAgain(t) ==
  /\ At(t, "find")
  /\ InitSessionWithContext(t, sess, s[t])
  /\ UNCHANGED <<ta, sil, known, op, s, c, entered, res, halted>>

(***************************************************************************)
(* tee_ta_init_user_ta_session(): the context is listed before ldelf loads *)
(* the TA without tee_ta_mutex; the outcome is made known to the waiters.  *)
(***************************************************************************)
Load(t) ==
  \/ /\ At(t, "load")
     /\ \E x \in Ctxs :
          /\ ctxs[x].st = "none"
          /\ \A y \in Ctxs : y < x => ctxs[y].st # "none"
          /\ ctxs' = [ctxs EXCEPT ![x].st = "listed", ![x].ref_count = 1,
                                  ![x].is_initializing = TRUE]
          /\ sess' = [sess EXCEPT ![s[t]].ctx = x]
          /\ c' = [c EXCEPT ![t] = x]
     /\ Goto(t, "loading")
     /\ UNCHANGED <<ta, sil, known, op, s, entered, res, halted>>
  \/ /\ At(t, "load")
     /\ Goto(t, "initFail")             \* out of memory, or no such TA
     /\ UNCHANGED <<ta, sess, ctxs, sil, known, op, s, c, entered, res, halted>>

Loaded(t) ==
  /\ At(t, "loading")
  /\ LET p == Broadcast(pc, Asleep("initWait"))
     IN  \/ /\ ctxs' = [ctxs EXCEPT ![c[t]].is_initializing = FALSE]
            /\ pc' = [p EXCEPT ![t] = "opened"]
            /\ UNCHANGED sess
         \/ /\ ctxs' = [ctxs EXCEPT ![c[t]].st = "freed"]
            /\ sess' = [sess EXCEPT ![s[t]].ctx = None]
            /\ pc' = [p EXCEPT ![t] = "initFail"]
  /\ UNCHANGED <<ta, sil, known, op, s, c, entered, res, halted>>

(***************************************************************************)
(* tee_ta_init_session() fails: the session is removed and freed.          *)
(***************************************************************************)
InitFails(t) ==
  /\ At(t, "initFail")
  /\ sess' = [sess EXCEPT ![s[t]].st = "freed"]
  /\ Goto(t, "idle")
  /\ UNCHANGED <<ta, ctxs, sil, known, op, s, c, entered, res, halted>>

-----------------------------------------------------------------------------
(***************************************************************************)
(* Mutant of tee_ta_get_session(): the session is locked without a         *)
(* reference.                                                              *)
(***************************************************************************)
MutantGetSession(t, n) ==
  \/ /\ sess[n].st # "listed" \/ sess[n].unlink \/ sess[n].lock_thread # None
     /\ Goto(t, Closed(t))
     /\ UNCHANGED sess
  \/ /\ sess[n].st = "listed" /\ ~sess[n].unlink /\ sess[n].lock_thread = None
     /\ sess' = [sess EXCEPT ![n].lock_thread = t]
     /\ Goto(t, "check")

(***************************************************************************)
(* tee_ta_get_session(), exclusive, of session n: not if it is unlinked;   *)
(* else a reference, and the lock once no other thread has it.             *)
(***************************************************************************)
GetSession(t, n) ==
  \/ /\ sess[n].st # "listed" \/ sess[n].unlink
     /\ Goto(t, Closed(t))
     /\ UNCHANGED sess
  \/ /\ sess[n].st = "listed" /\ ~sess[n].unlink
     /\ IF sess[n].lock_thread = None
          THEN /\ sess' = [sess EXCEPT ![n].ref_count = @ + 1,
                                       ![n].lock_thread = t]
               /\ Goto(t, "check")
          ELSE /\ sess' = [sess EXCEPT ![n].ref_count = @ + 1]
               /\ Goto(t, "lockWait")

(***************************************************************************)
(* entry_invoke_command()                                                  *)
(***************************************************************************)
InvokeCommand(t) ==
  \E n \in known :
    /\ At(t, "idle")
    /\ GetSession(t, n)
    /\ s' = [s EXCEPT ![t] = n]
    /\ op' = [op EXCEPT ![t] = "invoke"]
    /\ UNCHANGED <<ta, ctxs, sil, known, c, entered, res, halted>>

(***************************************************************************)
(* entry_close_session(): tee_ta_find_session(), then tee_ta_close_        *)
(* session(), which gets the session again by its id.  A client closes a   *)
(* session once, but other threads of it may still be invoking it.         *)
(***************************************************************************)
CloseSession(t) ==
  \E n \in known :
    /\ At(t, "idle")
    /\ known' = known \ {n}
    /\ s' = [s EXCEPT ![t] = n]
    /\ op' = [op EXCEPT ![t] = "close"]
    /\ Goto(t, "get")
    /\ UNCHANGED <<ta, sess, ctxs, sil, c, entered, res, halted>>

CloseGets(t) ==
  /\ At(t, "get")
  /\ sess[s[t]].st # "freed"
  /\ GetSession(t, s[t])
  /\ UNCHANGED <<ta, ctxs, sil, known, op, s, c, entered, res, halted>>

(***************************************************************************)
(* Mutants of tee_ta_get_session(): a woken thread does not look again     *)
(* whether the session is locked; one that gives up its reference does not *)
(* tell the thread that is unlinking the session.                          *)
(***************************************************************************)
MutantTakesLock(t) ==
  /\ At(t, "lock")
  /\ sess' = [sess EXCEPT ![s[t]].lock_thread = t]
  /\ Goto(t, "check")
  /\ UNCHANGED <<ta, ctxs, sil, known, op, s, c, entered, res, halted>>

MutantGivesUpQuietly(t) ==
  LET n == s[t]
  IN  /\ At(t, "lock")
      /\ IF sess[n].unlink
           THEN /\ sess' = [sess EXCEPT ![n].ref_count = @ - 1]
                /\ Goto(t, Closed(t))
           ELSE IF sess[n].lock_thread = None
           THEN /\ sess' = [sess EXCEPT ![n].lock_thread = t]
                /\ Goto(t, "check")
           ELSE Goto(t, "lockWait") /\ UNCHANGED sess
      /\ UNCHANGED <<ta, ctxs, sil, known, op, s, c, entered, res, halted>>

(***************************************************************************)
(* A woken thread of tee_ta_get_session(); dec_session_ref_count() tells   *)
(* the thread that is unlinking the session.                               *)
(***************************************************************************)
LockTurn(t) ==
  LET n == s[t]
  IN  /\ At(t, "lock")
      /\ IF sess[n].unlink
           THEN /\ sess' = [sess EXCEPT ![n].ref_count = @ - 1]
                /\ \E p \in IF sess[n].ref_count = 2
                             THEN Signal(pc, RefcWaiters(n)) ELSE {pc} :
                     pc' = [p EXCEPT ![t] = Closed(t)]
           ELSE IF sess[n].lock_thread = None
           THEN /\ sess' = [sess EXCEPT ![n].lock_thread = t]
                /\ Goto(t, "check")
           ELSE Goto(t, "lockWait") /\ UNCHANGED sess
      /\ UNCHANGED <<ta, ctxs, sil, known, op, s, c, entered, res, halted>>

(***************************************************************************)
(* Mutant: the client is told of the session before the open is known to   *)
(* have succeeded.                                                         *)
(***************************************************************************)
MutantPutTells(t) ==
  LET n == s[t]
      mine == sess[n].lock_thread = t
  IN  /\ At(t, "put")
      /\ sess' = [sess EXCEPT ![n].ref_count = @ - 1,
                              ![n].lock_thread = IF mine THEN None ELSE @]
      /\ \E p \in IF mine THEN Signal(pc, LockWaiters(n)) ELSE {pc} :
         \E q \in IF sess[n].ref_count = 2 THEN Signal(p, RefcWaiters(n))
                                           ELSE {p} :
           pc' = [q EXCEPT ![t] = IF op[t] = "abort" THEN "get" ELSE "idle"]
      /\ known' = IF op[t] # "invoke" THEN known \cup {n} ELSE known
      /\ UNCHANGED <<ta, ctxs, sil, op, s, c, entered, res, halted>>

(***************************************************************************)
(* tee_ta_put_session(), at the end of an invoke and of an open.  An open  *)
(* that failed goes on to close the session.                               *)
(***************************************************************************)
PutSession(t) ==
  LET n == s[t]
      mine == sess[n].lock_thread = t
  IN  /\ At(t, "put")
      /\ sess' = [sess EXCEPT ![n].ref_count = @ - 1,
                              ![n].lock_thread = IF mine THEN None ELSE @]
      /\ \E p \in IF mine THEN Signal(pc, LockWaiters(n)) ELSE {pc} :
         \E q \in IF sess[n].ref_count = 2 THEN Signal(p, RefcWaiters(n))
                                           ELSE {p} :
           pc' = [q EXCEPT ![t] = IF op[t] = "abort" THEN "get" ELSE "idle"]
      /\ known' = IF op[t] = "open" THEN known \cup {n} ELSE known
      /\ UNCHANGED <<ta, ctxs, sil, op, s, c, entered, res, halted>>

(***************************************************************************)
(* The end of entry_open_session() after an open that closed its session   *)
(* and yet returns TEE_SUCCESS: s->id is read from memory that has been    *)
(* freed, and may be unchanged, a newer session's or no session's.         *)
(***************************************************************************)
Tell(t) ==
  /\ At(t, "tell")
  /\ known' \in {known} \cup
       {known \cup {n} : n \in {m \in Sess : m >= s[t] /\ sess[m].st # "none"}}
  /\ Goto(t, "idle")
  /\ UNCHANGED <<ta, sess, ctxs, sil, op, s, c, entered, res, halted>>

-----------------------------------------------------------------------------
(***************************************************************************)
(* The start of tee_ta_open_session() after the session is initialised, of *)
(* tee_ta_invoke_command() and of tee_ta_close_session(): is there a       *)
(* context, and has it panicked?                                           *)
(***************************************************************************)
Dead(n) == IF sess[n].ctx = None THEN TRUE ELSE ctxs[sess[n].ctx].panicked

OpenedDead(t) ==
  /\ At(t, "opened")
  /\ Dead(s[t])
  /\ op' = [op EXCEPT ![t] = "abort"]
  /\ Goto(t, "get")
  /\ UNCHANGED <<ta, sess, ctxs, sil, known, s, c, entered, res, halted>>

Check(t) ==
  LET x == sess[s[t]].ctx
  IN  /\ \/ At(t, "opened") /\ ~Dead(s[t])
         \/ At(t, "check")
      /\ c' = [c EXCEPT ![t] = x]
      /\ entered' = [entered EXCEPT ![t] = FALSE]
      /\ Goto(t, IF ~Dead(s[t]) THEN "setBusy"
                 ELSE IF Closing(t) THEN "unlink"
                 ELSE IF x = None THEN "put" ELSE "destroyCtx")
      /\ UNCHANGED <<ta, sess, ctxs, sil, known, op, s, res, halted>>

(***************************************************************************)
(* tee_ta_try_set_busy().  Without calls from TA to TA a thread never has  *)
(* the single-instance lock here, and with that lock the TA is not busy.   *)
(***************************************************************************)
InstanceLock == ta.SingleInstance /\ ~ta.NoInstanceLock

InFreed(t) == c[t] # None /\ ctxs[c[t]].st = "freed"

(***************************************************************************)
(* Mutant: a woken thread does not look again whether the TA is busy.      *)
(***************************************************************************)
MutantSetBusy(t) ==
  /\ At(t, "setBusy")
  /\ ~InFreed(t)
  /\ ctxs' = [ctxs EXCEPT ![c[t]].busy = TRUE]
  /\ sil' = IF InstanceLock THEN t ELSE sil
  /\ entered' = [entered EXCEPT ![t] = TRUE]
  /\ Goto(t, "inTA")
  /\ UNCHANGED <<ta, sess, known, op, s, c, res, halted>>

SetBusy(t) ==
  /\ At(t, "setBusy")
  /\ ~InFreed(t)
  /\ \/ /\ InstanceLock /\ sil # None
        /\ Goto(t, "silWait")
        /\ UNCHANGED <<ctxs, sil, entered>>
     \/ /\ ~InstanceLock /\ ctxs[c[t]].busy
        /\ Goto(t, "busyWait")
        /\ UNCHANGED <<ctxs, sil, entered>>
     \/ /\ InstanceLock => sil = None
        /\ ~InstanceLock => ~ctxs[c[t]].busy
        /\ ctxs' = [ctxs EXCEPT ![c[t]].busy = TRUE]
        /\ sil' = IF InstanceLock THEN t ELSE sil
        /\ entered' = [entered EXCEPT ![t] = TRUE]
        /\ Goto(t, "inTA")
  /\ UNCHANGED <<ta, sess, known, op, s, c, res, halted>>

(***************************************************************************)
(* user_ta_enter(): the TA is not entered for lack of memory, or it        *)
(* returns, or it panics; thread_unwind_user_mode() stores which of the    *)
(* last two.  A session being closed is destroyed before the context is    *)
(* free for others.                                                        *)
(***************************************************************************)
TaResult(t, ok) == res' = IF op[t] = "open" THEN [res EXCEPT ![t] = ok] ELSE res

RunTa(t) ==
  /\ At(t, "inTA")
  /\ ~InFreed(t)
  /\ \/ TaResult(t, FALSE) /\ UNCHANGED ctxs
     \/ /\ \E ok \in BOOLEAN : TaResult(t, ok)
        /\ ctxs' = [ctxs EXCEPT ![c[t]].panicked = FALSE]
     \/ /\ ta.CanPanic
        /\ TaResult(t, FALSE)
        /\ ctxs' = [ctxs EXCEPT ![c[t]].panicked = TRUE]
  /\ Goto(t, IF Closing(t) THEN "unlink" ELSE "clearBusy")
  /\ UNCHANGED <<ta, sess, sil, known, op, s, c, entered, halted>>

(***************************************************************************)
(* Mutant: condvar_signal() is left out.                                   *)
(***************************************************************************)
MutantClearBusy(t) ==
  /\ At(t, "clearBusy")
  /\ ~InFreed(t)
  /\ ctxs' = [ctxs EXCEPT ![c[t]].busy = FALSE]
  /\ sil' = IF InstanceLock THEN None ELSE sil
  /\ Goto(t, IF Closing(t) THEN "drop" ELSE "returned")
  /\ UNCHANGED <<ta, sess, known, op, s, c, entered, res, halted>>

(***************************************************************************)
(* tee_ta_clear_busy()                                                     *)
(***************************************************************************)
ClearBusy(t) ==
  /\ At(t, "clearBusy")
  /\ ~InFreed(t)
  /\ ctxs' = [ctxs EXCEPT ![c[t]].busy = FALSE]
  /\ sil' = IF InstanceLock THEN None ELSE sil
  /\ \E p \in Signal(pc, BusyWaiters(c[t])) :
     \E q \in IF InstanceLock THEN Signal(p, Asleep("silWait")) ELSE {p} :
       pc' = [q EXCEPT ![t] = IF Closing(t) THEN "drop" ELSE "returned"]
  /\ UNCHANGED <<ta, sess, known, op, s, c, entered, res, halted>>

(***************************************************************************)
(* The rest of tee_ta_open_session() and tee_ta_invoke_command() looks     *)
(* whether the TA has panicked, be it in another thread.                   *)
(***************************************************************************)
Returned(t) ==
  /\ At(t, "returned")
  /\ ~InFreed(t)
  /\ op' = IF op[t] = "open" /\ (ctxs[c[t]].panicked \/ ~res[t])
             THEN [op EXCEPT ![t] = "abort"] ELSE op
  /\ Goto(t, IF op[t] = "invoke" /\ ctxs[c[t]].panicked THEN "destroyCtx"
                                                         ELSE "put")
  /\ UNCHANGED <<ta, sess, ctxs, sil, known, s, c, entered, res, halted>>

-----------------------------------------------------------------------------
(***************************************************************************)
(* tee_ta_unlink_session(): no new references, the threads waiting for the *)
(* lock give up theirs, and the session is freed when one is left.         *)
(***************************************************************************)
UnlinkTurn(t, p) ==
  /\ sess' = [sess EXCEPT ![s[t]].unlink = TRUE,
                          ![s[t]].st = IF sess[s[t]].ref_count = 1
                                         THEN "freed" ELSE @]
  /\ pc' = [p EXCEPT ![t] = IF sess[s[t]].ref_count # 1 THEN "refcWait"
                            ELSE IF entered[t] THEN "clearBusy"
                            ELSE IF c[t] # None THEN "drop" ELSE Closed(t)]
  /\ UNCHANGED <<ta, ctxs, sil, known, op, s, c, entered, res, halted>>

(***************************************************************************)
(* Mutant: the threads waiting for the lock are not told.                  *)
(***************************************************************************)
MutantUnlink(t) == At(t, "unlink") /\ UnlinkTurn(t, pc)

Unlink(t) ==
  /\ At(t, "unlink")
  /\ UnlinkTurn(t, Broadcast(pc, LockWaiters(s[t])))

UnlinkAgain(t) == At(t, "unlinkTurn") /\ UnlinkTurn(t, pc)

(***************************************************************************)
(* The end of tee_ta_close_session(): the context loses a reference, and   *)
(* goes with the last one unless the TA is kept alive.                     *)
(***************************************************************************)
Kept == ta.KeepAlive /\ ta.SingleInstance

(***************************************************************************)
(* Mutants: a context that is kept or has panicked keeps its count; the    *)
(* last reference is mistaken.                                             *)
(***************************************************************************)
MutantDropped(x) ==
  IF Kept \/ ctxs[x].panicked THEN ctxs[x]
                               ELSE [ctxs[x] EXCEPT !.ref_count = @ - 1]

MutantGoes(x) == ctxs[x].ref_count <= 2 /\ ~Kept

Dropped(x) == [ctxs[x] EXCEPT !.ref_count = @ - 1]

Goes(x) == ctxs[x].ref_count = 1 /\ ~Kept

DropContext(t) ==
  LET x == c[t]
  IN  /\ At(t, "drop")
      /\ ~InFreed(t)
      /\ ctxs[x].ref_count > 0
      /\ ctxs' = [ctxs EXCEPT ![x] = IF Goes(x)
                                       THEN [Dropped(x) EXCEPT !.st = "unlisted"]
                                       ELSE Dropped(x)]
      /\ Goto(t, IF Goes(x) THEN "freeCtx" ELSE Closed(t))
      /\ UNCHANGED <<ta, sess, sil, known, op, s, c, entered, res, halted>>

(***************************************************************************)
(* destroy_ta_ctx_from_session(), after a panic: every other session of    *)
(* the context forgets it; assert(count == ctx->ref_count).                *)
(***************************************************************************)
Others(n) ==
  {m \in Sess \ {n} : sess[m].st = "listed" /\ sess[m].ctx = sess[n].ctx}

CountsRefs(n) ==
  /\ sess[n].ctx # None
  /\ ctxs[sess[n].ctx].st = "listed"
  /\ ctxs[sess[n].ctx].ref_count = 1 + Cardinality(Others(n))

DestroyContext(t) ==
  LET n == s[t]
  IN  /\ At(t, "destroyCtx")
      /\ CountsRefs(n)
      /\ sess' = [m \in Sess |-> IF m \in Others(n)
                                   THEN [sess[m] EXCEPT !.ctx = None]
                                   ELSE sess[m]]
      /\ ctxs' = [ctxs EXCEPT ![sess[n].ctx].st = "unlisted"]
      /\ Goto(t, "freeCtx")
      /\ UNCHANGED <<ta, sil, known, op, s, c, entered, res, halted>>

(***************************************************************************)
(* destroy_context(); condvar_destroy() panics if a thread waits for the   *)
(* context.                                                                *)
(***************************************************************************)
FreeContext(t) ==
  /\ At(t, "freeCtx")
  /\ BusyWaiters(c[t]) = {}
  /\ ctxs' = [ctxs EXCEPT ![c[t]].st = "freed"]
  /\ sess' = IF op[t] = "invoke" THEN [sess EXCEPT ![s[t]].ctx = None] ELSE sess
  /\ Goto(t, IF op[t] = "invoke" THEN "put" ELSE Closed(t))
  /\ UNCHANGED <<ta, sil, known, op, s, c, entered, res, halted>>

-----------------------------------------------------------------------------
(***************************************************************************)
(* Where the core panics, fails an assertion or reads freed memory.        *)
(***************************************************************************)
UsesFreedContext(t) ==
  pc[t] \in {"setBusy", "inTA", "clearBusy", "returned", "drop"} /\ InFreed(t)

Faulty(t) ==
  \/ UsesFreedContext(t)
  \/ pc[t] = "get" /\ sess[s[t]].st = "freed"
  \/ pc[t] = "destroyCtx" /\ ~CountsRefs(s[t])
  \/ pc[t] = "freeCtx" /\ BusyWaiters(c[t]) # {}
  \/ pc[t] = "drop" /\ ctxs[c[t]].ref_count = 0

Fault(t) ==
  /\ ~halted
  /\ Faulty(t)
  /\ halted' = TRUE
  /\ UNCHANGED <<ta, sess, ctxs, sil, known, pc, op, s, c, entered, res>>

Call(t) == OpenSession(t) \/ InvokeCommand(t) \/ CloseSession(t)

Step(t) ==
  \/ FindAgain(t) \/ Load(t) \/ Loaded(t) \/ InitFails(t)
  \/ CloseGets(t) \/ LockTurn(t) \/ PutSession(t) \/ Tell(t)
  \/ OpenedDead(t) \/ Check(t) \/ SetBusy(t) \/ RunTa(t) \/ ClearBusy(t)
  \/ Returned(t) \/ Unlink(t) \/ UnlinkAgain(t) \/ DropContext(t)
  \/ DestroyContext(t) \/ FreeContext(t) \/ Fault(t)

Next == \E t \in Threads : Call(t) \/ Step(t)

Spec == Init /\ [][Next]_vars

-----------------------------------------------------------------------------
(***************************************************************************)
(* Properties                                                              *)
(***************************************************************************)
TypeOK ==
  /\ ta \in TaFlags
  /\ sess \in [Sess -> [st : {"none", "listed", "freed"}, ref_count : Nat,
                        lock_thread : Threads \cup {None},
                        unlink : BOOLEAN, ctx : Ctxs \cup {None}]]
  /\ ctxs \in [Ctxs -> [st : {"none", "listed", "unlisted", "freed"},
                        ref_count : Nat, busy : BOOLEAN, panicked : BOOLEAN,
                        is_initializing : BOOLEAN]]
  /\ sil \in Threads \cup {None}
  /\ known \subseteq Sess
  /\ pc \in [Threads -> {"idle", "find", "load", "loading", "initFail",
                         "opened", "get", "lock", "check", "setBusy", "inTA",
                         "clearBusy", "returned", "put", "tell", "unlink",
                         "unlinkTurn", "drop", "destroyCtx", "freeCtx",
                         "initWait", "silWait", "busyWait", "lockWait",
                         "refcWait"}]
  /\ op \in [Threads -> {"open", "invoke", "close", "abort"}]
  /\ s \in [Threads -> Sess \cup {None}]
  /\ c \in [Threads -> Ctxs \cup {None}]
  /\ entered \in [Threads -> BOOLEAN]
  /\ res \in [Threads -> BOOLEAN]
  /\ halted \in BOOLEAN

(***************************************************************************)
(* A context runs one call at a time, from tee_ta_try_set_busy() to        *)
(* tee_ta_clear_busy(), and with the single-instance lock so do all the    *)
(* single-instance TAs together.                                           *)
(***************************************************************************)
Inside(t) ==
  /\ entered[t]
  /\ pc[t] \in {"inTA", "unlink", "unlinkTurn", "refcWait", "clearBusy"}

OneCallInTa ==
  \A t, u \in Threads :
    t # u /\ Inside(t) /\ Inside(u) => c[t] # c[u] /\ ~InstanceLock

(***************************************************************************)
(* A session serves one invoke or close at a time: between tee_ta_get_     *)
(* session() and tee_ta_put_session() or the end of the session.           *)
(***************************************************************************)
Serving(t) ==
  /\ op[t] = "invoke" \/ (Closing(t) /\ pc[t] # "put")
  /\ pc[t] \in {"check", "setBusy", "silWait", "busyWait", "inTA", "returned",
                "put", "unlink", "unlinkTurn", "refcWait", "destroyCtx"}

SessionExclusive ==
  \A t, u \in Threads :
    t # u /\ Serving(t) /\ Serving(u) => s[t] # s[u]

(***************************************************************************)
(* The reference count of a context counts its sessions, and those that a  *)
(* close has destroyed and not yet dropped: it goes after the last of      *)
(* them, and if the TA does not panic it goes then.                        *)
(***************************************************************************)
Dropping(t) ==
  Closing(t) /\ sess[s[t]].st = "freed" /\ pc[t] \in {"clearBusy", "drop"}

RefsTo(x) ==
  Cardinality({n \in Sess : sess[n].st = "listed" /\ sess[n].ctx = x})
    + Cardinality({t \in Threads : Dropping(t) /\ c[t] = x})

ContextRefs ==
  \A x \in Ctxs :
    ctxs[x].st = "listed" =>
      /\ ctxs[x].ref_count >= RefsTo(x)
      /\ ~ta.CanPanic => ctxs[x].ref_count = RefsTo(x)

(***************************************************************************)
(* No thread sleeps for something that has happened: whoever waits for the *)
(* TA, for the single-instance lock, for a session or for a context to be  *)
(* loaded waits for a thread that has it, or another thread has been woken *)
(* up and will pass the signal on.                                         *)
(***************************************************************************)
NoLostSignal ==
  /\ \A t \in Asleep("busyWait") :
       ctxs[c[t]].busy \/ \E u \in Asleep("setBusy") : c[u] = c[t]
  /\ Asleep("silWait") # {} => sil # None \/ Asleep("setBusy") # {}
  /\ \A t \in Asleep("lockWait") :
       /\ ~sess[s[t]].unlink
       /\ \/ sess[s[t]].lock_thread # None
          \/ \E u \in Asleep("lock") : s[u] = s[t]
  /\ Asleep("initWait") # {} => \E x \in Ctxs : ctxs[x].is_initializing

(***************************************************************************)
(* tee_ta_unlink_session() waits for references that other threads hold    *)
(* and will put, never for its own.                                        *)
(***************************************************************************)
HasRef(u, n) ==
  s[u] = n /\ pc[u] \notin {"idle", "get", "drop", "freeCtx", "initFail", "tell"}

UnlinkWaitsForOthers ==
  \A t \in Asleep("refcWait") : \E u \in Threads \ {t} : HasRef(u, s[t])

(***************************************************************************)
(* No thread waits for, enters or leaves a context that has been freed.    *)
(***************************************************************************)
ContextOutlivesCalls == \A t \in Threads : ~UsesFreedContext(t)

(***************************************************************************)
(* A session that an open has told the client of exists until the client   *)
(* closes it.                                                              *)
(***************************************************************************)
ToldSessionsExist == \A n \in known : sess[n].st = "listed"

(***************************************************************************)
(* The three above of a TA that does not panic.  tee_ta_unlink_session()   *)
(* waits only for threads that will put the session.                       *)
(***************************************************************************)
UnlinkWaitsUnlessPanic == ~ta.CanPanic => UnlinkWaitsForOthers

(***************************************************************************)
(* No close drops a context that another call is in or waits for.          *)
(***************************************************************************)
ContextOutlivesUnlessPanic == ~ta.CanPanic => ContextOutlivesCalls

(***************************************************************************)
(* No open returns TEE_SUCCESS with a session that is gone.                *)
(***************************************************************************)
SessionsExistUnlessPanic == ~ta.CanPanic => ToldSessionsExist

(***************************************************************************)
(* struct tee_ta_ctx: panicked is true if the TA has panicked.             *)
(***************************************************************************)
PanicRemembered ==
  [][\A x \in Ctxs : ctxs[x].panicked => ctxs'[x].panicked]_vars

(***************************************************************************)
(* A single-instance TA has one instance (user_ta.c: another thread may    *)
(* need to wait until the context is initialised, this is needed to handle *)
(* single instance TAs).                                                   *)
(***************************************************************************)
OneInstance ==
  ta.SingleInstance => Cardinality({x \in Ctxs : ctxs[x].st = "listed"}) <= 1

(***************************************************************************)
(* A TA that is not multi-session has one session per instance.            *)
(***************************************************************************)
OneSession ==
  ta.SingleInstance /\ ~ta.MultiSession =>
    \A x \in Ctxs : ctxs[x].st = "listed" => ctxs[x].ref_count <= 1

(***************************************************************************)
(* assert(count == ctx->ref_count) in destroy_ta_ctx_from_session()        *)
(***************************************************************************)
RefsAreCounted == \A t \in Threads : At(t, "destroyCtx") => CountsRefs(s[t])
=============================================================================
