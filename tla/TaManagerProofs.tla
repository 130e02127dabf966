--------------------------- MODULE TaManagerProofs --------------------------
(***************************************************************************)
(* Proofs about the sessions and contexts of a TA, whether it panics or    *)
(* not.                                                                    *)
(***************************************************************************)
EXTENDS TaManager, FiniteSetTheorems, TLAPS

(***************************************************************************)
(* Where a thread is: in tee_ta_init_session() with its session; before it *)
(* has a context for it; in tee_ta_get_session(); on its way into the TA;  *)
(* in tee_ta_unlink_session().  A thread that is woken up stays in its     *)
(* part.                                                                   *)
(***************************************************************************)
Seeking == {"find", "initWait", "load"}
Opening == Seeking \cup {"loading", "initFail", "opened"}
Locking == {"lock", "lockWait"}
Entering == {"setBusy", "silWait", "busyWait", "inTA"}
Unlinking == {"unlink", "unlinkTurn", "refcWait"}

Places ==
  {"idle", "find", "load", "loading", "initFail",
   "opened", "get", "lock", "check", "setBusy", "inTA",
   "clearBusy", "returned", "put", "tell", "unlink",
   "unlinkTurn", "drop", "destroyCtx", "freeCtx",
   "initWait", "silWait", "busyWait", "lockWait",
   "refcWait"}

Session ==
  [st : {"none", "listed", "freed"}, ref_count : Int,
   lock_thread : Threads \cup {None}, unlink : BOOLEAN,
   ctx : Ctxs \cup {None}]

Context ==
  [st : {"none", "listed", "unlisted", "freed"}, ref_count : Nat,
   busy : BOOLEAN, panicked : BOOLEAN, is_initializing : BOOLEAN]

Calls == {"open", "invoke", "close", "abort"}

(***************************************************************************)
(* The types, the references of a session without their sign.              *)
(***************************************************************************)
Shape ==
  /\ ta \in TaFlags
  /\ sess \in [Sess -> Session]
  /\ ctxs \in [Ctxs -> Context]
  /\ sil \in Threads \cup {None}
  /\ known \subseteq Sess
  /\ pc \in [Threads -> Places]
  /\ op \in [Threads -> Calls]
  /\ s \in [Threads -> Sess \cup {None}]
  /\ c \in [Threads -> Ctxs \cup {None}]
  /\ entered \in [Threads -> BOOLEAN]
  /\ res \in [Threads -> BOOLEAN]
  /\ halted \in BOOLEAN

(***************************************************************************)
(* Which call a thread is in tells where it can be.                        *)
(***************************************************************************)
Ops ==
  \A t \in Threads :
    /\ pc[t] \in Opening => op[t] = "open"
    /\ pc[t] \in Unlinking \cup {"get", "drop"} => Closing(t)
    /\ pc[t] \in Locking \cup {"check"} => op[t] # "open"
    /\ pc[t] = "returned" => ~Closing(t)
    /\ pc[t] = "destroyCtx" => op[t] = "invoke"
    /\ pc[t] = "freeCtx" => op[t] # "open"
    /\ pc[t] = "put" => op[t] # "close"
    /\ pc[t] = "tell" => op[t] = "abort"

(***************************************************************************)
(* A thread in a call has a session, and on its way into and out of the TA *)
(* a context.  Nothing refers to what has never been allocated.            *)
(***************************************************************************)
HasContext(t) ==
  \/ pc[t] \in Entering \cup {"loading", "clearBusy", "returned", "drop",
                              "destroyCtx", "freeCtx"}
  \/ entered[t] /\ pc[t] \in Unlinking

Located ==
  /\ \A t \in Threads :
       /\ pc[t] # "idle" => s[t] \in Sess /\ sess[s[t]].st # "none"
       /\ HasContext(t) => c[t] \in Ctxs
       /\ c[t] \in Ctxs => ctxs[c[t]].st # "none"
       /\ pc[t] \in {"inTA", "clearBusy"} => entered[t]
  /\ \A n \in known : sess[n].st # "none"

Linked ==
  \A n \in Sess : sess[n].ctx \in Ctxs => ctxs[sess[n].ctx].st # "none"

Fresh ==
  \A n \in Sess :
    sess[n].st = "none" =>
      sess[n].ctx = None /\ sess[n].lock_thread = None /\ ~sess[n].unlink

(***************************************************************************)
(* Between tee_ta_get_session() and tee_ta_put_session(), or the end of    *)
(* the session, a thread is the session's lock_thread.                     *)
(***************************************************************************)
HoldsLock(t) ==
  /\ op[t] # "open"
  /\ pc[t] \notin Locking \cup {"idle", "get", "drop", "tell"}
  /\ pc[t] \in {"clearBusy", "freeCtx", "put"} => op[t] = "invoke"

Locked == \A t \in Threads : HoldsLock(t) => sess[s[t]].lock_thread = t

(***************************************************************************)
(* A thread in the TA has set it busy and has the single-instance lock.    *)
(***************************************************************************)
Busy ==
  \A t \in Threads :
    Inside(t) => ctxs[c[t]].busy /\ (InstanceLock => sil = t)

(***************************************************************************)
(* Who waits for what, and the parts of NoLostSignal.                      *)
(***************************************************************************)
BusyHeard ==
  \A t \in Asleep("busyWait") :
    ctxs[c[t]].busy \/ \E u \in Asleep("setBusy") : c[u] = c[t]

SilHeard == Asleep("silWait") # {} => sil # None \/ Asleep("setBusy") # {}

LockHeard ==
  \A t \in Asleep("lockWait") :
    /\ ~sess[s[t]].unlink
    /\ \/ sess[s[t]].lock_thread # None
       \/ \E u \in Asleep("lock") : s[u] = s[t]

InitHeard == Asleep("initWait") # {} => \E x \in Ctxs : ctxs[x].is_initializing

Sleepers ==
  \A t \in Threads :
    /\ pc[t] \in {"refcWait", "unlinkTurn"} => sess[s[t]].unlink
    /\ pc[t] = "silWait" => InstanceLock
    /\ pc[t] = "busyWait" => ~InstanceLock

(***************************************************************************)
(* The references of a session are its threads', from the open to the put, *)
(* from the get to the put, or until the session is freed.                 *)
(***************************************************************************)
HoldsRef(t) ==
  /\ pc[t] \notin {"idle", "get", "tell", "drop"}
  /\ pc[t] \in {"clearBusy", "freeCtx"} => ~Closing(t)

Refs(n) == {t \in Threads : HoldsRef(t) /\ s[t] = n}

Referred ==
  \A t \in Threads :
    HoldsRef(t) => sess[s[t]].st = "listed" \/ sess[s[t]].ctx = None

SessionRefs == \A n \in Sess : sess[n].ref_count >= Cardinality(Refs(n))

(***************************************************************************)
(* A session being opened is nobody else's to open or to free, and has no  *)
(* context but the one that its thread finds or loads.                     *)
(***************************************************************************)
Opens(t) == op[t] = "open" /\ pc[t] # "idle"

Openers ==
  /\ \A t \in Threads : Opens(t) =>
       /\ sess[s[t]].st = "listed"
       /\ pc[t] \in Seeking \cup {"initFail"} => sess[s[t]].ctx = None
       /\ pc[t] = "loading" => sess[s[t]].ctx \in {c[t], None}
  /\ \A t, u \in Threads : t # u /\ Opens(t) /\ Opens(u) => s[t] # s[u]

(***************************************************************************)
(* The context that a thread has from its session stays the session's, or  *)
(* is destroyed; for a close, until it is unlisted.                        *)
(***************************************************************************)
Using(t) ==
  /\ HoldsRef(t) /\ c[t] # None
  /\ pc[t] \in Entering \cup Unlinking \cup
               {"clearBusy", "returned", "destroyCtx", "freeCtx"}

Users ==
  \A t \in Threads : Using(t) =>
    /\ sess[s[t]].ctx \in {c[t], None}
    /\ \A u \in Threads : pc[u] \in Seeking => s[u] # s[t]
    /\ Closing(t) /\ ctxs[c[t]].st = "listed" =>
         sess[s[t]].st = "listed" /\ sess[s[t]].ctx = c[t]

(***************************************************************************)
(* A close leaves the TA after it has destroyed the session.               *)
(***************************************************************************)
Leaving(t) == Closing(t) /\ pc[t] \in {"clearBusy", "drop"}

Freed == \A t \in Threads : Leaving(t) => sess[s[t]].st = "freed"

SessOf(x) == {n \in Sess : sess[n].st = "listed" /\ sess[n].ctx = x}

DropsOf(x) == {t \in Threads : Leaving(t) /\ c[t] = x}

Counted ==
  \A x \in Ctxs :
    ctxs[x].st = "listed" =>
      ctxs[x].ref_count >= Cardinality(SessOf(x)) + Cardinality(DropsOf(x))

Inv ==
  /\ Shape /\ Ops /\ Located /\ Linked /\ Fresh
  /\ Locked /\ Busy /\ OneCallInTa
  /\ Sleepers /\ BusyHeard /\ SilHeard /\ LockHeard /\ InitHeard
  /\ Referred /\ SessionRefs /\ Openers /\ Users
  /\ Freed /\ Counted /\ OneSession

-----------------------------------------------------------------------------
(***************************************************************************)
(* What each step does, field by field.  A step is of one thread: Me says  *)
(* what becomes of it, Still and Waken what becomes of the others, SessIs  *)
(* and CtxIs what becomes of the session and the context it changes.       *)
(***************************************************************************)
Me(t, l, o, n, x, e, r) ==
  /\ pc'[t] = l /\ op'[t] = o /\ s'[t] = n /\ c'[t] = x
  /\ entered'[t] = e /\ res'[t] = r
  /\ ta' = ta
  /\ \A u \in Threads \ {t} :
       /\ op'[u] = op[u] /\ s'[u] = s[u] /\ c'[u] = c[u]
       /\ entered'[u] = entered[u] /\ res'[u] = res[u]

Moves(t, l) == Me(t, l, op[t], s[t], c[t], entered[t], res[t])

Still(t) == \A u \in Threads \ {t} : pc'[u] = pc[u]

SessIs(n, a, k, l, d, x) ==
  /\ sess'[n].st = a /\ sess'[n].ref_count = k /\ sess'[n].lock_thread = l
  /\ sess'[n].unlink = d /\ sess'[n].ctx = x
  /\ \A m \in Sess \ {n} : sess'[m] = sess[m]

CtxIs(x, a, k, b, p, i) ==
  /\ ctxs'[x].st = a /\ ctxs'[x].ref_count = k /\ ctxs'[x].busy = b
  /\ ctxs'[x].panicked = p /\ ctxs'[x].is_initializing = i
  /\ \A y \in Ctxs \ {x} : ctxs'[y] = ctxs[y]

(***************************************************************************)
(* tee_ta_init_session(): the outcomes.                                    *)
(***************************************************************************)
SeekTo(l) ==
  \/ l \in {"load", "initFail"}
  \/ l = "initWait" /\ \E x \in Ctxs : ctxs[x].is_initializing

Shares(x) ==
  /\ ctxs[x].st = "listed" /\ ~ctxs[x].is_initializing
  /\ ta.SingleInstance /\ (ta.MultiSession \/ ctxs[x].ref_count = 0)
  /\ CtxIs(x, "listed", ctxs[x].ref_count + 1, ctxs[x].busy, ctxs[x].panicked,
           FALSE)

StartsOpen(t, n, l) ==
  /\ pc[t] = "idle" /\ sess[n].st = "none" /\ SeekTo(l)
  /\ SessIs(n, "listed", 1, None, FALSE, None)
  /\ Me(t, l, "open", n, c[t], entered[t], FALSE) /\ Still(t)
  /\ UNCHANGED <<ctxs, sil, known>>

StartsShared(t, n, x) ==
  /\ pc[t] = "idle" /\ sess[n].st = "none" /\ Shares(x)
  /\ SessIs(n, "listed", 1, None, FALSE, x)
  /\ Me(t, "opened", "open", n, c[t], entered[t], FALSE) /\ Still(t)
  /\ UNCHANGED <<sil, known>>

Seeks(t, l) ==
  /\ pc[t] = "find" /\ SeekTo(l)
  /\ Moves(t, l) /\ Still(t)
  /\ UNCHANGED <<sess, ctxs, sil, known>>

Joins(t, n, x) ==
  /\ pc[t] = "find" /\ n = s[t] /\ Shares(x)
  /\ SessIs(n, sess[n].st, sess[n].ref_count, sess[n].lock_thread,
            sess[n].unlink, x)
  /\ Moves(t, "opened") /\ Still(t)
  /\ UNCHANGED <<sil, known>>

Loads(t, n, x) ==
  /\ pc[t] = "load" /\ n = s[t] /\ ctxs[x].st = "none"
  /\ SessIs(n, sess[n].st, sess[n].ref_count, sess[n].lock_thread,
            sess[n].unlink, x)
  /\ CtxIs(x, "listed", 1, ctxs[x].busy, ctxs[x].panicked, TRUE)
  /\ Me(t, "loading", op[t], n, x, entered[t], res[t]) /\ Still(t)
  /\ UNCHANGED <<sil, known>>

LoadRefused(t) ==
  /\ pc[t] = "load"
  /\ Moves(t, "initFail") /\ Still(t)
  /\ UNCHANGED <<sess, ctxs, sil, known>>

LoadersTold(t) ==
  \A u \in Threads \ {t} :
    pc'[u] = IF pc[u] = "initWait" THEN "find" ELSE pc[u]

LoadDone(t, x) ==
  /\ pc[t] = "loading" /\ x = c[t]
  /\ CtxIs(x, ctxs[x].st, ctxs[x].ref_count, ctxs[x].busy, ctxs[x].panicked,
           FALSE)
  /\ Moves(t, "opened") /\ LoadersTold(t)
  /\ UNCHANGED <<sess, sil, known>>

LoadFailed(t, n, x) ==
  /\ pc[t] = "loading" /\ n = s[t] /\ x = c[t]
  /\ CtxIs(x, "freed", ctxs[x].ref_count, ctxs[x].busy, ctxs[x].panicked,
           ctxs[x].is_initializing)
  /\ SessIs(n, sess[n].st, sess[n].ref_count, sess[n].lock_thread,
            sess[n].unlink, None)
  /\ Moves(t, "initFail") /\ LoadersTold(t)
  /\ UNCHANGED <<sil, known>>

InitFailed(t, n) ==
  /\ pc[t] = "initFail" /\ n = s[t]
  /\ SessIs(n, "freed", sess[n].ref_count, sess[n].lock_thread,
            sess[n].unlink, sess[n].ctx)
  /\ Moves(t, "idle") /\ Still(t)
  /\ UNCHANGED <<ctxs, sil, known>>

(***************************************************************************)
(* tee_ta_get_session(), tee_ta_put_session() and the calls of the client. *)
(***************************************************************************)
GetsFor(t, o, n) ==
  \/ pc[t] = "idle" /\ o = "invoke" /\ n \in known
  \/ pc[t] = "get" /\ o = op[t] /\ n = s[t]

EndsAt(t, l) ==
  \/ l = "idle"
  \/ l = "tell" /\ pc[t] # "idle" /\ op[t] = "abort" /\ res[t]

GetRefused(t, o, n, l) ==
  /\ GetsFor(t, o, n) /\ EndsAt(t, l)
  /\ Me(t, l, o, n, c[t], entered[t], res[t]) /\ Still(t)
  /\ UNCHANGED <<sess, ctxs, sil, known>>

GetLocks(t, o, n) ==
  /\ GetsFor(t, o, n)
  /\ sess[n].st = "listed" /\ ~sess[n].unlink /\ sess[n].lock_thread = None
  /\ SessIs(n, "listed", sess[n].ref_count + 1, t, FALSE, sess[n].ctx)
  /\ Me(t, "check", o, n, c[t], entered[t], res[t]) /\ Still(t)
  /\ UNCHANGED <<ctxs, sil, known>>

GetWaits(t, o, n) ==
  /\ GetsFor(t, o, n)
  /\ sess[n].st = "listed" /\ ~sess[n].unlink /\ sess[n].lock_thread # None
  /\ SessIs(n, "listed", sess[n].ref_count + 1, sess[n].lock_thread, FALSE,
            sess[n].ctx)
  /\ Me(t, "lockWait", o, n, c[t], entered[t], res[t]) /\ Still(t)
  /\ UNCHANGED <<ctxs, sil, known>>

Closes(t, n) ==
  /\ pc[t] = "idle" /\ n \in known /\ known' = known \ {n}
  /\ Me(t, "get", "close", n, c[t], entered[t], res[t]) /\ Still(t)
  /\ UNCHANGED <<sess, ctxs, sil>>

(***************************************************************************)
(* dec_session_ref_count() wakes up the thread that unlinks the session.   *)
(***************************************************************************)
UnlinkerTold(n) ==
  sess[n].ref_count = 2 /\ RefcWaiters(n) # {} =>
    \E u \in RefcWaiters(n) : pc'[u] = "unlinkTurn"

GivesUp(t, n, l) ==
  /\ pc[t] = "lock" /\ n = s[t] /\ sess[n].unlink /\ EndsAt(t, l)
  /\ SessIs(n, sess[n].st, sess[n].ref_count - 1, sess[n].lock_thread, TRUE,
            sess[n].ctx)
  /\ Moves(t, l)
  /\ \A u \in Threads \ {t} :
       \/ pc'[u] = pc[u]
       \/ u \in RefcWaiters(n) /\ pc'[u] = "unlinkTurn"
  /\ UnlinkerTold(n)
  /\ UNCHANGED <<ctxs, sil, known>>

TakesLock(t, n) ==
  /\ pc[t] = "lock" /\ n = s[t]
  /\ ~sess[n].unlink /\ sess[n].lock_thread = None
  /\ SessIs(n, sess[n].st, sess[n].ref_count, t, FALSE, sess[n].ctx)
  /\ Moves(t, "check") /\ Still(t)
  /\ UNCHANGED <<ctxs, sil, known>>

WaitsAgain(t, n) ==
  /\ pc[t] = "lock" /\ n = s[t]
  /\ ~sess[n].unlink /\ sess[n].lock_thread # None
  /\ Moves(t, "lockWait") /\ Still(t)
  /\ UNCHANGED <<sess, ctxs, sil, known>>

Puts(t, n, l) ==
  /\ pc[t] = "put" /\ n = s[t]
  /\ l = IF op[t] = "abort" THEN "get" ELSE "idle"
  /\ SessIs(n, sess[n].st, sess[n].ref_count - 1,
            IF sess[n].lock_thread = t THEN None ELSE sess[n].lock_thread,
            sess[n].unlink, sess[n].ctx)
  /\ Moves(t, l)
  /\ \A u \in Threads \ {t} :
       \/ pc'[u] = pc[u]
       \/ u \in LockWaiters(n) /\ pc'[u] = "lock"
       \/ u \in RefcWaiters(n) /\ pc'[u] = "unlinkTurn"
  /\ sess[n].lock_thread = t /\ LockWaiters(n) # {} =>
       \E u \in LockWaiters(n) : pc'[u] = "lock"
  /\ UnlinkerTold(n)
  /\ known' = IF op[t] = "open" THEN known \cup {n} ELSE known
  /\ UNCHANGED <<ctxs, sil>>

Tells(t) ==
  /\ pc[t] = "tell"
  /\ \A m \in known' : m \in known \/ sess[m].st # "none"
  /\ Moves(t, "idle") /\ Still(t)
  /\ UNCHANGED <<sess, ctxs, sil>>

(***************************************************************************)
(* Into the TA and out of it.                                              *)
(***************************************************************************)
FindsDead(t, n) ==
  /\ pc[t] = "opened" /\ n = s[t] /\ Dead(n)
  /\ Me(t, "get", "abort", n, c[t], entered[t], res[t]) /\ Still(t)
  /\ UNCHANGED <<sess, ctxs, sil, known>>

Checks(t, n, x, l) ==
  /\ n = s[t] /\ x = sess[n].ctx
  /\ \/ pc[t] = "opened" /\ ~Dead(n)
     \/ pc[t] = "check"
  /\ \/ ~Dead(n) /\ l = "setBusy"
     \/ Dead(n) /\ Closing(t) /\ l = "unlink"
     \/ ~Closing(t) /\ x = None /\ l = "put"
     \/ ~Closing(t) /\ Dead(n) /\ x # None /\ l = "destroyCtx"
  /\ Me(t, l, op[t], n, x, FALSE, res[t]) /\ Still(t)
  /\ UNCHANGED <<sess, ctxs, sil, known>>

WaitsBusy(t, l) ==
  /\ pc[t] = "setBusy"
  /\ \/ InstanceLock /\ sil # None /\ l = "silWait"
     \/ ~InstanceLock /\ ctxs[c[t]].busy /\ l = "busyWait"
  /\ Moves(t, l) /\ Still(t)
  /\ UNCHANGED <<sess, ctxs, sil, known>>

Enters(t, x) ==
  /\ pc[t] = "setBusy" /\ x = c[t]
  /\ IF InstanceLock THEN sil = None /\ sil' = t
                     ELSE ~ctxs[x].busy /\ sil' = sil
  /\ CtxIs(x, ctxs[x].st, ctxs[x].ref_count, TRUE, ctxs[x].panicked,
           ctxs[x].is_initializing)
  /\ Me(t, "inTA", op[t], s[t], x, TRUE, res[t]) /\ Still(t)
  /\ UNCHANGED <<sess, known>>

Runs(t, x, p, r) ==
  /\ pc[t] = "inTA" /\ x = c[t]
  /\ op[t] # "open" => r = res[t]
  /\ p \in {ctxs[x].panicked, FALSE} \/ ta.CanPanic
  /\ CtxIs(x, ctxs[x].st, ctxs[x].ref_count, ctxs[x].busy, p,
           ctxs[x].is_initializing)
  /\ Me(t, IF Closing(t) THEN "unlink" ELSE "clearBusy", op[t], s[t], x,
        entered[t], r)
  /\ Still(t)
  /\ UNCHANGED <<sess, sil, known>>

Leaves(t, x) ==
  /\ pc[t] = "clearBusy" /\ x = c[t]
  /\ sil' = IF InstanceLock THEN None ELSE sil
  /\ CtxIs(x, ctxs[x].st, ctxs[x].ref_count, FALSE, ctxs[x].panicked,
           ctxs[x].is_initializing)
  /\ Moves(t, IF Closing(t) THEN "drop" ELSE "returned")
  /\ \A u \in Threads \ {t} :
       \/ pc'[u] = pc[u]
       \/ u \in BusyWaiters(x) \cup Asleep("silWait") /\ pc'[u] = "setBusy"
  /\ BusyWaiters(x) # {} => \E u \in BusyWaiters(x) : pc'[u] = "setBusy"
  /\ InstanceLock /\ Asleep("silWait") # {} =>
       \E u \in Asleep("silWait") : pc'[u] = "setBusy"
  /\ UNCHANGED <<sess, known>>

Returns(t, o, l) ==
  /\ pc[t] = "returned"
  /\ o = IF op[t] = "open" /\ (ctxs[c[t]].panicked \/ ~res[t])
           THEN "abort" ELSE op[t]
  /\ l = IF op[t] = "invoke" /\ ctxs[c[t]].panicked THEN "destroyCtx" ELSE "put"
  /\ Me(t, l, o, s[t], c[t], entered[t], res[t]) /\ Still(t)
  /\ UNCHANGED <<sess, ctxs, sil, known>>

(***************************************************************************)
(* The end of a session, and of a context.                                 *)
(***************************************************************************)
LockersTold(t, n) ==
  \A u \in Threads \ {t} :
    pc'[u] = IF pc[t] = "unlink" /\ u \in LockWaiters(n) THEN "lock"
                                                       ELSE pc[u]

UnlinkWaits(t, n) ==
  /\ pc[t] \in {"unlink", "unlinkTurn"} /\ n = s[t] /\ sess[n].ref_count # 1
  /\ SessIs(n, sess[n].st, sess[n].ref_count, sess[n].lock_thread, TRUE,
            sess[n].ctx)
  /\ Moves(t, "refcWait") /\ LockersTold(t, n)
  /\ UNCHANGED <<ctxs, sil, known>>

Unlinks(t, n, l) ==
  /\ pc[t] \in {"unlink", "unlinkTurn"} /\ n = s[t] /\ sess[n].ref_count = 1
  /\ SessIs(n, "freed", sess[n].ref_count, sess[n].lock_thread, TRUE,
            sess[n].ctx)
  /\ \/ entered[t] /\ l = "clearBusy"
     \/ ~entered[t] /\ c[t] # None /\ l = "drop"
     \/ ~entered[t] /\ c[t] = None /\ EndsAt(t, l)
  /\ Moves(t, l) /\ LockersTold(t, n)
  /\ UNCHANGED <<ctxs, sil, known>>

Drops(t, x, a, l) ==
  /\ pc[t] = "drop" /\ x = c[t] /\ ctxs[x].ref_count > 0
  /\ \/ ctxs[x].ref_count = 1 /\ a = "unlisted" /\ l = "freeCtx"
     \/ a = ctxs[x].st /\ EndsAt(t, l)
  /\ CtxIs(x, a, ctxs[x].ref_count - 1, ctxs[x].busy, ctxs[x].panicked,
           ctxs[x].is_initializing)
  /\ Moves(t, l) /\ Still(t)
  /\ UNCHANGED <<sess, sil, known>>

Destroys(t, n, x) ==
  /\ pc[t] = "destroyCtx" /\ n = s[t] /\ x = sess[n].ctx
  /\ \A m \in Sess :
       /\ sess'[m].st = sess[m].st /\ sess'[m].ref_count = sess[m].ref_count
       /\ sess'[m].lock_thread = sess[m].lock_thread
       /\ sess'[m].unlink = sess[m].unlink
       /\ sess'[m].ctx \in {sess[m].ctx, None}
       /\ sess[m].ctx # x => sess'[m].ctx = sess[m].ctx
  /\ CtxIs(x, "unlisted", ctxs[x].ref_count, ctxs[x].busy, ctxs[x].panicked,
           ctxs[x].is_initializing)
  /\ Moves(t, "freeCtx") /\ Still(t)
  /\ UNCHANGED <<sil, known>>

FreesOf(t, x) ==
  /\ pc[t] = "freeCtx" /\ x = c[t]
  /\ CtxIs(x, "freed", ctxs[x].ref_count, ctxs[x].busy, ctxs[x].panicked,
           ctxs[x].is_initializing)
  /\ Still(t)
  /\ UNCHANGED <<sil, known>>

FreesInvoke(t, n, x) ==
  /\ FreesOf(t, x) /\ op[t] = "invoke" /\ n = s[t]
  /\ SessIs(n, sess[n].st, sess[n].ref_count, sess[n].lock_thread,
            sess[n].unlink, None)
  /\ Moves(t, "put")

FreesClose(t, x, l) ==
  /\ FreesOf(t, x) /\ op[t] # "invoke" /\ EndsAt(t, l)
  /\ sess' = sess
  /\ Moves(t, l)

(***************************************************************************)
(* The steps of a thread: in tee_ta_init_session(); to get, wait for and   *)
(* put a session; into the TA and out of it; to end a session or context.  *)
(***************************************************************************)
DoesOpen(t) ==
  \/ \E n \in Sess, l \in Places : StartsOpen(t, n, l)
  \/ \E n \in Sess, x \in Ctxs : StartsShared(t, n, x)
  \/ \E l \in Places : Seeks(t, l)
  \/ \E n \in Sess, x \in Ctxs : Joins(t, n, x) \/ Loads(t, n, x)
  \/ LoadRefused(t)
  \/ \E x \in Ctxs : LoadDone(t, x)
  \/ \E n \in Sess, x \in Ctxs : LoadFailed(t, n, x)
  \/ \E n \in Sess : InitFailed(t, n)

DoesGet(t) ==
  \/ \E o \in Calls, n \in Sess, l \in Places : GetRefused(t, o, n, l)
  \/ \E o \in Calls, n \in Sess : GetLocks(t, o, n) \/ GetWaits(t, o, n)
  \/ \E n \in Sess : Closes(t, n) \/ TakesLock(t, n) \/ WaitsAgain(t, n)
  \/ \E n \in Sess, l \in Places : GivesUp(t, n, l) \/ Puts(t, n, l)
  \/ Tells(t)

DoesRun(t) ==
  \/ \E n \in Sess : FindsDead(t, n)
  \/ \E n \in Sess, x \in Ctxs \cup {None}, l \in Places : Checks(t, n, x, l)
  \/ \E l \in Places : WaitsBusy(t, l)
  \/ \E x \in Ctxs : Enters(t, x) \/ Leaves(t, x)
  \/ \E x \in Ctxs, p \in BOOLEAN, r \in BOOLEAN : Runs(t, x, p, r)
  \/ \E o \in Calls, l \in Places : Returns(t, o, l)

DoesEnd(t) ==
  \/ \E n \in Sess : UnlinkWaits(t, n)
  \/ \E n \in Sess, l \in Places : Unlinks(t, n, l)
  \/ \E x \in Ctxs, l \in Places, a \in {"none", "listed", "unlisted", "freed"} :
       Drops(t, x, a, l)
  \/ \E n \in Sess, x \in Ctxs : Destroys(t, n, x) \/ FreesInvoke(t, n, x)
  \/ \E x \in Ctxs, l \in Places : FreesClose(t, x, l)

Does(t) == DoesOpen(t) \/ DoesGet(t) \/ DoesRun(t) \/ DoesEnd(t)

Halts ==
  /\ halted' \in BOOLEAN
  /\ UNCHANGED <<ta, sess, ctxs, sil, known, pc, op, s, c, entered, res>>

-----------------------------------------------------------------------------
(***************************************************************************)
(* None is no thread, no session and no context.                           *)
(***************************************************************************)
LEMMA NoneApart ==
  None \notin Threads /\ None \notin Sess /\ None \notin Ctxs
BY TaManagerAssumption DEF Sess, Ctxs

-----------------------------------------------------------------------------
(***************************************************************************)
(* Every action has one of the effects above.                              *)
(***************************************************************************)
USE NoneApart DEF Me, Moves, Still, SessIs, CtxIs, Asleep, Dead, Places, Calls,
    Seeking, Opening, Locking, Entering, Unlinking, Closing

LEMMA GotoMoves ==
  ASSUME Shape, NEW t \in Threads, NEW l \in Places, Goto(t, l),
         UNCHANGED <<ta, op, s, c, entered, res>>
  PROVE  Moves(t, l) /\ Still(t) /\ pc' \in [Threads -> Places]
BY DEF Goto, Shape

LEMMA SignalEffect ==
  ASSUME NEW p, NEW W, NEW l \in Places, NEW q \in Signal(p, W),
         p \in [Threads -> Places], W \subseteq Threads,
         \A u \in W : Retry[p[u]] = l
  PROVE  /\ q \in [Threads -> Places]
         /\ \A u \in Threads : q[u] = p[u] \/ (u \in W /\ q[u] = l)
         /\ W # {} => \E u \in W : q[u] = l
<1>1. CASE W = {}
  BY <1>1 DEF Signal
<1>2. CASE W # {}
  <2>1. PICK u \in W : q = [p EXCEPT ![u] = Retry[p[u]]]
    BY <1>2 DEF Signal
  <2>2. q = [p EXCEPT ![u] = l]
    BY <2>1
  <2>. QED BY <2>2
<1>. QED BY <1>1, <1>2

LEMMA InitSessionEffect ==
  ASSUME Shape, NEW t \in Threads, NEW ss \in [Sess -> Session],
         NEW n \in Sess, InitSessionWithContext(t, ss, n)
  PROVE  /\ ctxs' \in [Ctxs -> Context]
         /\ \/ \E l \in Places : /\ SeekTo(l) /\ Goto(t, l)
                                 /\ sess' = ss /\ ctxs' = ctxs
            \/ \E x \in Ctxs : /\ Shares(x) /\ Goto(t, "opened")
                               /\ sess' = [ss EXCEPT ![n].ctx = x]
<1>1. CASE /\ sess' = ss
           /\ Goto(t, "load")
           /\ UNCHANGED ctxs
  BY <1>1 DEF SeekTo, Shape
<1>2. CASE \E x \in ContextFind :
             /\ ctxs[x].is_initializing
             /\ sess' = ss
             /\ Goto(t, "initWait")
             /\ UNCHANGED ctxs
  BY <1>2 DEF SeekTo, ContextFind, Shape
<1>3. CASE /\ sess' = ss
           /\ Goto(t, "initFail")
           /\ UNCHANGED ctxs
  BY <1>3 DEF SeekTo, Shape
<1>4. CASE \E x \in ContextFind :
             /\ ~ctxs[x].is_initializing /\ ta.SingleInstance
             /\ MayShare(x)
             /\ ctxs' = [ctxs EXCEPT ![x].ref_count = @ + 1]
             /\ sess' = [ss EXCEPT ![n].ctx = x]
             /\ Goto(t, "opened")
  <2>1. PICK x \in Ctxs :
             /\ ctxs[x].st = "listed"
             /\ ~ctxs[x].is_initializing /\ ta.SingleInstance
             /\ MayShare(x)
             /\ ctxs' = [ctxs EXCEPT ![x].ref_count = @ + 1]
             /\ sess' = [ss EXCEPT ![n].ctx = x]
             /\ Goto(t, "opened")
    BY <1>4 DEF ContextFind
  <2>2. ctxs[x] \in Context /\ ctxs[x].ref_count + 1 \in Nat
    BY DEF Context, Shape
  <2>3. ctxs' \in [Ctxs -> Context]
    BY <2>1, <2>2 DEF Context, Shape
  <2>4. Shares(x)
    BY <2>1, <2>2 DEF Shape, Shares, MayShare, Context
  <2>. QED BY <2>1, <2>3, <2>4
<1>. QED BY <1>1, <1>2, <1>3, <1>4 DEF InitSessionWithContext

LEMMA OpenSessionDoes ==
  ASSUME Inv, NEW t \in Threads, OpenSession(t)
  PROVE  Shape' /\ DoesOpen(t)
<1>. DEFINE Listed(n) == [sess EXCEPT ![n].st = "listed", ![n].ref_count = 1]
<1>0. Shape /\ Fresh
  BY DEF Inv
<1>1. PICK n \in Sess :
        /\ At(t, "idle") /\ sess[n].st = "none"
        /\ InitSessionWithContext(t, Listed(n), n)
        /\ s' = [s EXCEPT ![t] = n]
        /\ op' = [op EXCEPT ![t] = "open"]
        /\ res' = [res EXCEPT ![t] = FALSE]
        /\ UNCHANGED <<ta, sil, known, c, entered, halted>>
  BY DEF OpenSession
<1>2. sess[n] \in Session
  BY <1>0 DEF Shape
<1>3. sess[n].ctx = None /\ sess[n].lock_thread = None /\ sess[n].unlink = FALSE
  BY <1>0, <1>1, <1>2 DEF Fresh, Session
<1>4. Listed(n) \in [Sess -> Session]
  <2>1. [sess EXCEPT ![n].st = "listed"] \in [Sess -> Session]
    BY <1>0 DEF Shape, Session
  <2>2. \A f \in [Sess -> Session] :
          [f EXCEPT ![n].ref_count = 1] \in [Sess -> Session]
    BY DEF Session
  <2>. QED BY <2>1, <2>2
<1>5. /\ Listed(n)[n].st = "listed" /\ Listed(n)[n].ref_count = 1
      /\ Listed(n)[n].lock_thread = None /\ Listed(n)[n].unlink = FALSE
      /\ Listed(n)[n].ctx = None
      /\ \A m \in Sess \ {n} : Listed(n)[m] = sess[m]
  BY <1>0, <1>3 DEF Shape, Session
<1>6. PICK L : L = Listed(n)
  OBVIOUS
<1>. HIDE DEF Listed
<1>7. /\ ctxs' \in [Ctxs -> Context]
      /\ \/ \E l \in Places : /\ SeekTo(l) /\ Goto(t, l)
                              /\ sess' = L /\ ctxs' = ctxs
         \/ \E x \in Ctxs : /\ Shares(x) /\ Goto(t, "opened")
                            /\ sess' = [L EXCEPT ![n].ctx = x]
  BY <1>0, <1>1, <1>4, <1>6, InitSessionEffect
<1>8. ASSUME NEW l \in Places, SeekTo(l), Goto(t, l), sess' = L, ctxs' = ctxs
      PROVE  Shape' /\ DoesOpen(t)
  <2>1. StartsOpen(t, n, l)
    BY <1>0, <1>1, <1>5, <1>6, <1>8 DEF StartsOpen, Goto, At, Shape
  <2>2. Shape'
    BY <1>0, <1>1, <1>4, <1>6, <1>8 DEF Goto, Shape
  <2>. QED BY <2>1, <2>2 DEF DoesOpen
<1>9. ASSUME NEW x \in Ctxs, Shares(x), Goto(t, "opened"),
             sess' = [L EXCEPT ![n].ctx = x]
      PROVE  Shape' /\ DoesOpen(t)
  <2>1. SessIs(n, "listed", 1, None, FALSE, x) /\ sess' \in [Sess -> Session]
    BY <1>4, <1>5, <1>6, <1>9 DEF Session
  <2>2. StartsShared(t, n, x)
    BY <1>0, <1>1, <1>9, <2>1 DEF StartsShared, Goto, At, Shape
  <2>3. Shape'
    BY <1>0, <1>1, <1>7, <1>9, <2>1 DEF Goto, Shape
  <2>. QED BY <2>2, <2>3 DEF DoesOpen
<1>. QED BY <1>7, <1>8, <1>9

LEMMA FindAgainDoes ==
  ASSUME Inv, NEW t \in Threads, FindAgain(t)
  PROVE  Shape' /\ DoesOpen(t)
<1>0. Shape /\ Located
  BY DEF Inv
<1>1. /\ At(t, "find")
      /\ InitSessionWithContext(t, sess, s[t])
      /\ UNCHANGED <<ta, sil, known, op, s, c, entered, res, halted>>
  BY DEF FindAgain
<1>2. PICK n \in Sess : n = s[t]
  BY <1>0, <1>1 DEF At, Located
<1>3. /\ ctxs' \in [Ctxs -> Context]
      /\ \/ \E l \in Places : /\ SeekTo(l) /\ Goto(t, l)
                              /\ sess' = sess /\ ctxs' = ctxs
         \/ \E x \in Ctxs : /\ Shares(x) /\ Goto(t, "opened")
                            /\ sess' = [sess EXCEPT ![n].ctx = x]
  BY <1>0, <1>1, <1>2, InitSessionEffect DEF Shape
<1>4. ASSUME NEW l \in Places, SeekTo(l), Goto(t, l), sess' = sess, ctxs' = ctxs
      PROVE  Shape' /\ DoesOpen(t)
  <2>1. Moves(t, l) /\ Still(t) /\ pc' \in [Threads -> Places]
    BY <1>0, <1>1, <1>4, GotoMoves
  <2>2. Seeks(t, l)
    BY <1>1, <1>4, <2>1 DEF Seeks, At
  <2>3. Shape'
    BY <1>0, <1>1, <1>4, <2>1 DEF Shape
  <2>. QED BY <2>2, <2>3 DEF DoesOpen
<1>5. ASSUME NEW x \in Ctxs, Shares(x), Goto(t, "opened"),
             sess' = [sess EXCEPT ![n].ctx = x]
      PROVE  Shape' /\ DoesOpen(t)
  <2>1. /\ SessIs(n, sess[n].st, sess[n].ref_count, sess[n].lock_thread,
                  sess[n].unlink, x)
        /\ sess' \in [Sess -> Session]
    BY <1>0, <1>5 DEF Session, Shape
  <2>2. Moves(t, "opened") /\ Still(t) /\ pc' \in [Threads -> Places]
    BY <1>0, <1>1, <1>5, GotoMoves
  <2>3. Joins(t, n, x)
    BY <1>1, <1>2, <1>5, <2>1, <2>2 DEF Joins, At
  <2>4. Shape'
    BY <1>0, <1>1, <1>3, <2>1, <2>2 DEF Shape
  <2>. QED BY <2>3, <2>4 DEF DoesOpen
<1>. QED BY <1>3, <1>4, <1>5

LEMMA LoadDoes ==
  ASSUME Inv, NEW t \in Threads, Load(t)
  PROVE  Shape' /\ DoesOpen(t)
<1>0. Shape /\ Located
  BY DEF Inv
<1>1. CASE /\ At(t, "load") /\ Goto(t, "initFail")
           /\ UNCHANGED <<ta, sess, ctxs, sil, known, op, s, c, entered, res,
                          halted>>
  <2>1. Moves(t, "initFail") /\ Still(t) /\ pc' \in [Threads -> Places]
    BY <1>0, <1>1, GotoMoves
  <2>2. LoadRefused(t)
    BY <1>1, <2>1 DEF LoadRefused, At
  <2>3. Shape'
    BY <1>0, <1>1, <2>1 DEF Shape
  <2>. QED BY <2>2, <2>3 DEF DoesOpen
<1>2. ASSUME NEW x \in Ctxs, At(t, "load"), ctxs[x].st = "none",
             ctxs' = [ctxs EXCEPT ![x].st = "listed", ![x].ref_count = 1,
                                  ![x].is_initializing = TRUE],
             sess' = [sess EXCEPT ![s[t]].ctx = x],
             c' = [c EXCEPT ![t] = x], Goto(t, "loading"),
             UNCHANGED <<ta, sil, known, op, s, entered, res, halted>>
      PROVE  Shape' /\ DoesOpen(t)
  <2>1. PICK n \in Sess : n = s[t]
    BY <1>0, <1>2 DEF At, Located
  <2>2. /\ SessIs(n, sess[n].st, sess[n].ref_count, sess[n].lock_thread,
                  sess[n].unlink, x)
        /\ sess' \in [Sess -> Session]
    BY <1>0, <1>2, <2>1 DEF Session, Shape
  <2>3. CtxIs(x, "listed", 1, ctxs[x].busy, ctxs[x].panicked, TRUE)
    BY <1>0, <1>2 DEF Context, Shape
  <2>4. ctxs' \in [Ctxs -> Context]
    <3>1. [ctxs EXCEPT ![x].st = "listed"] \in [Ctxs -> Context]
      BY <1>0 DEF Context, Shape
    <3>2. [ctxs EXCEPT ![x].st = "listed", ![x].ref_count = 1]
            \in [Ctxs -> Context]
      BY <3>1 DEF Context
    <3>3. \A f \in [Ctxs -> Context] :
            [f EXCEPT ![x].is_initializing = TRUE] \in [Ctxs -> Context]
      BY DEF Context
    <3>. QED BY <1>2, <3>2, <3>3
  <2>5. Loads(t, n, x)
    BY <1>0, <1>2, <2>1, <2>2, <2>3 DEF Loads, Goto, At, Shape
  <2>6. Shape'
    BY <1>0, <1>2, <2>2, <2>4 DEF Goto, Shape
  <2>. QED BY <2>5, <2>6 DEF DoesOpen
<1>. QED BY <1>1, <1>2 DEF Load

LEMMA LoadedDoes ==
  ASSUME Inv, NEW t \in Threads, Loaded(t)
  PROVE  Shape' /\ DoesOpen(t)
<1>0. Shape /\ Located
  BY DEF Inv
<1>1. At(t, "loading") /\ UNCHANGED <<ta, sil, known, op, s, c, entered, res, halted>>
  BY DEF Loaded
<1>2. PICK n \in Sess, x \in Ctxs : n = s[t] /\ x = c[t]
  BY <1>0, <1>1 DEF At, Located, HasContext
<1>3. ASSUME NEW l \in Places,
             pc' = [Broadcast(pc, Asleep("initWait")) EXCEPT ![t] = l]
      PROVE  /\ LoadersTold(t) /\ Moves(t, l) /\ pc' \in [Threads -> Places]
  <2>1. Retry["initWait"] = "find"
    BY DEF Retry
  <2>2. pc' = [u \in Threads |-> IF u = t THEN l
                                 ELSE IF pc[u] = "initWait" THEN "find" ELSE pc[u]]
    BY <1>0, <1>3, <2>1 DEF Broadcast, Shape
  <2>. QED BY <1>0, <1>1, <2>2 DEF LoadersTold, Shape
<1>4. ASSUME ctxs' = [ctxs EXCEPT ![c[t]].is_initializing = FALSE],
             pc' = [Broadcast(pc, Asleep("initWait")) EXCEPT ![t] = "opened"],
             UNCHANGED sess
      PROVE  Shape' /\ DoesOpen(t)
  <2>1. LoadersTold(t) /\ Moves(t, "opened") /\ pc' \in [Threads -> Places]
    BY <1>3, <1>4
  <2>2. ctxs' = [ctxs EXCEPT ![x].is_initializing = FALSE]
    BY <1>2, <1>4
  <2>3. CtxIs(x, ctxs[x].st, ctxs[x].ref_count, ctxs[x].busy, ctxs[x].panicked,
              FALSE)
    BY <1>0, <2>2 DEF Context, Shape
  <2>4. ctxs' \in [Ctxs -> Context]
    <3>1. \A f \in [Ctxs -> Context] :
            [f EXCEPT ![x].is_initializing = FALSE] \in [Ctxs -> Context]
      BY DEF Context
    <3>. QED BY <1>0, <2>2, <3>1 DEF Shape
  <2>5. LoadDone(t, x)
    BY <1>1, <1>2, <1>4, <2>1, <2>3 DEF LoadDone, At
  <2>6. Shape'
    BY <1>0, <1>1, <1>4, <2>1, <2>4 DEF Shape
  <2>. QED BY <2>5, <2>6 DEF DoesOpen
<1>5. ASSUME ctxs' = [ctxs EXCEPT ![c[t]].st = "freed"],
             sess' = [sess EXCEPT ![s[t]].ctx = None],
             pc' = [Broadcast(pc, Asleep("initWait")) EXCEPT ![t] = "initFail"]
      PROVE  Shape' /\ DoesOpen(t)
  <2>1. LoadersTold(t) /\ Moves(t, "initFail") /\ pc' \in [Threads -> Places]
    BY <1>3, <1>5
  <2>2. /\ CtxIs(x, "freed", ctxs[x].ref_count, ctxs[x].busy,
                 ctxs[x].panicked, ctxs[x].is_initializing)
        /\ ctxs' \in [Ctxs -> Context]
    BY <1>0, <1>2, <1>5 DEF Context, Shape
  <2>3. /\ SessIs(n, sess[n].st, sess[n].ref_count, sess[n].lock_thread,
                  sess[n].unlink, None)
        /\ sess' \in [Sess -> Session]
    BY <1>0, <1>2, <1>5 DEF Session, Shape
  <2>4. LoadFailed(t, n, x)
    BY <1>1, <1>2, <2>1, <2>2, <2>3 DEF LoadFailed, At
  <2>5. Shape'
    BY <1>0, <1>1, <2>1, <2>2, <2>3 DEF Shape
  <2>. QED BY <2>4, <2>5 DEF DoesOpen
<1>. QED BY <1>4, <1>5 DEF Loaded

LEMMA InitFailsDoes ==
  ASSUME Inv, NEW t \in Threads, InitFails(t)
  PROVE  Shape' /\ DoesOpen(t)
<1>0. Shape /\ Located
  BY DEF Inv
<1>1. /\ At(t, "initFail") /\ sess' = [sess EXCEPT ![s[t]].st = "freed"]
      /\ Goto(t, "idle")
      /\ UNCHANGED <<ta, ctxs, sil, known, op, s, c, entered, res, halted>>
  BY DEF InitFails
<1>2. PICK n \in Sess : n = s[t]
  BY <1>0, <1>1 DEF At, Located
<1>3. /\ SessIs(n, "freed", sess[n].ref_count, sess[n].lock_thread,
                sess[n].unlink, sess[n].ctx)
      /\ sess' \in [Sess -> Session]
  BY <1>0, <1>1, <1>2 DEF Session, Shape
<1>4. Moves(t, "idle") /\ Still(t) /\ pc' \in [Threads -> Places]
  BY <1>0, <1>1, GotoMoves
<1>5. InitFailed(t, n)
  BY <1>1, <1>2, <1>3, <1>4 DEF InitFailed, At
<1>6. Shape'
  BY <1>0, <1>1, <1>3, <1>4 DEF Shape
<1>. QED BY <1>5, <1>6 DEF DoesOpen

LEMMA GetSessionDoes ==
  ASSUME Inv, NEW t \in Threads, NEW o \in Calls, NEW n \in Sess,
         GetsFor(t, o, n), GetSession(t, n),
         s' = [s EXCEPT ![t] = n], op' = [op EXCEPT ![t] = o],
         UNCHANGED <<ta, ctxs, sil, known, c, entered, res, halted>>
  PROVE  Shape' /\ DoesGet(t)
<1>0. Shape
  BY DEF Inv
<1>1. CASE Goto(t, Closed(t)) /\ UNCHANGED sess
  <2>1. PICK l \in Places : l = Closed(t)
    BY DEF Closed
  <2>2. GetRefused(t, o, n, l)
    BY <1>0, <1>1, <2>1 DEF GetRefused, EndsAt, Closed, Goto, Shape
  <2>3. Shape'
    BY <1>0, <1>1, <2>1 DEF Goto, Shape
  <2>. QED BY <2>2, <2>3 DEF DoesGet
<1>2. CASE /\ sess[n].st = "listed" /\ ~sess[n].unlink
           /\ sess[n].lock_thread = None
           /\ sess' = [sess EXCEPT ![n].ref_count = @ + 1, ![n].lock_thread = t]
           /\ Goto(t, "check")
  <2>1. sess[n] \in Session /\ sess[n].ref_count + 1 \in Int
    BY <1>0 DEF Shape, Session
  <2>2. [sess EXCEPT ![n].ref_count = @ + 1] \in [Sess -> Session]
    BY <1>0, <2>1 DEF Session, Shape
  <2>3. sess' \in [Sess -> Session]
    BY <1>2, <2>2 DEF Session
  <2>4. SessIs(n, "listed", sess[n].ref_count + 1, t, FALSE, sess[n].ctx)
    BY <1>0, <1>2, <2>1 DEF Session, Shape
  <2>5. GetLocks(t, o, n)
    BY <1>0, <1>2, <2>4 DEF GetLocks, Goto, Shape
  <2>6. Shape'
    BY <1>0, <1>2, <2>3 DEF Goto, Shape
  <2>. QED BY <2>5, <2>6 DEF DoesGet
<1>3. CASE /\ sess[n].st = "listed" /\ ~sess[n].unlink
           /\ sess[n].lock_thread # None
           /\ sess' = [sess EXCEPT ![n].ref_count = @ + 1]
           /\ Goto(t, "lockWait")
  <2>1. sess[n] \in Session /\ sess[n].ref_count + 1 \in Int
    BY <1>0 DEF Shape, Session
  <2>2. sess' \in [Sess -> Session]
    BY <1>0, <1>3, <2>1 DEF Session, Shape
  <2>3. SessIs(n, "listed", sess[n].ref_count + 1, sess[n].lock_thread, FALSE,
               sess[n].ctx)
    BY <1>0, <1>3, <2>1 DEF Session, Shape
  <2>4. GetWaits(t, o, n)
    BY <1>0, <1>3, <2>3 DEF GetWaits, Goto, Shape
  <2>5. Shape'
    BY <1>0, <1>3, <2>2 DEF Goto, Shape
  <2>. QED BY <2>4, <2>5 DEF DoesGet
<1>. QED BY <1>1, <1>2, <1>3 DEF GetSession

LEMMA InvokeCommandDoes ==
  ASSUME Inv, NEW t \in Threads, InvokeCommand(t)
  PROVE  Shape' /\ DoesGet(t)
<1>1. PICK n \in known :
        /\ At(t, "idle") /\ GetSession(t, n)
        /\ s' = [s EXCEPT ![t] = n] /\ op' = [op EXCEPT ![t] = "invoke"]
        /\ UNCHANGED <<ta, ctxs, sil, known, c, entered, res, halted>>
  BY DEF InvokeCommand
<1>2. n \in Sess
  BY DEF Inv, Shape
<1>. QED BY <1>1, <1>2, GetSessionDoes DEF GetsFor, At

LEMMA CloseSessionDoes ==
  ASSUME Inv, NEW t \in Threads, CloseSession(t)
  PROVE  Shape' /\ DoesGet(t)
<1>0. Shape
  BY DEF Inv
<1>1. PICK n \in known :
        /\ At(t, "idle") /\ known' = known \ {n}
        /\ s' = [s EXCEPT ![t] = n] /\ op' = [op EXCEPT ![t] = "close"]
        /\ Goto(t, "get")
        /\ UNCHANGED <<ta, sess, ctxs, sil, c, entered, res, halted>>
  BY DEF CloseSession
<1>2. n \in Sess
  BY <1>0 DEF Shape
<1>3. Closes(t, n)
  BY <1>0, <1>1, <1>2 DEF Closes, Goto, At, Shape
<1>4. Shape'
  BY <1>0, <1>1, <1>2 DEF Goto, Shape
<1>. QED BY <1>2, <1>3, <1>4 DEF DoesGet

LEMMA CloseGetsDoes ==
  ASSUME Inv, NEW t \in Threads, CloseGets(t)
  PROVE  Shape' /\ DoesGet(t)
<1>0. Shape /\ Located
  BY DEF Inv
<1>1. /\ At(t, "get") /\ GetSession(t, s[t])
      /\ UNCHANGED <<ta, ctxs, sil, known, op, s, c, entered, res, halted>>
  BY DEF CloseGets
<1>2. PICK n \in Sess, o \in Calls : n = s[t] /\ o = op[t]
  BY <1>0, <1>1 DEF At, Located, Shape
<1>3. s' = [s EXCEPT ![t] = n] /\ op' = [op EXCEPT ![t] = o]
  BY <1>0, <1>1, <1>2 DEF Shape
<1>. QED BY <1>1, <1>2, <1>3, GetSessionDoes DEF GetsFor, At

LEMMA LockTurnDoes ==
  ASSUME Inv, NEW t \in Threads, LockTurn(t)
  PROVE  Shape' /\ DoesGet(t)
<1>0. Shape /\ Located
  BY DEF Inv
<1>1. /\ At(t, "lock")
      /\ UNCHANGED <<ta, ctxs, sil, known, op, s, c, entered, res, halted>>
  BY DEF LockTurn
<1>2. PICK n \in Sess : n = s[t]
  BY <1>0, <1>1 DEF At, Located
<1>3. ASSUME sess[n].unlink,
             sess' = [sess EXCEPT ![n].ref_count = @ - 1],
             NEW p \in IF sess[n].ref_count = 2
                         THEN Signal(pc, RefcWaiters(n)) ELSE {pc},
             pc' = [p EXCEPT ![t] = Closed(t)]
      PROVE  Shape' /\ DoesGet(t)
  <2>1. PICK l \in Places : l = Closed(t)
    BY DEF Closed
  <2>2. sess[n] \in Session /\ sess[n].ref_count - 1 \in Int
    BY <1>0 DEF Shape, Session
  <2>3. sess' \in [Sess -> Session]
    BY <1>0, <1>3, <2>2 DEF Session, Shape
  <2>4. SessIs(n, sess[n].st, sess[n].ref_count - 1, sess[n].lock_thread, TRUE,
               sess[n].ctx)
    BY <1>0, <1>3, <2>2 DEF Session, Shape
  <2>5. /\ p \in [Threads -> Places]
        /\ \A u \in Threads :
             p[u] = pc[u] \/ (u \in RefcWaiters(n) /\ p[u] = "unlinkTurn")
        /\ sess[n].ref_count = 2 /\ RefcWaiters(n) # {} =>
             \E u \in RefcWaiters(n) : p[u] = "unlinkTurn"
    <3>1. RefcWaiters(n) \subseteq Threads
          /\ \A u \in RefcWaiters(n) : Retry[pc[u]] = "unlinkTurn"
      BY DEF RefcWaiters, Retry
    <3>2. CASE sess[n].ref_count = 2
      BY <1>0, <1>3, <3>1, <3>2, SignalEffect DEF Shape
    <3>3. CASE sess[n].ref_count # 2
      BY <1>0, <1>3, <3>3 DEF Shape
    <3>. QED BY <3>2, <3>3
  <2>6. t \notin RefcWaiters(n)
    BY <1>1 DEF RefcWaiters, At
  <2>7. /\ pc' \in [Threads -> Places] /\ pc'[t] = l
        /\ \A u \in Threads \ {t} : pc'[u] = p[u]
    BY <1>3, <2>1, <2>5
  <2>8. UnlinkerTold(n)
    <3>1. ASSUME sess[n].ref_count = 2, RefcWaiters(n) # {}
          PROVE  \E u \in RefcWaiters(n) : pc'[u] = "unlinkTurn"
      <4>1. PICK u \in RefcWaiters(n) : p[u] = "unlinkTurn"
        BY <2>5, <3>1
      <4>2. u \in Threads \ {t}
        BY <2>6 DEF RefcWaiters
      <4>. QED BY <2>7, <4>1, <4>2
    <3>. QED BY <3>1 DEF UnlinkerTold
  <2>9. GivesUp(t, n, l)
    <3>1. Moves(t, l)
      BY <1>0, <1>1, <2>7
    <3>2. EndsAt(t, l)
      BY <2>1 DEF EndsAt, Closed
    <3>3. \A u \in Threads \ {t} :
            \/ pc'[u] = pc[u]
            \/ u \in RefcWaiters(n) /\ pc'[u] = "unlinkTurn"
      BY <2>5, <2>7
    <3>. QED BY <1>1, <1>2, <1>3, <2>4, <2>8, <3>1, <3>2, <3>3 DEF GivesUp, At
  <2>10. Shape'
    BY <1>0, <1>1, <2>3, <2>7 DEF Shape
  <2>. QED BY <2>9, <2>10 DEF DoesGet
<1>4. ASSUME ~sess[n].unlink, sess[n].lock_thread = None,
             sess' = [sess EXCEPT ![n].lock_thread = t], Goto(t, "check")
      PROVE  Shape' /\ DoesGet(t)
  <2>1. sess' \in [Sess -> Session]
    BY <1>0, <1>4 DEF Session, Shape
  <2>2. SessIs(n, sess[n].st, sess[n].ref_count, t, FALSE, sess[n].ctx)
    BY <1>0, <1>4 DEF Session, Shape
  <2>3. Moves(t, "check") /\ Still(t) /\ pc' \in [Threads -> Places]
    BY <1>0, <1>1, <1>4, GotoMoves
  <2>4. TakesLock(t, n)
    BY <1>1, <1>2, <1>4, <2>2, <2>3 DEF TakesLock, At
  <2>5. Shape'
    BY <1>0, <1>1, <2>1, <2>3 DEF Shape
  <2>. QED BY <2>4, <2>5 DEF DoesGet
<1>5. ASSUME ~sess[n].unlink, sess[n].lock_thread # None,
             Goto(t, "lockWait"), UNCHANGED sess
      PROVE  Shape' /\ DoesGet(t)
  <2>1. Moves(t, "lockWait") /\ Still(t) /\ pc' \in [Threads -> Places]
    BY <1>0, <1>1, <1>5, GotoMoves
  <2>2. WaitsAgain(t, n)
    BY <1>1, <1>2, <1>5, <2>1 DEF WaitsAgain, At
  <2>3. Shape'
    BY <1>0, <1>1, <1>5, <2>1 DEF Shape
  <2>. QED BY <2>2, <2>3 DEF DoesGet
<1>6. IF sess[n].unlink
        THEN /\ sess' = [sess EXCEPT ![n].ref_count = @ - 1]
             /\ \E p \in IF sess[n].ref_count = 2
                          THEN Signal(pc, RefcWaiters(n)) ELSE {pc} :
                  pc' = [p EXCEPT ![t] = Closed(t)]
        ELSE IF sess[n].lock_thread = None
        THEN /\ sess' = [sess EXCEPT ![n].lock_thread = t]
             /\ Goto(t, "check")
        ELSE Goto(t, "lockWait") /\ UNCHANGED sess
  BY <1>2 DEF LockTurn
<1>. QED BY <1>3, <1>4, <1>5, <1>6

LEMMA PutSessionDoes ==
  ASSUME Inv, NEW t \in Threads, PutSession(t)
  PROVE  Shape' /\ DoesGet(t)
<1>0. Shape /\ Located
  BY DEF Inv
<1>1. /\ At(t, "put")
      /\ UNCHANGED <<ta, ctxs, sil, op, s, c, entered, res, halted>>
  BY DEF PutSession
<1>2. PICK n \in Sess : n = s[t]
  BY <1>0, <1>1 DEF At, Located
<1>3. PICK l \in Places : l = IF op[t] = "abort" THEN "get" ELSE "idle"
  OBVIOUS
<1>4. PICK k \in Threads \cup {None} :
        k = IF sess[n].lock_thread = t THEN None ELSE sess[n].lock_thread
  BY <1>0 DEF Shape, Session
<1>5. /\ sess' = [sess EXCEPT ![n].ref_count = @ - 1,
                              ![n].lock_thread = k]
      /\ known' = IF op[t] = "open" THEN known \cup {n} ELSE known
  BY <1>0, <1>2, <1>4 DEF PutSession, Shape, Session
<1>6. PICK p \in IF sess[n].lock_thread = t THEN Signal(pc, LockWaiters(n))
                                            ELSE {pc} :
        \E q \in IF sess[n].ref_count = 2 THEN Signal(p, RefcWaiters(n))
                                          ELSE {p} :
          pc' = [q EXCEPT ![t] = l]
  BY <1>2, <1>3 DEF PutSession
<1>7. PICK q \in IF sess[n].ref_count = 2 THEN Signal(p, RefcWaiters(n))
                                          ELSE {p} :
        pc' = [q EXCEPT ![t] = l]
  BY <1>6
<1>8. /\ LockWaiters(n) \subseteq Threads \ {t}
      /\ RefcWaiters(n) \subseteq Threads \ {t}
      /\ LockWaiters(n) \cap RefcWaiters(n) = {}
      /\ \A u \in LockWaiters(n) : Retry[pc[u]] = "lock"
      /\ \A u \in RefcWaiters(n) : Retry[pc[u]] = "unlinkTurn"
  BY <1>1 DEF RefcWaiters, LockWaiters, Retry, At
<1>9. /\ p \in [Threads -> Places]
      /\ \A u \in Threads : p[u] = pc[u] \/ (u \in LockWaiters(n) /\ p[u] = "lock")
      /\ sess[n].lock_thread = t /\ LockWaiters(n) # {} =>
           \E u \in LockWaiters(n) : p[u] = "lock"
  <2>1. CASE sess[n].lock_thread = t
    BY <1>0, <1>6, <1>8, <2>1, SignalEffect DEF Shape
  <2>2. CASE sess[n].lock_thread # t
    BY <1>0, <1>6, <2>2 DEF Shape
  <2>. QED BY <2>1, <2>2
<1>10. /\ q \in [Threads -> Places]
       /\ \A u \in Threads :
            q[u] = p[u] \/ (u \in RefcWaiters(n) /\ q[u] = "unlinkTurn")
       /\ sess[n].ref_count = 2 /\ RefcWaiters(n) # {} =>
            \E u \in RefcWaiters(n) : q[u] = "unlinkTurn"
  <2>1. \A u \in RefcWaiters(n) : p[u] = pc[u]
    BY <1>8, <1>9
  <2>2. CASE sess[n].ref_count = 2
    BY <1>7, <1>8, <1>9, <2>1, <2>2, SignalEffect
  <2>3. CASE sess[n].ref_count # 2
    BY <1>7, <1>9, <2>3
  <2>. QED BY <2>2, <2>3
<1>11. /\ pc' \in [Threads -> Places] /\ pc'[t] = l
       /\ \A u \in Threads \ {t} : pc'[u] = q[u]
  BY <1>7, <1>10
<1>12. sess[n] \in Session /\ sess[n].ref_count - 1 \in Int
  BY <1>0 DEF Shape, Session
<1>13. sess' \in [Sess -> Session]
  <2>1. [sess EXCEPT ![n].ref_count = @ - 1] \in [Sess -> Session]
    BY <1>0, <1>12 DEF Session, Shape
  <2>2. \A f \in [Sess -> Session] :
          [f EXCEPT ![n].lock_thread = k] \in [Sess -> Session]
    BY DEF Session
  <2>. QED BY <1>5, <2>1, <2>2
<1>14. SessIs(n, sess[n].st, sess[n].ref_count - 1, k, sess[n].unlink,
              sess[n].ctx)
  BY <1>0, <1>5, <1>12 DEF Session, Shape
<1>15. /\ \A u \in Threads \ {t} :
            \/ pc'[u] = pc[u]
            \/ u \in LockWaiters(n) /\ pc'[u] = "lock"
            \/ u \in RefcWaiters(n) /\ pc'[u] = "unlinkTurn"
       /\ sess[n].lock_thread = t /\ LockWaiters(n) # {} =>
            \E u \in LockWaiters(n) : pc'[u] = "lock"
       /\ UnlinkerTold(n)
  BY <1>8, <1>9, <1>10, <1>11 DEF UnlinkerTold
<1>16. Moves(t, l)
  BY <1>1, <1>11
<1>17. Puts(t, n, l)
  BY <1>1, <1>2, <1>3, <1>4, <1>5, <1>14, <1>15, <1>16 DEF Puts, At
<1>18. Shape'
  BY <1>0, <1>1, <1>5, <1>11, <1>13 DEF Shape
<1>. QED BY <1>17, <1>18 DEF DoesGet

LEMMA TellDoes ==
  ASSUME Inv, NEW t \in Threads, Tell(t)
  PROVE  Shape' /\ DoesGet(t)
<1>0. Shape
  BY DEF Inv
<1>1. /\ At(t, "tell") /\ Goto(t, "idle")
      /\ UNCHANGED <<ta, sess, ctxs, sil, op, s, c, entered, res, halted>>
  BY DEF Tell
<1>2. \/ known' = known
      \/ \E n \in Sess : sess[n].st # "none" /\ known' = known \cup {n}
  BY DEF Tell
<1>3. Moves(t, "idle") /\ Still(t) /\ pc' \in [Threads -> Places]
  BY <1>0, <1>1, GotoMoves
<1>4. Tells(t)
  BY <1>1, <1>2, <1>3 DEF Tells, At
<1>5. Shape'
  BY <1>0, <1>1, <1>2, <1>3 DEF Shape
<1>. QED BY <1>4, <1>5 DEF DoesGet

LEMMA OpenedDeadDoes ==
  ASSUME Inv, NEW t \in Threads, OpenedDead(t)
  PROVE  Shape' /\ DoesRun(t)
<1>0. Shape /\ Located
  BY DEF Inv
<1>1. /\ At(t, "opened") /\ Dead(s[t]) /\ Goto(t, "get")
      /\ op' = [op EXCEPT ![t] = "abort"]
      /\ UNCHANGED <<ta, sess, ctxs, sil, known, s, c, entered, res, halted>>
  BY DEF OpenedDead
<1>2. PICK n \in Sess : n = s[t]
  BY <1>0, <1>1 DEF At, Located
<1>3. FindsDead(t, n)
  BY <1>0, <1>1, <1>2 DEF FindsDead, Goto, At, Shape
<1>4. Shape'
  BY <1>0, <1>1 DEF Goto, Shape
<1>. QED BY <1>3, <1>4 DEF DoesRun

LEMMA CheckDoes ==
  ASSUME Inv, NEW t \in Threads, Check(t)
  PROVE  Shape' /\ DoesRun(t)
<1>0. Shape /\ Located
  BY DEF Inv
<1>1. /\ (At(t, "opened") /\ ~Dead(s[t])) \/ At(t, "check")
      /\ c' = [c EXCEPT ![t] = sess[s[t]].ctx]
      /\ entered' = [entered EXCEPT ![t] = FALSE]
      /\ Goto(t, IF ~Dead(s[t]) THEN "setBusy"
                 ELSE IF Closing(t) THEN "unlink"
                 ELSE IF sess[s[t]].ctx = None THEN "put" ELSE "destroyCtx")
      /\ UNCHANGED <<ta, sess, ctxs, sil, known, op, s, res, halted>>
  BY DEF Check
<1>2. PICK n \in Sess : n = s[t]
  BY <1>0, <1>1 DEF At, Located
<1>3. PICK x \in Ctxs \cup {None} : x = sess[n].ctx
  BY <1>0 DEF Shape, Session
<1>. HIDE DEF Dead, Closing
<1>4. PICK l \in Places : l = IF ~Dead(n) THEN "setBusy"
                              ELSE IF Closing(t) THEN "unlink"
                              ELSE IF x = None THEN "put" ELSE "destroyCtx"
  OBVIOUS
<1>5. Checks(t, n, x, l)
  BY <1>0, <1>1, <1>2, <1>3, <1>4 DEF Checks, Goto, At, Shape
<1>6. Shape'
  BY <1>0, <1>1, <1>2, <1>3, <1>4 DEF Goto, Shape
<1>. QED BY <1>5, <1>6 DEF DoesRun

LEMMA SetBusyDoes ==
  ASSUME Inv, NEW t \in Threads, SetBusy(t)
  PROVE  Shape' /\ DoesRun(t)
<1>0. Shape /\ Located
  BY DEF Inv
<1>1. At(t, "setBusy") /\ UNCHANGED <<ta, sess, known, op, s, c, res, halted>>
  BY DEF SetBusy
<1>2. PICK x \in Ctxs : x = c[t]
  BY <1>0, <1>1 DEF At, Located, HasContext
<1>3. ASSUME NEW l \in Places,
             \/ InstanceLock /\ sil # None /\ l = "silWait"
             \/ ~InstanceLock /\ ctxs[c[t]].busy /\ l = "busyWait",
             Goto(t, l), UNCHANGED <<ctxs, sil, entered>>
      PROVE  Shape' /\ DoesRun(t)
  <2>1. Moves(t, l) /\ Still(t) /\ pc' \in [Threads -> Places]
    BY <1>0, <1>1, <1>3, GotoMoves
  <2>2. WaitsBusy(t, l)
    BY <1>1, <1>3, <2>1 DEF WaitsBusy, At
  <2>3. Shape'
    BY <1>0, <1>1, <1>3, <2>1 DEF Shape
  <2>. QED BY <2>2, <2>3 DEF DoesRun
<1>4. ASSUME InstanceLock => sil = None, ~InstanceLock => ~ctxs[c[t]].busy,
             ctxs' = [ctxs EXCEPT ![c[t]].busy = TRUE],
             sil' = IF InstanceLock THEN t ELSE sil,
             entered' = [entered EXCEPT ![t] = TRUE], Goto(t, "inTA")
      PROVE  Shape' /\ DoesRun(t)
  <2>1. CtxIs(x, ctxs[x].st, ctxs[x].ref_count, TRUE, ctxs[x].panicked,
              ctxs[x].is_initializing)
    BY <1>0, <1>2, <1>4 DEF Context, Shape
  <2>2. ctxs' \in [Ctxs -> Context]
    <3>1. \A f \in [Ctxs -> Context] :
            [f EXCEPT ![x].busy = TRUE] \in [Ctxs -> Context]
      BY DEF Context
    <3>. QED BY <1>0, <1>2, <1>4, <3>1 DEF Shape
  <2>3. Me(t, "inTA", op[t], s[t], x, TRUE, res[t]) /\ Still(t)
    BY <1>0, <1>1, <1>2, <1>4 DEF Goto, Shape
  <2>4. Enters(t, x)
    BY <1>1, <1>2, <1>4, <2>1, <2>3 DEF Enters, At
  <2>5. Shape'
    BY <1>0, <1>1, <1>4, <2>2 DEF Goto, Shape
  <2>. QED BY <2>4, <2>5 DEF DoesRun
<1>. QED BY <1>3, <1>4 DEF SetBusy

LEMMA RunTaDoes ==
  ASSUME Inv, NEW t \in Threads, RunTa(t)
  PROVE  Shape' /\ DoesRun(t)
<1>. HIDE DEF Closing
<1>0. Shape /\ Located
  BY DEF Inv
<1>1. /\ At(t, "inTA") /\ Goto(t, IF Closing(t) THEN "unlink" ELSE "clearBusy")
      /\ UNCHANGED <<ta, sess, sil, known, op, s, c, entered, halted>>
  BY DEF RunTa
<1>2. PICK x \in Ctxs : x = c[t]
  BY <1>0, <1>1 DEF At, Located, HasContext
<1>3. PICK ok \in BOOLEAN :
        /\ TaResult(t, ok)
        /\ \/ UNCHANGED ctxs
           \/ ctxs' = [ctxs EXCEPT ![x].panicked = FALSE]
           \/ ta.CanPanic /\ ctxs' = [ctxs EXCEPT ![x].panicked = TRUE]
  BY <1>2 DEF RunTa
<1>4. PICK p \in BOOLEAN :
        /\ p \in {ctxs[x].panicked, FALSE} \/ ta.CanPanic
        /\ CtxIs(x, ctxs[x].st, ctxs[x].ref_count, ctxs[x].busy, p,
                 ctxs[x].is_initializing)
        /\ ctxs' \in [Ctxs -> Context]
  <2>1. ctxs[x] \in Context /\ ctxs[x].panicked \in BOOLEAN
    BY <1>0 DEF Context, Shape
  <2>2. ASSUME NEW b \in BOOLEAN, ctxs' = [ctxs EXCEPT ![x].panicked = b]
        PROVE  /\ CtxIs(x, ctxs[x].st, ctxs[x].ref_count, ctxs[x].busy, b,
                        ctxs[x].is_initializing)
               /\ ctxs' \in [Ctxs -> Context]
    BY <1>0, <2>2 DEF Context, Shape
  <2>3. CASE UNCHANGED ctxs
    BY <1>0, <2>1, <2>3 DEF Shape
  <2>4. CASE ctxs' = [ctxs EXCEPT ![x].panicked = FALSE]
    BY <2>2, <2>4
  <2>5. CASE ta.CanPanic /\ ctxs' = [ctxs EXCEPT ![x].panicked = TRUE]
    BY <2>2, <2>5
  <2>. QED BY <1>3, <2>3, <2>4, <2>5
<1>5. PICK r \in BOOLEAN : r = IF op[t] = "open" THEN ok ELSE res[t]
  BY <1>0 DEF Shape
<1>6. res'[t] = r /\ (\A u \in Threads \ {t} : res'[u] = res[u])
      /\ res' \in [Threads -> BOOLEAN]
  BY <1>0, <1>3, <1>5 DEF TaResult, Shape
<1>7. Runs(t, x, p, r)
  BY <1>0, <1>1, <1>2, <1>4, <1>5, <1>6 DEF Runs, Goto, At, Shape
<1>8. Shape'
  BY <1>0, <1>1, <1>4, <1>6 DEF Goto, Shape
<1>. QED BY <1>7, <1>8 DEF DoesRun

LEMMA ClearBusyDoes ==
  ASSUME Inv, NEW t \in Threads, ClearBusy(t)
  PROVE  Shape' /\ DoesRun(t)
<1>. HIDE DEF Closing
<1>0. Shape /\ Located
  BY DEF Inv
<1>1. /\ At(t, "clearBusy") /\ ctxs' = [ctxs EXCEPT ![c[t]].busy = FALSE]
      /\ sil' = IF InstanceLock THEN None ELSE sil
      /\ UNCHANGED <<ta, sess, known, op, s, c, entered, res, halted>>
  BY DEF ClearBusy
<1>2. PICK x \in Ctxs : x = c[t]
  BY <1>0, <1>1 DEF At, Located, HasContext
<1>3. PICK l \in Places : l = IF Closing(t) THEN "drop" ELSE "returned"
  OBVIOUS
<1>4. PICK p \in Signal(pc, BusyWaiters(x)) :
        \E q \in IF InstanceLock THEN Signal(p, Asleep("silWait")) ELSE {p} :
          pc' = [q EXCEPT ![t] = l]
  BY <1>2, <1>3 DEF ClearBusy
<1>5. PICK q \in IF InstanceLock THEN Signal(p, Asleep("silWait")) ELSE {p} :
        pc' = [q EXCEPT ![t] = l]
  BY <1>4
<1>6. /\ BusyWaiters(x) \subseteq Threads \ {t}
      /\ Asleep("silWait") \subseteq Threads \ {t}
      /\ BusyWaiters(x) \cap Asleep("silWait") = {}
      /\ \A u \in BusyWaiters(x) : Retry[pc[u]] = "setBusy"
      /\ \A u \in Asleep("silWait") : Retry[pc[u]] = "setBusy"
  BY <1>1 DEF BusyWaiters, Retry, At
<1>7. /\ p \in [Threads -> Places]
      /\ \A u \in Threads :
           p[u] = pc[u] \/ (u \in BusyWaiters(x) /\ p[u] = "setBusy")
      /\ BusyWaiters(x) # {} => \E u \in BusyWaiters(x) : p[u] = "setBusy"
  BY <1>0, <1>4, <1>6, SignalEffect DEF Shape
<1>. HIDE DEF Asleep
<1>8. /\ q \in [Threads -> Places]
      /\ \A u \in Threads :
           q[u] = p[u] \/ (u \in Asleep("silWait") /\ q[u] = "setBusy")
      /\ InstanceLock /\ Asleep("silWait") # {} =>
           \E u \in Asleep("silWait") : q[u] = "setBusy"
  <2>1. \A u \in Asleep("silWait") : p[u] = pc[u]
    BY <1>6, <1>7
  <2>2. CASE InstanceLock
    <3>1. /\ Asleep("silWait") \subseteq Threads
          /\ \A u \in Asleep("silWait") : Retry[p[u]] = "setBusy"
      BY <1>6, <2>1
    <3>2. q \in Signal(p, Asleep("silWait"))
      BY <1>5, <2>2
    <3>. QED BY <1>7, <3>1, <3>2, SignalEffect
  <2>3. CASE ~InstanceLock
    BY <1>5, <1>7, <2>3
  <2>. QED BY <2>2, <2>3
<1>9. /\ pc' \in [Threads -> Places] /\ pc'[t] = l
      /\ \A u \in Threads \ {t} : pc'[u] = q[u]
  BY <1>5, <1>8
<1>10. CtxIs(x, ctxs[x].st, ctxs[x].ref_count, FALSE, ctxs[x].panicked,
             ctxs[x].is_initializing)
  BY <1>0, <1>1, <1>2 DEF Context, Shape
<1>11. ctxs' \in [Ctxs -> Context]
  <2>1. \A f \in [Ctxs -> Context] :
          [f EXCEPT ![x].busy = FALSE] \in [Ctxs -> Context]
    BY DEF Context
  <2>. QED BY <1>0, <1>1, <1>2, <2>1 DEF Shape
<1>12. /\ \A u \in Threads \ {t} :
            \/ pc'[u] = pc[u]
            \/ u \in BusyWaiters(x) \cup Asleep("silWait") /\ pc'[u] = "setBusy"
       /\ BusyWaiters(x) # {} => \E u \in BusyWaiters(x) : pc'[u] = "setBusy"
       /\ InstanceLock /\ Asleep("silWait") # {} =>
            \E u \in Asleep("silWait") : pc'[u] = "setBusy"
  BY <1>6, <1>7, <1>8, <1>9
<1>13. Moves(t, l)
  BY <1>1, <1>9
<1>14. Leaves(t, x)
  BY <1>1, <1>2, <1>3, <1>10, <1>12, <1>13 DEF Leaves, At
<1>15. Shape'
  BY <1>0, <1>1, <1>9, <1>11 DEF Shape
<1>. QED BY <1>14, <1>15 DEF DoesRun

LEMMA ReturnedDoes ==
  ASSUME Inv, NEW t \in Threads, Returned(t)
  PROVE  Shape' /\ DoesRun(t)
<1>0. Shape
  BY DEF Inv
<1>1. PICK o \in Calls, l \in Places :
        /\ o = IF op[t] = "open" /\ (ctxs[c[t]].panicked \/ ~res[t])
                 THEN "abort" ELSE op[t]
        /\ l = IF op[t] = "invoke" /\ ctxs[c[t]].panicked THEN "destroyCtx"
                                                          ELSE "put"
  BY <1>0 DEF Shape
<1>2. /\ At(t, "returned") /\ Goto(t, l)
      /\ op' = [op EXCEPT ![t] = o]
      /\ UNCHANGED <<ta, sess, ctxs, sil, known, s, c, entered, res, halted>>
  BY <1>0, <1>1 DEF Returned, Shape
<1>3. Me(t, l, o, s[t], c[t], entered[t], res[t]) /\ Still(t)
  BY <1>0, <1>2 DEF Goto, Shape
<1>4. Returns(t, o, l)
  BY <1>1, <1>2, <1>3 DEF Returns, At
<1>5. Shape'
  BY <1>0, <1>2 DEF Goto, Shape
<1>. QED BY <1>4, <1>5 DEF DoesRun

LEMMA UnlinkTurnDoes ==
  ASSUME Inv, NEW t \in Threads, pc[t] \in {"unlink", "unlinkTurn"}, NEW p,
         p = [u \in Threads |-> IF pc[t] = "unlink" /\ u \in LockWaiters(s[t])
                                  THEN "lock" ELSE pc[u]],
         UnlinkTurn(t, p)
  PROVE  Shape' /\ DoesEnd(t)
<1>0. Shape /\ Located
  BY DEF Inv
<1>1. UNCHANGED <<ta, ctxs, sil, known, op, s, c, entered, res, halted>>
  BY DEF UnlinkTurn
<1>2. PICK n \in Sess : n = s[t]
  BY <1>0 DEF Located
<1>3. ASSUME NEW l \in Places, pc' = [p EXCEPT ![t] = l]
      PROVE  Moves(t, l) /\ LockersTold(t, n) /\ pc' \in [Threads -> Places]
  <2>1. p \in [Threads -> Places]
    BY <1>0 DEF Shape
  <2>. QED BY <1>1, <1>2, <1>3, <2>1 DEF LockersTold
<1>4. sess[n] \in Session
  BY <1>0 DEF Shape
<1>5. CASE sess[n].ref_count # 1
  <2>1. /\ sess' = [sess EXCEPT ![n].unlink = TRUE, ![n].st = sess[n].st]
        /\ pc' = [p EXCEPT ![t] = "refcWait"]
    BY <1>0, <1>2, <1>4, <1>5 DEF UnlinkTurn, Shape, Session
  <2>2. SessIs(n, sess[n].st, sess[n].ref_count, sess[n].lock_thread, TRUE,
               sess[n].ctx)
    BY <1>0, <1>4, <2>1 DEF Session, Shape
  <2>3. sess' \in [Sess -> Session]
    <3>1. \A f \in [Sess -> Session] :
            [f EXCEPT ![n].unlink = TRUE] \in [Sess -> Session]
      BY DEF Session
    <3>2. sess[n].st \in {"none", "listed", "freed"}
      BY <1>4 DEF Session
    <3>3. \A f \in [Sess -> Session] :
            [f EXCEPT ![n].st = sess[n].st] \in [Sess -> Session]
      BY <3>2 DEF Session
    <3>. QED BY <1>0, <2>1, <3>1, <3>3 DEF Shape
  <2>4. Moves(t, "refcWait") /\ LockersTold(t, n) /\ pc' \in [Threads -> Places]
    BY <1>3, <2>1
  <2>5. UnlinkWaits(t, n)
    BY <1>1, <1>2, <1>5, <2>2, <2>4 DEF UnlinkWaits
  <2>6. Shape'
    BY <1>0, <1>1, <2>3, <2>4 DEF Shape
  <2>. QED BY <2>5, <2>6 DEF DoesEnd
<1>6. CASE sess[n].ref_count = 1
  <2>1. PICK l \in Places : l = IF entered[t] THEN "clearBusy"
                                ELSE IF c[t] # None THEN "drop" ELSE Closed(t)
    BY DEF Closed
  <2>2. /\ sess' = [sess EXCEPT ![n].unlink = TRUE, ![n].st = "freed"]
        /\ pc' = [p EXCEPT ![t] = l]
    BY <1>0, <1>2, <1>4, <1>6, <2>1 DEF UnlinkTurn, Shape, Session
  <2>3. SessIs(n, "freed", sess[n].ref_count, sess[n].lock_thread, TRUE,
               sess[n].ctx)
    BY <1>0, <1>4, <2>2 DEF Session, Shape
  <2>4. sess' \in [Sess -> Session]
    <3>1. \A f \in [Sess -> Session] :
            [f EXCEPT ![n].unlink = TRUE] \in [Sess -> Session]
      BY DEF Session
    <3>2. \A f \in [Sess -> Session] :
            [f EXCEPT ![n].st = "freed"] \in [Sess -> Session]
      BY DEF Session
    <3>. QED BY <1>0, <2>2, <3>1, <3>2 DEF Shape
  <2>5. Moves(t, l) /\ LockersTold(t, n) /\ pc' \in [Threads -> Places]
    BY <1>3, <2>2
  <2>6. \/ entered[t] /\ l = "clearBusy"
        \/ ~entered[t] /\ c[t] # None /\ l = "drop"
        \/ ~entered[t] /\ c[t] = None /\ EndsAt(t, l)
    BY <2>1 DEF Closed, EndsAt
  <2>7. Unlinks(t, n, l)
    BY <1>1, <1>2, <1>6, <2>3, <2>5, <2>6 DEF Unlinks
  <2>8. Shape'
    BY <1>0, <1>1, <2>4, <2>5 DEF Shape
  <2>. QED BY <2>7, <2>8 DEF DoesEnd
<1>. QED BY <1>5, <1>6

LEMMA UnlinkDoes ==
  ASSUME Inv, NEW t \in Threads, Unlink(t)
  PROVE  Shape' /\ DoesEnd(t)
<1>1. pc[t] = "unlink" /\ UnlinkTurn(t, Broadcast(pc, LockWaiters(s[t])))
  BY DEF Unlink, At
<1>2. \A u \in LockWaiters(s[t]) : Retry[pc[u]] = "lock"
  BY DEF LockWaiters, Retry
<1>3. Broadcast(pc, LockWaiters(s[t])) =
        [u \in Threads |-> IF pc[t] = "unlink" /\ u \in LockWaiters(s[t])
                             THEN "lock" ELSE pc[u]]
  BY <1>1, <1>2 DEF Broadcast
<1>. QED BY <1>1, <1>3, UnlinkTurnDoes

LEMMA UnlinkAgainDoes ==
  ASSUME Inv, NEW t \in Threads, UnlinkAgain(t)
  PROVE  Shape' /\ DoesEnd(t)
<1>1. pc[t] = "unlinkTurn" /\ UnlinkTurn(t, pc)
  BY DEF UnlinkAgain, At
<1>2. pc = [u \in Threads |-> IF pc[t] = "unlink" /\ u \in LockWaiters(s[t])
                                THEN "lock" ELSE pc[u]]
  BY <1>1 DEF Inv, Shape
<1>. QED BY <1>1, <1>2, UnlinkTurnDoes

LEMMA DropContextDoes ==
  ASSUME Inv, NEW t \in Threads, DropContext(t)
  PROVE  Shape' /\ DoesEnd(t)
<1>0. Shape /\ Located
  BY DEF Inv
<1>1. /\ At(t, "drop") /\ ctxs[c[t]].ref_count > 0
      /\ UNCHANGED <<ta, sess, sil, known, op, s, c, entered, res, halted>>
  BY DEF DropContext
<1>2. PICK x \in Ctxs : x = c[t]
  BY <1>0, <1>1 DEF At, Located, HasContext
<1>3. ctxs[x] \in Context /\ ctxs[x].ref_count - 1 \in Nat
  BY <1>0, <1>1, <1>2 DEF Shape, Context
<1>4. Dropped(x) \in Context
  BY <1>3 DEF Dropped, Context
<1>5. PICK l \in Places : l = IF Goes(x) THEN "freeCtx" ELSE Closed(t)
  BY DEF Closed
<1>6. Goto(t, l)
  BY <1>2, <1>5 DEF DropContext
<1>7. Moves(t, l) /\ Still(t) /\ pc' \in [Threads -> Places]
  BY <1>0, <1>1, <1>6, GotoMoves
<1>8. PICK a \in {"none", "listed", "unlisted", "freed"} :
        /\ \/ ctxs[x].ref_count = 1 /\ a = "unlisted" /\ l = "freeCtx"
           \/ a = ctxs[x].st /\ EndsAt(t, l)
        /\ CtxIs(x, a, ctxs[x].ref_count - 1, ctxs[x].busy, ctxs[x].panicked,
                 ctxs[x].is_initializing)
        /\ ctxs' \in [Ctxs -> Context]
  <2>1. CASE Goes(x)
    <3>1. ctxs' = [ctxs EXCEPT ![x] = [Dropped(x) EXCEPT !.st = "unlisted"]]
      BY <1>2, <2>1 DEF DropContext
    <3>2. [Dropped(x) EXCEPT !.st = "unlisted"] \in Context
      BY <1>4 DEF Context
    <3>3. CtxIs(x, "unlisted", ctxs[x].ref_count - 1, ctxs[x].busy,
                ctxs[x].panicked, ctxs[x].is_initializing)
      BY <1>0, <1>3, <3>1 DEF Dropped, Shape, Context
    <3>. QED BY <1>0, <1>5, <2>1, <3>1, <3>2, <3>3 DEF Goes, Shape
  <2>2. CASE ~Goes(x)
    <3>1. ctxs' = [ctxs EXCEPT ![x] = Dropped(x)]
      BY <1>2, <2>2 DEF DropContext
    <3>2. CtxIs(x, ctxs[x].st, ctxs[x].ref_count - 1, ctxs[x].busy,
                ctxs[x].panicked, ctxs[x].is_initializing)
      BY <1>0, <1>3, <3>1 DEF Dropped, Shape, Context
    <3>3. ctxs[x].st \in {"none", "listed", "unlisted", "freed"}
      BY <1>3 DEF Context
    <3>4. EndsAt(t, l)
      BY <1>5, <2>2 DEF EndsAt, Closed
    <3>5. ctxs' \in [Ctxs -> Context]
      BY <1>0, <1>4, <3>1 DEF Shape
    <3>. QED BY <3>2, <3>3, <3>4, <3>5
  <2>. QED BY <2>1, <2>2
<1>9. Drops(t, x, a, l)
  BY <1>1, <1>2, <1>7, <1>8 DEF Drops, At
<1>10. Shape'
  BY <1>0, <1>1, <1>7, <1>8 DEF Shape
<1>. QED BY <1>9, <1>10 DEF DoesEnd

LEMMA DestroyContextDoes ==
  ASSUME Inv, NEW t \in Threads, DestroyContext(t)
  PROVE  Shape' /\ DoesEnd(t)
<1>0. Shape /\ Located
  BY DEF Inv
<1>1. /\ At(t, "destroyCtx") /\ CountsRefs(s[t]) /\ Goto(t, "freeCtx")
      /\ sess' = [m \in Sess |-> IF m \in Others(s[t])
                                   THEN [sess[m] EXCEPT !.ctx = None]
                                   ELSE sess[m]]
      /\ ctxs' = [ctxs EXCEPT ![sess[s[t]].ctx].st = "unlisted"]
      /\ UNCHANGED <<ta, sil, known, op, s, c, entered, res, halted>>
  BY DEF DestroyContext
<1>2. PICK n \in Sess : n = s[t]
  BY <1>0, <1>1 DEF At, Located
<1>3. PICK x \in Ctxs : x = sess[n].ctx
  BY <1>0, <1>1, <1>2 DEF CountsRefs, Shape, Session
<1>4. /\ CtxIs(x, "unlisted", ctxs[x].ref_count, ctxs[x].busy, ctxs[x].panicked,
               ctxs[x].is_initializing)
      /\ ctxs' \in [Ctxs -> Context]
  BY <1>0, <1>1, <1>2, <1>3 DEF Context, Shape
<1>5. ASSUME NEW m \in Sess
      PROVE  /\ sess'[m] \in Session
             /\ sess'[m].st = sess[m].st
             /\ sess'[m].ref_count = sess[m].ref_count
             /\ sess'[m].lock_thread = sess[m].lock_thread
             /\ sess'[m].unlink = sess[m].unlink
             /\ sess'[m].ctx \in {sess[m].ctx, None}
             /\ sess[m].ctx # x => sess'[m].ctx = sess[m].ctx
  <2>1. sess[m] \in Session
    BY <1>0 DEF Shape
  <2>2. CASE m \in Others(n)
    <3>1. sess'[m] = [sess[m] EXCEPT !.ctx = None] /\ sess[m].ctx = x
      BY <1>1, <1>2, <1>3, <2>2 DEF Others
    <3>. QED BY <2>1, <3>1 DEF Session
  <2>3. CASE m \notin Others(n)
    BY <1>1, <1>2, <2>1, <2>3
  <2>. QED BY <2>2, <2>3
<1>6. sess' \in [Sess -> Session]
  BY <1>1, <1>5
<1>7. Moves(t, "freeCtx") /\ Still(t) /\ pc' \in [Threads -> Places]
  BY <1>0, <1>1, GotoMoves
<1>8. Destroys(t, n, x)
  BY <1>1, <1>2, <1>3, <1>4, <1>5, <1>7 DEF Destroys, At
<1>9. Shape'
  BY <1>0, <1>1, <1>4, <1>6, <1>7 DEF Shape
<1>. QED BY <1>8, <1>9 DEF DoesEnd

LEMMA FreeContextDoes ==
  ASSUME Inv, NEW t \in Threads, FreeContext(t)
  PROVE  Shape' /\ DoesEnd(t)
<1>0. Shape /\ Located
  BY DEF Inv
<1>1. /\ At(t, "freeCtx") /\ ctxs' = [ctxs EXCEPT ![c[t]].st = "freed"]
      /\ UNCHANGED <<ta, sil, known, op, s, c, entered, res, halted>>
  BY DEF FreeContext
<1>2. PICK n \in Sess, x \in Ctxs : n = s[t] /\ x = c[t]
  BY <1>0, <1>1 DEF At, Located, HasContext
<1>3. /\ CtxIs(x, "freed", ctxs[x].ref_count, ctxs[x].busy, ctxs[x].panicked,
               ctxs[x].is_initializing)
      /\ ctxs' \in [Ctxs -> Context]
  BY <1>0, <1>1, <1>2 DEF Context, Shape
<1>4. CASE op[t] = "invoke"
  <2>1. Goto(t, "put") /\ sess' = [sess EXCEPT ![n].ctx = None]
    BY <1>2, <1>4 DEF FreeContext
  <2>2. Moves(t, "put") /\ Still(t) /\ pc' \in [Threads -> Places]
    BY <1>0, <1>1, <2>1, GotoMoves
  <2>3. /\ SessIs(n, sess[n].st, sess[n].ref_count, sess[n].lock_thread,
                  sess[n].unlink, None)
        /\ sess' \in [Sess -> Session]
    BY <1>0, <2>1 DEF Session, Shape
  <2>4. FreesInvoke(t, n, x)
    BY <1>1, <1>2, <1>3, <1>4, <2>2, <2>3 DEF FreesInvoke, FreesOf, At
  <2>5. Shape'
    BY <1>0, <1>1, <1>3, <2>2, <2>3 DEF Shape
  <2>. QED BY <2>4, <2>5 DEF DoesEnd
<1>5. CASE op[t] # "invoke"
  <2>1. PICK l \in Places : l = Closed(t)
    BY DEF Closed
  <2>2. Goto(t, l) /\ sess' = sess /\ EndsAt(t, l)
    BY <1>5, <2>1 DEF FreeContext, EndsAt, Closed
  <2>3. Moves(t, l) /\ Still(t) /\ pc' \in [Threads -> Places]
    BY <1>0, <1>1, <2>2, GotoMoves
  <2>4. FreesClose(t, x, l)
    BY <1>1, <1>2, <1>3, <1>5, <2>2, <2>3 DEF FreesClose, FreesOf, At
  <2>5. Shape'
    BY <1>0, <1>1, <1>3, <2>2, <2>3 DEF Shape
  <2>. QED BY <2>4, <2>5 DEF DoesEnd
<1>. QED BY <1>4, <1>5

LEMMA NextDoes ==
  ASSUME Inv, [Next]_vars
  PROVE  Halts \/ \E t \in Threads : Shape' /\ Does(t)
<1>1. CASE UNCHANGED vars
  <2>1. halted' \in BOOLEAN
    BY <1>1 DEF vars, Inv, Shape
  <2>. QED BY <1>1, <2>1 DEF vars, Halts
<1>2. ASSUME NEW t \in Threads, Call(t)
      PROVE  Shape' /\ Does(t)
  BY <1>2, OpenSessionDoes, InvokeCommandDoes, CloseSessionDoes DEF Call, Does
<1>3. ASSUME NEW t \in Threads, Step(t), ~Fault(t)
      PROVE  Shape' /\ Does(t)
  BY <1>3, FindAgainDoes, LoadDoes, LoadedDoes, InitFailsDoes,
     CloseGetsDoes, LockTurnDoes, PutSessionDoes, TellDoes,
     OpenedDeadDoes, CheckDoes, SetBusyDoes, RunTaDoes, ClearBusyDoes,
     ReturnedDoes, UnlinkDoes, UnlinkAgainDoes, DropContextDoes,
     DestroyContextDoes, FreeContextDoes DEF Step, Does
<1>4. ASSUME NEW t \in Threads, Fault(t)
      PROVE  Halts
  BY <1>4 DEF Fault, Halts
<1>. QED BY <1>1, <1>2, <1>3, <1>4 DEF Next, Step

-----------------------------------------------------------------------------
(***************************************************************************)
(* What a step of thread t may do to the references of a session m, and to *)
(* those of a context y, without losing count.                             *)
(***************************************************************************)
RefsMove(t, m) ==
  \/ Refs(m)' \subseteq Refs(m) /\ sess'[m].ref_count = sess[m].ref_count
  \/ /\ Refs(m)' \subseteq Refs(m) \cup {t}
     /\ sess'[m].ref_count = sess[m].ref_count + 1
  \/ /\ t \in Refs(m) /\ Refs(m)' \subseteq Refs(m) \ {t}
     /\ sess'[m].ref_count = sess[m].ref_count - 1
  \/ Refs(m)' \subseteq {t} /\ sess'[m].ref_count = 1

CountMoves(t, n, y) ==
  \/ ctxs'[y].st # "listed"
  \/ /\ ctxs[y].st = "listed" /\ ctxs'[y].ref_count = ctxs[y].ref_count
     /\ SessOf(y)' \subseteq SessOf(y) /\ DropsOf(y)' \subseteq DropsOf(y)
  \/ /\ ctxs[y].st = "listed" /\ ctxs'[y].ref_count = ctxs[y].ref_count + 1
     /\ SessOf(y)' \subseteq SessOf(y) \cup {n} /\ DropsOf(y)' \subseteq DropsOf(y)
  \/ /\ ctxs[y].st = "listed" /\ ctxs'[y].ref_count = ctxs[y].ref_count
     /\ n \in SessOf(y) /\ SessOf(y)' \subseteq SessOf(y) \ {n}
     /\ DropsOf(y)' \subseteq DropsOf(y) \cup {t}
  \/ /\ ctxs[y].st = "listed" /\ ctxs'[y].ref_count = ctxs[y].ref_count - 1
     /\ t \in DropsOf(y) /\ DropsOf(y)' \subseteq DropsOf(y) \ {t}
     /\ SessOf(y)' \subseteq SessOf(y)
  \/ /\ ctxs'[y].ref_count = 1
     /\ SessOf(y)' \subseteq {n} /\ DropsOf(y)' = {}

LEMMA SubsetCount ==
  ASSUME NEW A, NEW B, IsFiniteSet(B), A \subseteq B
  PROVE  IsFiniteSet(A) /\ Cardinality(A) \in Nat /\ Cardinality(B) \in Nat
         /\ Cardinality(A) <= Cardinality(B)
BY FS_Subset, FS_CardinalityType

LEMMA MoreCount ==
  ASSUME NEW A, NEW B, NEW e, IsFiniteSet(B), A \subseteq B \cup {e}
  PROVE  IsFiniteSet(A) /\ Cardinality(A) \in Nat /\ Cardinality(B) \in Nat
         /\ Cardinality(A) <= Cardinality(B) + 1
<1>1. Cardinality(B) \in Nat
  BY FS_CardinalityType
<1>2. /\ IsFiniteSet(B \cup {e})
      /\ \/ Cardinality(B \cup {e}) = Cardinality(B)
         \/ Cardinality(B \cup {e}) = Cardinality(B) + 1
  BY FS_AddElement
<1>3. Cardinality(A) <= Cardinality(B \cup {e}) /\ Cardinality(A) \in Nat
      /\ IsFiniteSet(A)
  BY <1>2, SubsetCount
<1>. QED BY <1>1, <1>2, <1>3

LEMMA LessCount ==
  ASSUME NEW A, NEW B, NEW e \in B, IsFiniteSet(B), A \subseteq B \ {e}
  PROVE  IsFiniteSet(A) /\ Cardinality(A) \in Nat /\ Cardinality(B) \in Nat
         /\ Cardinality(A) <= Cardinality(B) - 1
<1>1. Cardinality(B) \in Nat
  BY FS_CardinalityType
<1>2. /\ IsFiniteSet(B \ {e})
      /\ Cardinality(B \ {e}) = Cardinality(B) - 1
  BY FS_RemoveElement
<1>3. Cardinality(A) <= Cardinality(B \ {e}) /\ Cardinality(A) \in Nat
      /\ IsFiniteSet(A)
  BY <1>2, SubsetCount
<1>. QED BY <1>1, <1>2, <1>3

LEMMA OneCount ==
  ASSUME NEW A, NEW e, A \subseteq {e}
  PROVE  IsFiniteSet(A) /\ Cardinality(A) \in Nat /\ Cardinality(A) <= 1
<1>1. IsFiniteSet({e}) /\ Cardinality({e}) = 1
  BY FS_Singleton
<1>. QED BY <1>1, SubsetCount

LEMMA FiniteCounts ==
  /\ \A n : IsFiniteSet(Refs(n))
  /\ \A x : IsFiniteSet(SessOf(x)) /\ IsFiniteSet(DropsOf(x))
<1>1. IsFiniteSet(Threads) /\ IsFiniteSet(Sess)
  BY TaManagerAssumption, FS_Interval DEF Sess
<1>2. ASSUME NEW n PROVE IsFiniteSet(Refs(n))
  <2>1. Refs(n) \subseteq Threads BY DEF Refs
  <2>. QED BY <1>1, <2>1, FS_Subset
<1>3. ASSUME NEW x PROVE IsFiniteSet(SessOf(x))
  <2>1. SessOf(x) \subseteq Sess BY DEF SessOf
  <2>. QED BY <1>1, <2>1, FS_Subset
<1>4. ASSUME NEW x PROVE IsFiniteSet(DropsOf(x))
  <2>1. DropsOf(x) \subseteq Threads BY DEF DropsOf
  <2>. QED BY <1>1, <2>1, FS_Subset
<1>. QED BY <1>2, <1>3, <1>4

LEMMA RefsKept ==
  ASSUME Shape, SessionRefs, Shape', NEW t,
         \A m \in Sess : RefsMove(t, m)
  PROVE  SessionRefs'
<1>. SUFFICES ASSUME NEW m \in Sess
     PROVE  sess'[m].ref_count >= Cardinality(Refs(m)')
  BY DEF SessionRefs
<1>1. RefsMove(t, m) /\ sess[m].ref_count >= Cardinality(Refs(m))
  BY DEF SessionRefs
<1>2. sess[m].ref_count \in Int /\ sess'[m].ref_count \in Int
  BY DEF Shape, Session
<1>3. IsFiniteSet(Refs(m))
  BY FiniteCounts
<1>4. CASE Refs(m)' \subseteq Refs(m) /\ sess'[m].ref_count = sess[m].ref_count
  BY <1>1, <1>2, <1>3, <1>4, SubsetCount
<1>5. CASE /\ Refs(m)' \subseteq Refs(m) \cup {t}
           /\ sess'[m].ref_count = sess[m].ref_count + 1
  <2>1. /\ Cardinality(Refs(m)') <= Cardinality(Refs(m)) + 1
        /\ Cardinality(Refs(m)') \in Nat /\ Cardinality(Refs(m)) \in Nat
    BY <1>3, <1>5, MoreCount
  <2>. QED BY <1>1, <1>2, <1>5, <2>1
<1>6. CASE /\ t \in Refs(m) /\ Refs(m)' \subseteq Refs(m) \ {t}
           /\ sess'[m].ref_count = sess[m].ref_count - 1
  <2>1. /\ Cardinality(Refs(m)') <= Cardinality(Refs(m)) - 1
        /\ Cardinality(Refs(m)') \in Nat /\ Cardinality(Refs(m)) \in Nat
    BY <1>3, <1>6, LessCount
  <2>. QED BY <1>1, <1>2, <1>6, <2>1
<1>7. CASE Refs(m)' \subseteq {t} /\ sess'[m].ref_count = 1
  BY <1>2, <1>7, OneCount
<1>. QED BY <1>1, <1>4, <1>5, <1>6, <1>7 DEF RefsMove

LEMMA CountsKept ==
  ASSUME Shape, Counted, Shape', NEW t, NEW n,
         \A y \in Ctxs : CountMoves(t, n, y)
  PROVE  Counted'
<1>. SUFFICES ASSUME NEW y \in Ctxs, ctxs'[y].st = "listed"
     PROVE  ctxs'[y].ref_count >= Cardinality(SessOf(y)') + Cardinality(DropsOf(y)')
  BY DEF Counted
<1>1. /\ CountMoves(t, n, y)
      /\ ctxs[y].st = "listed" =>
           ctxs[y].ref_count >= Cardinality(SessOf(y)) + Cardinality(DropsOf(y))
  BY DEF Counted
<1>2. ctxs[y].ref_count \in Nat /\ ctxs'[y].ref_count \in Nat
  BY DEF Shape, Context
<1>3. IsFiniteSet(SessOf(y)) /\ IsFiniteSet(DropsOf(y))
  BY FiniteCounts
<1>4. CASE /\ ctxs[y].st = "listed" /\ ctxs'[y].ref_count = ctxs[y].ref_count
           /\ SessOf(y)' \subseteq SessOf(y) /\ DropsOf(y)' \subseteq DropsOf(y)
  <2>1. /\ Cardinality(SessOf(y)') <= Cardinality(SessOf(y))
        /\ Cardinality(SessOf(y)') \in Nat /\ Cardinality(SessOf(y)) \in Nat
    BY <1>3, <1>4, SubsetCount
  <2>2. /\ Cardinality(DropsOf(y)') <= Cardinality(DropsOf(y))
        /\ Cardinality(DropsOf(y)') \in Nat /\ Cardinality(DropsOf(y)) \in Nat
    BY <1>3, <1>4, SubsetCount
  <2>. QED BY <1>1, <1>2, <1>4, <2>1, <2>2
<1>5. CASE /\ ctxs[y].st = "listed" /\ ctxs'[y].ref_count = ctxs[y].ref_count + 1
           /\ SessOf(y)' \subseteq SessOf(y) \cup {n} /\ DropsOf(y)' \subseteq DropsOf(y)
  <2>1. /\ Cardinality(SessOf(y)') <= Cardinality(SessOf(y)) + 1
        /\ Cardinality(SessOf(y)') \in Nat /\ Cardinality(SessOf(y)) \in Nat
    BY <1>3, <1>5, MoreCount
  <2>2. /\ Cardinality(DropsOf(y)') <= Cardinality(DropsOf(y))
        /\ Cardinality(DropsOf(y)') \in Nat /\ Cardinality(DropsOf(y)) \in Nat
    BY <1>3, <1>5, SubsetCount
  <2>. QED BY <1>1, <1>2, <1>5, <2>1, <2>2
<1>6. CASE /\ ctxs[y].st = "listed" /\ ctxs'[y].ref_count = ctxs[y].ref_count
           /\ n \in SessOf(y) /\ SessOf(y)' \subseteq SessOf(y) \ {n}
           /\ DropsOf(y)' \subseteq DropsOf(y) \cup {t}
  <2>1. /\ Cardinality(SessOf(y)') <= Cardinality(SessOf(y)) - 1
        /\ Cardinality(SessOf(y)') \in Nat /\ Cardinality(SessOf(y)) \in Nat
    BY <1>3, <1>6, LessCount
  <2>2. /\ Cardinality(DropsOf(y)') <= Cardinality(DropsOf(y)) + 1
        /\ Cardinality(DropsOf(y)') \in Nat /\ Cardinality(DropsOf(y)) \in Nat
    BY <1>3, <1>6, MoreCount
  <2>. QED BY <1>1, <1>2, <1>6, <2>1, <2>2
<1>7. CASE /\ ctxs[y].st = "listed" /\ ctxs'[y].ref_count = ctxs[y].ref_count - 1
           /\ t \in DropsOf(y) /\ DropsOf(y)' \subseteq DropsOf(y) \ {t}
           /\ SessOf(y)' \subseteq SessOf(y)
  <2>1. /\ Cardinality(SessOf(y)') <= Cardinality(SessOf(y))
        /\ Cardinality(SessOf(y)') \in Nat /\ Cardinality(SessOf(y)) \in Nat
    BY <1>3, <1>7, SubsetCount
  <2>2. /\ Cardinality(DropsOf(y)') <= Cardinality(DropsOf(y)) - 1
        /\ Cardinality(DropsOf(y)') \in Nat /\ Cardinality(DropsOf(y)) \in Nat
    <3>1. t \in DropsOf(y) /\ DropsOf(y)' \subseteq DropsOf(y) \ {t}
      BY <1>7
    <3>. QED BY <1>3, <3>1, LessCount
  <2>. QED BY <1>1, <1>2, <1>7, <2>1, <2>2
<1>8. CASE /\ ctxs'[y].ref_count = 1
           /\ SessOf(y)' \subseteq {n} /\ DropsOf(y)' = {}
  <2>1. Cardinality(SessOf(y)') \in Nat /\ Cardinality(SessOf(y)') <= 1
    BY <1>8, OneCount
  <2>2. Cardinality(DropsOf(y)') = 0
    BY <1>8, FS_EmptySet
  <2>. QED BY <1>2, <1>8, <2>1, <2>2
<1>. QED BY <1>1, <1>4, <1>5, <1>6, <1>7, <1>8 DEF CountMoves

(***************************************************************************)
(* The last reference is the unlinking thread's own.                       *)
(***************************************************************************)
LEMMA SoleRef ==
  ASSUME Inv, NEW t \in Threads, NEW n \in Sess, HoldsRef(t), s[t] = n,
         sess[n].ref_count = 1
  PROVE  \A u \in Threads \ {t} : ~(HoldsRef(u) /\ s[u] = n)
<1>. SUFFICES ASSUME NEW u \in Threads \ {t}, HoldsRef(u), s[u] = n
     PROVE  FALSE
  OBVIOUS
<1>1. t \in Refs(n) /\ u \in Refs(n)
  BY DEF Refs
<1>2. {u} \subseteq Refs(n) \ {t}
  BY <1>1
<1>3. Cardinality({u}) = 1
  BY FS_Singleton
<1>4. /\ Cardinality({u}) <= Cardinality(Refs(n)) - 1
      /\ Cardinality(Refs(n)) \in Nat
  BY <1>1, <1>2, FiniteCounts, LessCount
<1>5. sess[n].ref_count >= Cardinality(Refs(n))
  BY DEF Inv, SessionRefs
<1>. QED BY <1>3, <1>4, <1>5

-----------------------------------------------------------------------------
(***************************************************************************)
(* Every step keeps the invariant.                                         *)
(***************************************************************************)
USE DEF Inv, Shape

LEMMA KeepStartsOpen ==
  ASSUME NEW t \in Threads, NEW n \in Sess, NEW l \in Places,
         Inv, Shape', StartsOpen(t, n, l)
  PROVE  Inv'
<1>. USE DEF StartsOpen, SeekTo
<1>1. Ops' /\ Located' /\ Linked' /\ Fresh'
  BY DEF Ops, Located, Linked, Fresh, HasContext
<1>2. Locked'
  BY DEF Locked, HoldsLock, Ops, Located, Fresh
<1>3. Busy' /\ OneCallInTa'
  BY DEF Busy, OneCallInTa, Inside, InstanceLock, Located, HasContext, Ops
<1>4. Sleepers' /\ SilHeard' /\ InitHeard'
  BY DEF Sleepers, SilHeard, InitHeard, InstanceLock, Located, HasContext
<1>5. BusyHeard'
  BY DEF BusyHeard, Sleepers, InstanceLock, Located, HasContext
<1>6. LockHeard'
  BY DEF LockHeard, Sleepers, Located, Fresh
<1>7. Referred'
  BY DEF Referred, HoldsRef, Openers, Opens, Located, Ops
<1>8. Openers'
  BY DEF Openers, Opens, Located, Fresh, Ops, HoldsRef
<1>9. Freed'
  BY DEF Freed, Leaving, Ops, Located, HasContext
<1>10. SessionRefs'
  <2>. SUFFICES ASSUME NEW m \in Sess PROVE RefsMove(t, m)
    BY RefsKept
  <2>. QED
    BY DEF RefsMove, Refs, HoldsRef, Located, Ops
<1>11. Users'
  BY DEF Users, Using, Referred, HoldsRef, Locked, HoldsLock, Openers, Opens,
     Located, Fresh, Ops, HasContext
<1>12. Counted'
  <2>. SUFFICES ASSUME NEW y \in Ctxs PROVE CountMoves(t, n, y)
    BY CountsKept
  <2>. QED
    BY DEF CountMoves, SessOf, DropsOf, Leaving, Located, Linked, Fresh,
       Openers, Opens, Users, Using, HoldsRef, Ops, HasContext
<1>13. OneSession'
  BY DEF OneSession, Located, HasContext, Context
<1>. QED
  BY <1>1, <1>2, <1>3, <1>4, <1>5, <1>6, <1>7, <1>8, <1>9, <1>10, <1>11, <1>12,
     <1>13

LEMMA KeepStartsShared ==
  ASSUME NEW t \in Threads, NEW n \in Sess, NEW x \in Ctxs,
         Inv, Shape', StartsShared(t, n, x)
  PROVE  Inv'
<1>. USE DEF StartsShared, Shares
<1>1. Ops'
  BY DEF Ops
<1>2. Located'
  <2>1. /\ \A u \in Threads :
             /\ pc'[u] # "idle" => s'[u] \in Sess /\ sess'[s'[u]].st # "none"
             /\ HasContext(u)' => c'[u] \in Ctxs
             /\ pc'[u] \in {"inTA", "clearBusy"} => entered'[u]
        /\ \A m \in known' : sess'[m].st # "none"
    BY DEF Located, HasContext, Ops
  <2>2. \A u \in Threads : c'[u] \in Ctxs => ctxs'[c'[u]].st # "none"
    BY DEF Located
  <2>. QED BY <2>1, <2>2 DEF Located
<1>3. Linked'
  BY DEF Linked, Located, HasContext
<1>4. Fresh'
  BY DEF Fresh, Located
<1>5. Locked'
  BY DEF Locked, HoldsLock, Ops, Located, Fresh
<1>6. Busy'
  <2>. SUFFICES ASSUME NEW u \in Threads, Inside(u)'
       PROVE  ctxs'[c'[u]].busy /\ (InstanceLock' => sil' = u)
    BY DEF Busy
  <2>1. u # t /\ Inside(u) /\ c'[u] = c[u]
    BY DEF Inside
  <2>2. c[u] \in Ctxs
    BY <2>1 DEF Inside, Located, HasContext
  <2>3. ctxs[c[u]].busy /\ (InstanceLock => sil = u)
    BY <2>1 DEF Busy
  <2>4. ctxs'[c[u]].busy = ctxs[c[u]].busy
    BY <2>2
  <2>. QED BY <2>1, <2>3, <2>4 DEF InstanceLock
<1>7. OneCallInTa'
  BY DEF OneCallInTa, Busy, Inside, InstanceLock, Located, HasContext
<1>8. Sleepers' /\ SilHeard' /\ InitHeard'
  BY DEF Sleepers, SilHeard, InitHeard, InstanceLock, Located, HasContext
<1>9. BusyHeard'
  BY DEF BusyHeard, Sleepers, InstanceLock, Located, HasContext
<1>10. LockHeard'
  BY DEF LockHeard, Sleepers, Located, Fresh
<1>11. Referred'
  BY DEF Referred, HoldsRef, Openers, Opens, Located, Ops
<1>12. Openers'
  BY DEF Openers, Opens, Located, Fresh, Ops, HoldsRef
<1>13. Freed'
  BY DEF Freed, Leaving, Ops, Located, HasContext
<1>14. SessionRefs'
  <2>. SUFFICES ASSUME NEW m \in Sess PROVE RefsMove(t, m)
    BY RefsKept
  <2>. QED
    BY DEF RefsMove, Refs, HoldsRef, Located, Ops
<1>15. Users'
  BY DEF Users, Using, Referred, HoldsRef, Locked, HoldsLock, Openers, Opens,
     Located, Fresh, Ops, HasContext
<1>16. Counted'
  <2>. SUFFICES ASSUME NEW y \in Ctxs PROVE CountMoves(t, n, y)
    BY CountsKept
  <2>1. DropsOf(y)' \subseteq DropsOf(y)
    BY DEF DropsOf, Leaving, Ops
  <2>2. SessOf(y)' \subseteq IF y = x THEN SessOf(y) \cup {n} ELSE SessOf(y)
    BY DEF SessOf, Fresh
  <2>. QED BY <2>1, <2>2 DEF CountMoves
<1>17. OneSession'
  BY DEF OneSession, Located, HasContext, Context
<1>. QED
  BY <1>1, <1>2, <1>3, <1>4, <1>5, <1>6, <1>7, <1>8, <1>9, <1>10, <1>11, <1>12,
     <1>13, <1>14, <1>15, <1>16, <1>17

LEMMA KeepSeeks ==
  ASSUME NEW t \in Threads, NEW l \in Places,
         Inv, Shape', Seeks(t, l)
  PROVE  Inv'
<1>. USE DEF Seeks, SeekTo
<1>1. Ops' /\ Located' /\ Linked' /\ Fresh'
  BY DEF Ops, Located, Linked, Fresh, HasContext
<1>2. Locked'
  BY DEF Locked, HoldsLock, Ops, Located, Fresh
<1>3. Busy' /\ OneCallInTa'
  BY DEF Busy, OneCallInTa, Inside, InstanceLock, Located, HasContext, Ops
<1>4. Sleepers' /\ SilHeard' /\ InitHeard'
  BY DEF Sleepers, SilHeard, InitHeard, InstanceLock, Located, HasContext
<1>5. BusyHeard'
  BY DEF BusyHeard, Sleepers, InstanceLock, Located, HasContext
<1>6. LockHeard'
  BY DEF LockHeard, Sleepers, Located, Fresh
<1>7. Referred' /\ Openers' /\ Freed'
  BY DEF Referred, Openers, Freed, HoldsRef, Opens, Located, Ops, Fresh,
     Leaving, HasContext
<1>8. SessionRefs'
  <2>. SUFFICES ASSUME NEW m \in Sess PROVE RefsMove(t, m)
    BY RefsKept
  <2>. QED
    BY DEF RefsMove, Refs, HoldsRef, Located, Ops
<1>9. Users'
  BY DEF Users, Using, Referred, HoldsRef, Locked, HoldsLock, Openers, Opens,
     Located, Fresh, Ops, HasContext
<1>10. Counted'
  <2>. SUFFICES ASSUME NEW y \in Ctxs PROVE CountMoves(t, None, y)
    BY CountsKept
  <2>. QED
    BY DEF CountMoves, SessOf, DropsOf, Leaving, Located, Linked, Fresh,
       Openers, Opens, Users, Using, HoldsRef, Ops, HasContext
<1>11. OneSession'
  BY DEF OneSession, Located, HasContext, Context
<1>. QED
  BY <1>1, <1>2, <1>3, <1>4, <1>5, <1>6, <1>7, <1>8, <1>9, <1>10, <1>11

LEMMA KeepJoins ==
  ASSUME NEW t \in Threads, NEW n \in Sess, NEW x \in Ctxs,
         Inv, Shape', Joins(t, n, x)
  PROVE  Inv'
<1>. USE DEF Joins, Shares
<1>1. Ops' /\ Located' /\ Linked' /\ Fresh'
  BY DEF Ops, Located, Linked, Fresh, HasContext
<1>2. Locked'
  BY DEF Locked, HoldsLock, Ops, Located, Fresh
<1>3. Busy' /\ OneCallInTa'
  BY DEF Busy, OneCallInTa, Inside, InstanceLock, Located, HasContext, Ops
<1>4. Sleepers' /\ SilHeard' /\ InitHeard'
  BY DEF Sleepers, SilHeard, InitHeard, InstanceLock, Located, HasContext
<1>5. BusyHeard'
  BY DEF BusyHeard, Sleepers, InstanceLock, Located, HasContext
<1>6. LockHeard'
  BY DEF LockHeard, Sleepers, Located, Fresh
<1>7. Referred' /\ Openers' /\ Freed'
  <2>1. Referred'
    BY SMTT(30) DEF Referred, HoldsRef, Openers, Opens, Located, Ops, Fresh,
                    HasContext
  <2>2. Openers'
    BY SMTT(30) DEF Openers, Opens, HoldsRef, Located, Ops, Fresh, HasContext
  <2>3. Freed'
    BY SMTT(30) DEF Freed, Opens, Located, Ops, Fresh, Leaving, HasContext
  <2>. QED BY <2>1, <2>2, <2>3
<1>8. SessionRefs'
  <2>. SUFFICES ASSUME NEW m \in Sess PROVE RefsMove(t, m)
    BY RefsKept
  <2>. QED
    BY DEF RefsMove, Refs, HoldsRef, Located, Ops
<1>9. Users'
  BY DEF Users, Using, Referred, HoldsRef, Locked, HoldsLock, Openers, Opens,
     Located, Fresh, Ops, HasContext
<1>10. Counted'
  <2>. SUFFICES ASSUME NEW y \in Ctxs PROVE CountMoves(t, n, y)
    BY CountsKept
  <2>. QED
    BY DEF CountMoves, SessOf, DropsOf, Leaving, Located, Linked, Fresh,
       Openers, Opens, Users, Using, HoldsRef, Ops, HasContext
<1>11. OneSession'
  BY DEF OneSession, Located, HasContext, Context
<1>. QED
  BY <1>1, <1>2, <1>3, <1>4, <1>5, <1>6, <1>7, <1>8, <1>9, <1>10, <1>11

LEMMA KeepLoads ==
  ASSUME NEW t \in Threads, NEW n \in Sess, NEW x \in Ctxs,
         Inv, Shape', Loads(t, n, x)
  PROVE  Inv'
<1>. USE DEF Loads
<1>1. Ops' /\ Located' /\ Linked' /\ Fresh'
  BY DEF Ops, Located, Linked, Fresh, HasContext
<1>2. Locked'
  BY DEF Locked, HoldsLock, Ops, Located, Fresh
<1>3. Busy'
  BY DEF Busy, Inside, InstanceLock, OneCallInTa, Located, HasContext, Ops
<1>4. OneCallInTa'
  BY DEF OneCallInTa, Busy, Inside, InstanceLock, Located, HasContext
<1>5. Sleepers' /\ SilHeard' /\ InitHeard'
  BY DEF Sleepers, SilHeard, InitHeard, InstanceLock, Located, HasContext
<1>6. BusyHeard'
  BY DEF BusyHeard, Sleepers, InstanceLock, Located, HasContext
<1>7. LockHeard'
  BY DEF LockHeard, Sleepers, Located, Fresh
<1>8. Referred' /\ Openers' /\ Freed'
  BY DEF Referred, Openers, Freed, HoldsRef, Opens, Located, Ops, Fresh,
     Leaving, HasContext
<1>9. SessionRefs'
  <2>. SUFFICES ASSUME NEW m \in Sess PROVE RefsMove(t, m)
    BY RefsKept
  <2>. QED
    BY DEF RefsMove, Refs, HoldsRef, Located, Ops
<1>10. Users'
  BY DEF Users, Using, Referred, HoldsRef, Locked, HoldsLock, Openers, Opens,
     Located, Fresh, Ops, HasContext
<1>11. Counted'
  <2>. SUFFICES ASSUME NEW y \in Ctxs PROVE CountMoves(t, n, y)
    BY CountsKept
  <2>. QED
    BY DEF CountMoves, SessOf, DropsOf, Leaving, Located, Linked, Fresh,
       Openers, Opens, Users, Using, HoldsRef, Ops, HasContext
<1>12. OneSession'
  BY DEF OneSession, Located, HasContext, Context
<1>. QED
  BY <1>1, <1>2, <1>3, <1>4, <1>5, <1>6, <1>7, <1>8, <1>9, <1>10, <1>11, <1>12

LEMMA KeepLoadRefused ==
  ASSUME NEW t \in Threads,
         Inv, Shape', LoadRefused(t)
  PROVE  Inv'
<1>. USE DEF LoadRefused
<1>1. Ops' /\ Located' /\ Linked' /\ Fresh'
  BY DEF Ops, Located, Linked, Fresh, HasContext
<1>2. Locked'
  BY DEF Locked, HoldsLock, Ops, Located, Fresh
<1>3. Busy' /\ OneCallInTa'
  BY DEF Busy, OneCallInTa, Inside, InstanceLock, Located, HasContext, Ops
<1>4. Sleepers' /\ SilHeard' /\ InitHeard'
  BY DEF Sleepers, SilHeard, InitHeard, InstanceLock, Located, HasContext
<1>5. BusyHeard'
  BY DEF BusyHeard, Sleepers, InstanceLock, Located, HasContext
<1>6. LockHeard'
  BY DEF LockHeard, Sleepers, Located, Fresh
<1>7. Referred' /\ Openers' /\ Freed'
  BY DEF Referred, Openers, Freed, HoldsRef, Opens, Located, Ops, Fresh,
     Leaving, HasContext
<1>8. SessionRefs'
  <2>. SUFFICES ASSUME NEW m \in Sess PROVE RefsMove(t, m)
    BY RefsKept
  <2>. QED
    BY DEF RefsMove, Refs, HoldsRef, Located, Ops
<1>9. Users'
  BY DEF Users, Using, Referred, HoldsRef, Locked, HoldsLock, Openers, Opens,
     Located, Fresh, Ops, HasContext
<1>10. Counted'
  <2>. SUFFICES ASSUME NEW y \in Ctxs PROVE CountMoves(t, None, y)
    BY CountsKept
  <2>. QED
    BY DEF CountMoves, SessOf, DropsOf, Leaving, Located, Linked, Fresh,
       Openers, Opens, Users, Using, HoldsRef, Ops, HasContext
<1>11. OneSession'
  BY DEF OneSession, Located, HasContext, Context
<1>. QED
  BY <1>1, <1>2, <1>3, <1>4, <1>5, <1>6, <1>7, <1>8, <1>9, <1>10, <1>11

LEMMA KeepLoadDone ==
  ASSUME NEW t \in Threads, NEW x \in Ctxs,
         Inv, Shape', LoadDone(t, x)
  PROVE  Inv'
<1>. USE DEF LoadDone, LoadersTold
<1>1. Ops' /\ Located' /\ Linked' /\ Fresh'
  BY DEF Ops, Located, Linked, Fresh, HasContext
<1>2. Locked'
  BY DEF Locked, HoldsLock, Ops, Located, Fresh
<1>3. Busy' /\ OneCallInTa'
  BY DEF Busy, OneCallInTa, Inside, InstanceLock, Located, HasContext, Ops
<1>4. Sleepers' /\ SilHeard' /\ InitHeard'
  BY DEF Sleepers, SilHeard, InitHeard, InstanceLock, Located, HasContext
<1>5. BusyHeard'
  BY DEF BusyHeard, Sleepers, InstanceLock, Located, HasContext
<1>6. LockHeard'
  BY DEF LockHeard, Sleepers, Located, Fresh
<1>7. Referred' /\ Openers' /\ Freed'
  BY DEF Referred, Openers, Freed, HoldsRef, Opens, Located, Ops, Fresh,
     Leaving, HasContext
<1>8. SessionRefs'
  <2>. SUFFICES ASSUME NEW m \in Sess PROVE RefsMove(t, m)
    BY RefsKept
  <2>. QED
    BY DEF RefsMove, Refs, HoldsRef, Located, Ops
<1>9. Users'
  BY DEF Users, Using, Referred, HoldsRef, Locked, HoldsLock, Openers, Opens,
     Located, Fresh, Ops, HasContext
<1>10. Counted'
  <2>. SUFFICES ASSUME NEW y \in Ctxs PROVE CountMoves(t, None, y)
    BY CountsKept
  <2>. QED
    BY DEF CountMoves, SessOf, DropsOf, Leaving, Located, Linked, Fresh,
       Openers, Opens, Users, Using, HoldsRef, Ops, HasContext
<1>11. OneSession'
  BY DEF OneSession, Located, HasContext, Context
<1>. QED
  BY <1>1, <1>2, <1>3, <1>4, <1>5, <1>6, <1>7, <1>8, <1>9, <1>10, <1>11

LEMMA KeepLoadFailed ==
  ASSUME NEW t \in Threads, NEW n \in Sess, NEW x \in Ctxs,
         Inv, Shape', LoadFailed(t, n, x)
  PROVE  Inv'
<1>. USE DEF LoadFailed, LoadersTold
<1>1. Ops'
  BY DEF Ops
<1>2. Located'
  BY DEF Located, HasContext, Linked, Ops
<1>3. Linked'
  BY DEF Linked, Located, HasContext
<1>4. Fresh'
  BY DEF Fresh, Located
<1>5. Locked'
  BY DEF Locked, HoldsLock, Ops, Located, Fresh
<1>6. Busy'
  BY DEF Busy, Inside, InstanceLock, OneCallInTa, Located, HasContext, Ops
<1>7. OneCallInTa'
  BY DEF OneCallInTa, Busy, Inside, InstanceLock, Located, HasContext
<1>8. Sleepers' /\ SilHeard' /\ InitHeard'
  BY DEF Sleepers, SilHeard, InitHeard, InstanceLock, Located, HasContext
<1>9. BusyHeard'
  BY DEF BusyHeard, Sleepers, InstanceLock, Located, HasContext
<1>10. LockHeard'
  BY DEF LockHeard, Sleepers, Located, Fresh
<1>11. Referred' /\ Openers' /\ Freed'
  BY DEF Referred, Openers, Freed, HoldsRef, Opens, Located, Ops, Fresh,
     Leaving, HasContext
<1>12. SessionRefs'
  <2>. SUFFICES ASSUME NEW m \in Sess PROVE RefsMove(t, m)
    BY RefsKept
  <2>. QED
    BY DEF RefsMove, Refs, HoldsRef, Located, Ops
<1>13. Users'
  BY DEF Users, Using, Referred, HoldsRef, Locked, HoldsLock, Openers, Opens,
     Located, Fresh, Ops, HasContext
<1>14. Counted'
  <2>. SUFFICES ASSUME NEW y \in Ctxs PROVE CountMoves(t, n, y)
    BY CountsKept
  <2>1. DropsOf(y)' \subseteq DropsOf(y)
    BY DEF DropsOf, Leaving, Ops
  <2>2. SessOf(y)' \subseteq SessOf(y)
    BY DEF SessOf
  <2>. QED BY <2>1, <2>2 DEF CountMoves
<1>15. OneSession'
  BY DEF OneSession, Located, HasContext, Context
<1>. QED
  BY <1>1, <1>2, <1>3, <1>4, <1>5, <1>6, <1>7, <1>8, <1>9, <1>10, <1>11, <1>12,
     <1>13, <1>14, <1>15

LEMMA KeepInitFailed ==
  ASSUME NEW t \in Threads, NEW n \in Sess,
         Inv, Shape', InitFailed(t, n)
  PROVE  Inv'
<1>. USE DEF InitFailed
<1>1. Ops' /\ Located' /\ Linked' /\ Fresh'
  BY DEF Ops, Located, Linked, Fresh, HasContext
<1>2. Locked'
  BY DEF Locked, HoldsLock, Ops, Located, Fresh
<1>3. Busy' /\ OneCallInTa'
  BY DEF Busy, OneCallInTa, Inside, InstanceLock, Located, HasContext, Ops
<1>4. Sleepers' /\ SilHeard' /\ InitHeard'
  BY DEF Sleepers, SilHeard, InitHeard, InstanceLock, Located, HasContext
<1>5. BusyHeard'
  BY DEF BusyHeard, Sleepers, InstanceLock, Located, HasContext
<1>6. LockHeard'
  BY DEF LockHeard, Sleepers, Located, Fresh
<1>7. Referred' /\ Openers' /\ Freed'
  BY DEF Referred, Openers, Freed, HoldsRef, Opens, Located, Ops, Fresh,
     Leaving, HasContext
<1>8. SessionRefs'
  <2>. SUFFICES ASSUME NEW m \in Sess PROVE RefsMove(t, m)
    BY RefsKept
  <2>. QED
    BY DEF RefsMove, Refs, HoldsRef, Located, Ops
<1>9. Users'
  BY DEF Users, Using, Referred, HoldsRef, Locked, HoldsLock, Openers, Opens,
     Located, Fresh, Ops, HasContext
<1>10. Counted'
  <2>. SUFFICES ASSUME NEW y \in Ctxs PROVE CountMoves(t, n, y)
    BY CountsKept
  <2>. QED
    BY DEF CountMoves, SessOf, DropsOf, Leaving, Located, Linked, Fresh,
       Openers, Opens, Users, Using, HoldsRef, Ops, HasContext
<1>11. OneSession'
  BY DEF OneSession, Located, HasContext, Context
<1>. QED
  BY <1>1, <1>2, <1>3, <1>4, <1>5, <1>6, <1>7, <1>8, <1>9, <1>10, <1>11

LEMMA KeepGetRefused ==
  ASSUME NEW t \in Threads, NEW o \in Calls, NEW n \in Sess, NEW l \in Places,
         Inv, Shape', GetRefused(t, o, n, l)
  PROVE  Inv'
<1>. USE DEF GetRefused, GetsFor, EndsAt
<1>1. Ops' /\ Located' /\ Linked' /\ Fresh'
  BY DEF Ops, Located, Linked, Fresh, HasContext
<1>2. Locked'
  BY DEF Locked, HoldsLock, Ops, Located, Fresh
<1>3. Busy' /\ OneCallInTa'
  BY DEF Busy, OneCallInTa, Inside, InstanceLock, Located, HasContext, Ops
<1>4. Sleepers' /\ SilHeard' /\ InitHeard'
  BY DEF Sleepers, SilHeard, InitHeard, InstanceLock, Located, HasContext
<1>5. BusyHeard'
  BY DEF BusyHeard, Sleepers, InstanceLock, Located, HasContext
<1>6. LockHeard'
  BY DEF LockHeard, Sleepers, Located, Fresh
<1>7. Referred' /\ Openers' /\ Freed'
  BY DEF Referred, Openers, Freed, HoldsRef, Opens, Located, Ops, Fresh,
     Leaving, HasContext
<1>8. SessionRefs'
  <2>. SUFFICES ASSUME NEW m \in Sess PROVE RefsMove(t, m)
    BY RefsKept
  <2>. QED
    BY DEF RefsMove, Refs, HoldsRef, Located, Ops
<1>9. Users'
  BY DEF Users, Using, Referred, HoldsRef, Locked, HoldsLock, Openers, Opens,
     Located, Fresh, Ops, HasContext
<1>10. Counted'
  <2>. SUFFICES ASSUME NEW y \in Ctxs PROVE CountMoves(t, n, y)
    BY CountsKept
  <2>. QED
    BY DEF CountMoves, SessOf, DropsOf, Leaving, Located, Linked, Fresh,
       Openers, Opens, Users, Using, HoldsRef, Ops, HasContext
<1>11. OneSession'
  BY DEF OneSession, Located, HasContext, Context
<1>. QED
  BY <1>1, <1>2, <1>3, <1>4, <1>5, <1>6, <1>7, <1>8, <1>9, <1>10, <1>11

LEMMA KeepGetLocks ==
  ASSUME NEW t \in Threads, NEW o \in Calls, NEW n \in Sess,
         Inv, Shape', GetLocks(t, o, n)
  PROVE  Inv'
<1>. USE DEF GetLocks, GetsFor
<1>1. Ops' /\ Located' /\ Linked' /\ Fresh'
  BY DEF Ops, Located, Linked, Fresh, HasContext
<1>2. Locked'
  BY DEF Locked, HoldsLock, Ops, Located, Fresh
<1>3. Busy' /\ OneCallInTa'
  BY DEF Busy, OneCallInTa, Inside, InstanceLock, Located, HasContext, Ops
<1>4. Sleepers' /\ SilHeard' /\ InitHeard'
  BY DEF Sleepers, SilHeard, InitHeard, InstanceLock, Located, HasContext
<1>5. BusyHeard'
  BY DEF BusyHeard, Sleepers, InstanceLock, Located, HasContext
<1>6. LockHeard'
  BY DEF LockHeard, Sleepers, Located, Fresh
<1>7. Referred' /\ Openers' /\ Freed'
  BY DEF Referred, Openers, Freed, HoldsRef, Opens, Located, Ops, Fresh,
     Leaving, HasContext
<1>8. SessionRefs'
  <2>. SUFFICES ASSUME NEW m \in Sess PROVE RefsMove(t, m)
    BY RefsKept
  <2>. QED
    BY DEF RefsMove, Refs, HoldsRef, Located, Ops
<1>9. Users'
  BY DEF Users, Using, Referred, HoldsRef, Locked, HoldsLock, Openers, Opens,
     Located, Fresh, Ops, HasContext
<1>10. Counted'
  <2>. SUFFICES ASSUME NEW y \in Ctxs PROVE CountMoves(t, n, y)
    BY CountsKept
  <2>1. DropsOf(y)' \subseteq DropsOf(y)
    BY DEF DropsOf, Leaving, Ops
  <2>2. SessOf(y)' \subseteq SessOf(y)
    BY DEF SessOf
  <2>. QED BY <2>1, <2>2 DEF CountMoves
<1>11. OneSession'
  BY DEF OneSession, Located, HasContext, Context
<1>. QED
  BY <1>1, <1>2, <1>3, <1>4, <1>5, <1>6, <1>7, <1>8, <1>9, <1>10, <1>11

LEMMA KeepGetWaits ==
  ASSUME NEW t \in Threads, NEW o \in Calls, NEW n \in Sess,
         Inv, Shape', GetWaits(t, o, n)
  PROVE  Inv'
<1>. USE DEF GetWaits, GetsFor
<1>1. Ops' /\ Located' /\ Linked' /\ Fresh'
  BY DEF Ops, Located, Linked, Fresh, HasContext
<1>2. Locked'
  BY DEF Locked, HoldsLock, Ops, Located, Fresh
<1>3. Busy' /\ OneCallInTa'
  BY DEF Busy, OneCallInTa, Inside, InstanceLock, Located, HasContext, Ops
<1>4. Sleepers' /\ SilHeard' /\ InitHeard'
  BY DEF Sleepers, SilHeard, InitHeard, InstanceLock, Located, HasContext
<1>5. BusyHeard'
  BY DEF BusyHeard, Sleepers, InstanceLock, Located, HasContext
<1>6. LockHeard'
  BY DEF LockHeard, Sleepers, Located, Fresh
<1>7. Referred' /\ Openers' /\ Freed'
  BY DEF Referred, Openers, Freed, HoldsRef, Opens, Located, Ops, Fresh,
     Leaving, HasContext
<1>8. SessionRefs'
  <2>. SUFFICES ASSUME NEW m \in Sess PROVE RefsMove(t, m)
    BY RefsKept
  <2>. QED
    BY DEF RefsMove, Refs, HoldsRef, Located, Ops
<1>9. Users'
  BY DEF Users, Using, Referred, HoldsRef, Locked, HoldsLock, Openers, Opens,
     Located, Fresh, Ops, HasContext
<1>10. Counted'
  <2>. SUFFICES ASSUME NEW y \in Ctxs PROVE CountMoves(t, n, y)
    BY CountsKept
  <2>. QED
    BY DEF CountMoves, SessOf, DropsOf, Leaving, Located, Linked, Fresh,
       Openers, Opens, Users, Using, HoldsRef, Ops, HasContext
<1>11. OneSession'
  BY DEF OneSession, Located, HasContext, Context
<1>. QED
  BY <1>1, <1>2, <1>3, <1>4, <1>5, <1>6, <1>7, <1>8, <1>9, <1>10, <1>11

LEMMA KeepCloses ==
  ASSUME NEW t \in Threads, NEW n \in Sess,
         Inv, Shape', Closes(t, n)
  PROVE  Inv'
<1>. USE DEF Closes
<1>1. Ops' /\ Located' /\ Linked' /\ Fresh'
  BY DEF Ops, Located, Linked, Fresh, HasContext
<1>2. Locked'
  BY DEF Locked, HoldsLock, Ops, Located, Fresh
<1>3. Busy' /\ OneCallInTa'
  BY DEF Busy, OneCallInTa, Inside, InstanceLock, Located, HasContext, Ops
<1>4. Sleepers' /\ SilHeard' /\ InitHeard'
  BY DEF Sleepers, SilHeard, InitHeard, InstanceLock, Located, HasContext
<1>5. BusyHeard'
  BY DEF BusyHeard, Sleepers, InstanceLock, Located, HasContext
<1>6. LockHeard'
  BY DEF LockHeard, Sleepers, Located, Fresh
<1>7. Referred' /\ Openers' /\ Freed'
  BY DEF Referred, Openers, Freed, HoldsRef, Opens, Located, Ops, Fresh,
     Leaving, HasContext
<1>8. SessionRefs'
  <2>. SUFFICES ASSUME NEW m \in Sess PROVE RefsMove(t, m)
    BY RefsKept
  <2>. QED
    BY DEF RefsMove, Refs, HoldsRef, Located, Ops
<1>9. Users'
  BY DEF Users, Using, Referred, HoldsRef, Locked, HoldsLock, Openers, Opens,
     Located, Fresh, Ops, HasContext
<1>10. Counted'
  <2>. SUFFICES ASSUME NEW y \in Ctxs PROVE CountMoves(t, n, y)
    BY CountsKept
  <2>. QED
    BY DEF CountMoves, SessOf, DropsOf, Leaving, Located, Linked, Fresh,
       Openers, Opens, Users, Using, HoldsRef, Ops, HasContext
<1>11. OneSession'
  BY DEF OneSession, Located, HasContext, Context
<1>. QED
  BY <1>1, <1>2, <1>3, <1>4, <1>5, <1>6, <1>7, <1>8, <1>9, <1>10, <1>11

LEMMA KeepGivesUp ==
  ASSUME NEW t \in Threads, NEW n \in Sess, NEW l \in Places,
         Inv, Shape', GivesUp(t, n, l)
  PROVE  Inv'
<1>. USE DEF GivesUp, EndsAt, UnlinkerTold, RefcWaiters
<1>1. Ops'
  BY DEF Ops
<1>2. Located'
  BY DEF Located, HasContext, Linked, Ops
<1>3. Linked'
  BY DEF Linked, Located, HasContext
<1>4. Fresh'
  BY DEF Fresh, Located
<1>5. Locked'
  BY DEF Locked, HoldsLock, Ops, Located, Fresh
<1>6. Busy' /\ OneCallInTa'
  BY DEF Busy, OneCallInTa, Inside, InstanceLock, Located, HasContext, Ops
<1>7. Sleepers' /\ SilHeard' /\ InitHeard'
  BY DEF Sleepers, SilHeard, InitHeard, InstanceLock, Located, HasContext
<1>8. BusyHeard'
  BY DEF BusyHeard, Sleepers, InstanceLock, Located, HasContext
<1>9. LockHeard'
  BY DEF LockHeard, Sleepers, Located, Fresh
<1>10. Referred' /\ Openers' /\ Freed'
  BY DEF Referred, Openers, Freed, HoldsRef, Opens, Located, Ops, Fresh,
     Leaving, HasContext
<1>11. SessionRefs'
  <2>. SUFFICES ASSUME NEW m \in Sess PROVE RefsMove(t, m)
    BY RefsKept
  <2>. QED
    BY DEF RefsMove, Refs, HoldsRef, Located, Ops
<1>12. Users'
  BY DEF Users, Using, Referred, HoldsRef, Locked, HoldsLock, Openers, Opens,
     Located, Fresh, Ops, HasContext
<1>13. Counted'
  <2>. SUFFICES ASSUME NEW y \in Ctxs PROVE CountMoves(t, n, y)
    BY CountsKept
  <2>. QED
    BY DEF CountMoves, SessOf, DropsOf, Leaving, Located, Linked, Fresh,
       Openers, Opens, Users, Using, HoldsRef, Ops, HasContext
<1>14. OneSession'
  BY DEF OneSession, Located, HasContext, Context
<1>. QED
  BY <1>1, <1>2, <1>3, <1>4, <1>5, <1>6, <1>7, <1>8, <1>9, <1>10, <1>11, <1>12,
     <1>13, <1>14

LEMMA KeepTakesLock ==
  ASSUME NEW t \in Threads, NEW n \in Sess,
         Inv, Shape', TakesLock(t, n)
  PROVE  Inv'
<1>. USE DEF TakesLock
<1>1. Ops' /\ Located' /\ Linked' /\ Fresh'
  BY DEF Ops, Located, Linked, Fresh, HasContext
<1>2. Locked'
  BY DEF Locked, HoldsLock, Ops, Located, Fresh
<1>3. Busy' /\ OneCallInTa'
  BY DEF Busy, OneCallInTa, Inside, InstanceLock, Located, HasContext, Ops
<1>4. Sleepers' /\ SilHeard' /\ InitHeard'
  BY DEF Sleepers, SilHeard, InitHeard, InstanceLock, Located, HasContext
<1>5. BusyHeard'
  BY DEF BusyHeard, Sleepers, InstanceLock, Located, HasContext
<1>6. LockHeard'
  BY DEF LockHeard, Sleepers, Located, Fresh
<1>7. Referred' /\ Openers' /\ Freed'
  BY DEF Referred, Openers, Freed, HoldsRef, Opens, Located, Ops, Fresh,
     Leaving, HasContext
<1>8. SessionRefs'
  <2>. SUFFICES ASSUME NEW m \in Sess PROVE RefsMove(t, m)
    BY RefsKept
  <2>. QED
    BY DEF RefsMove, Refs, HoldsRef, Located, Ops
<1>9. Users'
  BY DEF Users, Using, Referred, HoldsRef, Locked, HoldsLock, Openers, Opens,
     Located, Fresh, Ops, HasContext
<1>10. Counted'
  <2>. SUFFICES ASSUME NEW y \in Ctxs PROVE CountMoves(t, n, y)
    BY CountsKept
  <2>. QED
    BY DEF CountMoves, SessOf, DropsOf, Leaving, Located, Linked, Fresh,
       Openers, Opens, Users, Using, HoldsRef, Ops, HasContext
<1>11. OneSession'
  BY DEF OneSession, Located, HasContext, Context
<1>. QED
  BY <1>1, <1>2, <1>3, <1>4, <1>5, <1>6, <1>7, <1>8, <1>9, <1>10, <1>11

LEMMA KeepWaitsAgain ==
  ASSUME NEW t \in Threads, NEW n \in Sess,
         Inv, Shape', WaitsAgain(t, n)
  PROVE  Inv'
<1>. USE DEF WaitsAgain
<1>1. Ops' /\ Located' /\ Linked' /\ Fresh'
  BY DEF Ops, Located, Linked, Fresh, HasContext
<1>2. Locked'
  BY DEF Locked, HoldsLock, Ops, Located, Fresh
<1>3. Busy' /\ OneCallInTa'
  BY DEF Busy, OneCallInTa, Inside, InstanceLock, Located, HasContext, Ops
<1>4. Sleepers' /\ SilHeard' /\ InitHeard'
  BY DEF Sleepers, SilHeard, InitHeard, InstanceLock, Located, HasContext
<1>5. BusyHeard'
  BY DEF BusyHeard, Sleepers, InstanceLock, Located, HasContext
<1>6. LockHeard'
  BY DEF LockHeard, Sleepers, Located, Fresh
<1>7. Referred' /\ Openers' /\ Freed'
  BY DEF Referred, Openers, Freed, HoldsRef, Opens, Located, Ops, Fresh,
     Leaving, HasContext
<1>8. SessionRefs'
  <2>. SUFFICES ASSUME NEW m \in Sess PROVE RefsMove(t, m)
    BY RefsKept
  <2>. QED
    BY DEF RefsMove, Refs, HoldsRef, Located, Ops
<1>9. Users'
  BY DEF Users, Using, Referred, HoldsRef, Locked, HoldsLock, Openers, Opens,
     Located, Fresh, Ops, HasContext
<1>10. Counted'
  <2>. SUFFICES ASSUME NEW y \in Ctxs PROVE CountMoves(t, n, y)
    BY CountsKept
  <2>. QED
    BY DEF CountMoves, SessOf, DropsOf, Leaving, Located, Linked, Fresh,
       Openers, Opens, Users, Using, HoldsRef, Ops, HasContext
<1>11. OneSession'
  BY DEF OneSession, Located, HasContext, Context
<1>. QED
  BY <1>1, <1>2, <1>3, <1>4, <1>5, <1>6, <1>7, <1>8, <1>9, <1>10, <1>11

LEMMA KeepPuts ==
  ASSUME NEW t \in Threads, NEW n \in Sess, NEW l \in Places,
         Inv, Shape', Puts(t, n, l)
  PROVE  Inv'
<1>. USE DEF Puts, UnlinkerTold, RefcWaiters, LockWaiters
<1>1. Ops' /\ Located' /\ Linked' /\ Fresh'
  BY DEF Ops, Located, Linked, Fresh, HasContext
<1>2. Locked'
  BY DEF Locked, HoldsLock, Ops, Located, Fresh
<1>3. Busy' /\ OneCallInTa'
  BY DEF Busy, OneCallInTa, Inside, InstanceLock, Located, HasContext, Ops
<1>4. Sleepers' /\ SilHeard' /\ InitHeard'
  BY DEF Sleepers, SilHeard, InitHeard, InstanceLock, Located, HasContext
<1>5. BusyHeard'
  BY DEF BusyHeard, Sleepers, InstanceLock, Located, HasContext
<1>6. LockHeard'
  BY DEF LockHeard, Sleepers, Located, Fresh
<1>7. Referred' /\ Openers' /\ Freed'
  BY DEF Referred, Openers, Freed, HoldsRef, Opens, Located, Ops, Fresh,
     Leaving, HasContext
<1>8. SessionRefs'
  <2>. SUFFICES ASSUME NEW m \in Sess PROVE RefsMove(t, m)
    BY RefsKept
  <2>. QED
    BY DEF RefsMove, Refs, HoldsRef, Located, Ops
<1>9. Users'
  BY DEF Users, Using, Referred, HoldsRef, Locked, HoldsLock, Openers, Opens,
     Located, Fresh, Ops, HasContext
<1>10. Counted'
  <2>. SUFFICES ASSUME NEW y \in Ctxs PROVE CountMoves(t, n, y)
    BY CountsKept
  <2>. QED
    BY DEF CountMoves, SessOf, DropsOf, Leaving, Located, Linked, Fresh,
       Openers, Opens, Users, Using, HoldsRef, Ops, HasContext
<1>11. OneSession'
  BY DEF OneSession, Located, HasContext, Context
<1>. QED
  BY <1>1, <1>2, <1>3, <1>4, <1>5, <1>6, <1>7, <1>8, <1>9, <1>10, <1>11

LEMMA KeepTells ==
  ASSUME NEW t \in Threads,
         Inv, Shape', Tells(t)
  PROVE  Inv'
<1>. USE DEF Tells
<1>1. Ops' /\ Located' /\ Linked' /\ Fresh'
  BY DEF Ops, Located, Linked, Fresh, HasContext
<1>2. Locked'
  BY DEF Locked, HoldsLock, Ops, Located, Fresh
<1>3. Busy' /\ OneCallInTa'
  BY DEF Busy, OneCallInTa, Inside, InstanceLock, Located, HasContext, Ops
<1>4. Sleepers' /\ SilHeard' /\ InitHeard'
  BY DEF Sleepers, SilHeard, InitHeard, InstanceLock, Located, HasContext
<1>5. BusyHeard'
  BY DEF BusyHeard, Sleepers, InstanceLock, Located, HasContext
<1>6. LockHeard'
  BY DEF LockHeard, Sleepers, Located, Fresh
<1>7. Referred' /\ Openers' /\ Freed'
  BY DEF Referred, Openers, Freed, HoldsRef, Opens, Located, Ops, Fresh,
     Leaving, HasContext
<1>8. SessionRefs'
  <2>. SUFFICES ASSUME NEW m \in Sess PROVE RefsMove(t, m)
    BY RefsKept
  <2>. QED
    BY DEF RefsMove, Refs, HoldsRef, Located, Ops
<1>9. Users'
  BY DEF Users, Using, Referred, HoldsRef, Locked, HoldsLock, Openers, Opens,
     Located, Fresh, Ops, HasContext
<1>10. Counted'
  <2>. SUFFICES ASSUME NEW y \in Ctxs PROVE CountMoves(t, None, y)
    BY CountsKept
  <2>. QED
    BY DEF CountMoves, SessOf, DropsOf, Leaving, Located, Linked, Fresh,
       Openers, Opens, Users, Using, HoldsRef, Ops, HasContext
<1>11. OneSession'
  BY DEF OneSession, Located, HasContext, Context
<1>. QED
  BY <1>1, <1>2, <1>3, <1>4, <1>5, <1>6, <1>7, <1>8, <1>9, <1>10, <1>11

LEMMA KeepFindsDead ==
  ASSUME NEW t \in Threads, NEW n \in Sess,
         Inv, Shape', FindsDead(t, n)
  PROVE  Inv'
<1>. USE DEF FindsDead
<1>1. Ops' /\ Located' /\ Linked' /\ Fresh'
  BY DEF Ops, Located, Linked, Fresh, HasContext
<1>2. Locked'
  BY DEF Locked, HoldsLock, Ops, Located, Fresh
<1>3. Busy' /\ OneCallInTa'
  BY DEF Busy, OneCallInTa, Inside, InstanceLock, Located, HasContext, Ops
<1>4. Sleepers' /\ SilHeard' /\ InitHeard'
  BY DEF Sleepers, SilHeard, InitHeard, InstanceLock, Located, HasContext
<1>5. BusyHeard'
  BY DEF BusyHeard, Sleepers, InstanceLock, Located, HasContext
<1>6. LockHeard'
  BY DEF LockHeard, Sleepers, Located, Fresh
<1>7. Referred' /\ Openers' /\ Freed'
  BY DEF Referred, Openers, Freed, HoldsRef, Opens, Located, Ops, Fresh,
     Leaving, HasContext
<1>8. SessionRefs'
  <2>. SUFFICES ASSUME NEW m \in Sess PROVE RefsMove(t, m)
    BY RefsKept
  <2>. QED
    BY DEF RefsMove, Refs, HoldsRef, Located, Ops
<1>9. Users'
  BY DEF Users, Using, Referred, HoldsRef, Locked, HoldsLock, Openers, Opens,
     Located, Fresh, Ops, HasContext
<1>10. Counted'
  <2>. SUFFICES ASSUME NEW y \in Ctxs PROVE CountMoves(t, n, y)
    BY CountsKept
  <2>. QED
    BY DEF CountMoves, SessOf, DropsOf, Leaving, Located, Linked, Fresh,
       Openers, Opens, Users, Using, HoldsRef, Ops, HasContext
<1>11. OneSession'
  BY DEF OneSession, Located, HasContext, Context
<1>. QED
  BY <1>1, <1>2, <1>3, <1>4, <1>5, <1>6, <1>7, <1>8, <1>9, <1>10, <1>11

LEMMA KeepChecks ==
  ASSUME NEW t \in Threads, NEW n \in Sess, NEW x, NEW l \in Places,
         Inv, Shape', Checks(t, n, x, l)
  PROVE  Inv'
<1>. USE DEF Checks
<1>1. Ops' /\ Located' /\ Linked' /\ Fresh'
  BY DEF Ops, Located, Linked, Fresh, HasContext
<1>2. Locked'
  BY DEF Locked, HoldsLock, Ops, Located, Fresh
<1>3. Busy' /\ OneCallInTa'
  BY DEF Busy, OneCallInTa, Inside, InstanceLock, Located, HasContext, Ops
<1>4. Sleepers' /\ SilHeard' /\ InitHeard'
  BY DEF Sleepers, SilHeard, InitHeard, InstanceLock, Located, HasContext
<1>5. BusyHeard'
  BY DEF BusyHeard, Sleepers, InstanceLock, Located, HasContext
<1>6. LockHeard'
  BY DEF LockHeard, Sleepers, Located, Fresh
<1>7. Referred' /\ Openers' /\ Freed'
  BY DEF Referred, Openers, Freed, HoldsRef, Opens, Located, Ops, Fresh,
     Leaving, HasContext
<1>8. SessionRefs'
  <2>. SUFFICES ASSUME NEW m \in Sess PROVE RefsMove(t, m)
    BY RefsKept
  <2>. QED
    BY DEF RefsMove, Refs, HoldsRef, Located, Ops
<1>9. Users'
  BY DEF Users, Using, Referred, HoldsRef, Locked, HoldsLock, Openers, Opens,
     Located, Fresh, Ops, HasContext
<1>10. Counted'
  <2>. SUFFICES ASSUME NEW y \in Ctxs PROVE CountMoves(t, n, y)
    BY CountsKept
  <2>. QED
    BY DEF CountMoves, SessOf, DropsOf, Leaving, Located, Linked, Fresh,
       Openers, Opens, Users, Using, HoldsRef, Ops, HasContext
<1>11. OneSession'
  BY DEF OneSession, Located, HasContext, Context
<1>. QED
  BY <1>1, <1>2, <1>3, <1>4, <1>5, <1>6, <1>7, <1>8, <1>9, <1>10, <1>11

LEMMA KeepWaitsBusy ==
  ASSUME NEW t \in Threads, NEW l \in Places,
         Inv, Shape', WaitsBusy(t, l)
  PROVE  Inv'
<1>. USE DEF WaitsBusy
<1>1. Ops' /\ Located' /\ Linked' /\ Fresh'
  BY DEF Ops, Located, Linked, Fresh, HasContext
<1>2. Locked'
  BY DEF Locked, HoldsLock, Ops, Located, Fresh
<1>3. Busy' /\ OneCallInTa'
  BY DEF Busy, OneCallInTa, Inside, InstanceLock, Located, HasContext, Ops
<1>4. Sleepers' /\ SilHeard' /\ InitHeard'
  BY DEF Sleepers, SilHeard, InitHeard, InstanceLock, Located, HasContext
<1>5. BusyHeard'
  BY DEF BusyHeard, Sleepers, InstanceLock, Located, HasContext
<1>6. LockHeard'
  BY DEF LockHeard, Sleepers, Located, Fresh
<1>7. Referred' /\ Openers' /\ Freed'
  BY DEF Referred, Openers, Freed, HoldsRef, Opens, Located, Ops, Fresh,
     Leaving, HasContext
<1>8. SessionRefs'
  <2>. SUFFICES ASSUME NEW m \in Sess PROVE RefsMove(t, m)
    BY RefsKept
  <2>. QED
    BY DEF RefsMove, Refs, HoldsRef, Located, Ops
<1>9. Users'
  BY DEF Users, Using, Referred, HoldsRef, Locked, HoldsLock, Openers, Opens,
     Located, Fresh, Ops, HasContext
<1>10. Counted'
  <2>. SUFFICES ASSUME NEW y \in Ctxs PROVE CountMoves(t, None, y)
    BY CountsKept
  <2>. QED
    BY DEF CountMoves, SessOf, DropsOf, Leaving, Located, Linked, Fresh,
       Openers, Opens, Users, Using, HoldsRef, Ops, HasContext
<1>11. OneSession'
  BY DEF OneSession, Located, HasContext, Context
<1>. QED
  BY <1>1, <1>2, <1>3, <1>4, <1>5, <1>6, <1>7, <1>8, <1>9, <1>10, <1>11

LEMMA KeepEnters ==
  ASSUME NEW t \in Threads, NEW x \in Ctxs,
         Inv, Shape', Enters(t, x)
  PROVE  Inv'
<1>. USE DEF Enters
<1>1. Ops' /\ Located' /\ Linked' /\ Fresh'
  BY DEF Ops, Located, Linked, Fresh, HasContext
<1>2. Locked'
  BY DEF Locked, HoldsLock, Ops, Located, Fresh
<1>3. Busy' /\ OneCallInTa'
  BY DEF Busy, OneCallInTa, Inside, InstanceLock, Located, HasContext, Ops
<1>4. Sleepers' /\ SilHeard' /\ InitHeard'
  BY DEF Sleepers, SilHeard, InitHeard, InstanceLock, Located, HasContext
<1>5. BusyHeard'
  BY DEF BusyHeard, Sleepers, InstanceLock, Located, HasContext
<1>6. LockHeard'
  BY DEF LockHeard, Sleepers, Located, Fresh
<1>7. Referred' /\ Openers' /\ Freed'
  BY DEF Referred, Openers, Freed, HoldsRef, Opens, Located, Ops, Fresh,
     Leaving, HasContext
<1>8. SessionRefs'
  <2>. SUFFICES ASSUME NEW m \in Sess PROVE RefsMove(t, m)
    BY RefsKept
  <2>. QED
    BY DEF RefsMove, Refs, HoldsRef, Located, Ops
<1>9. Users'
  BY DEF Users, Using, Referred, HoldsRef, Locked, HoldsLock, Openers, Opens,
     Located, Fresh, Ops, HasContext
<1>10. Counted'
  <2>. SUFFICES ASSUME NEW y \in Ctxs PROVE CountMoves(t, None, y)
    BY CountsKept
  <2>. QED
    BY DEF CountMoves, SessOf, DropsOf, Leaving, Located, Linked, Fresh,
       Openers, Opens, Users, Using, HoldsRef, Ops, HasContext
<1>11. OneSession'
  BY DEF OneSession, Located, HasContext, Context
<1>. QED
  BY <1>1, <1>2, <1>3, <1>4, <1>5, <1>6, <1>7, <1>8, <1>9, <1>10, <1>11

LEMMA KeepRuns ==
  ASSUME NEW t \in Threads, NEW x \in Ctxs, NEW p \in BOOLEAN, NEW r \in BOOLEAN,
         Inv, Shape', Runs(t, x, p, r)
  PROVE  Inv'
<1>. USE DEF Runs
<1>1. Ops' /\ Located' /\ Linked' /\ Fresh'
  BY DEF Ops, Located, Linked, Fresh, HasContext
<1>2. Locked'
  BY DEF Locked, HoldsLock, Ops, Located, Fresh
<1>3. Busy' /\ OneCallInTa'
  BY DEF Busy, OneCallInTa, Inside, InstanceLock, Located, HasContext, Ops
<1>4. Sleepers' /\ SilHeard' /\ InitHeard'
  BY DEF Sleepers, SilHeard, InitHeard, InstanceLock, Located, HasContext
<1>5. BusyHeard'
  BY DEF BusyHeard, Sleepers, InstanceLock, Located, HasContext
<1>6. LockHeard'
  BY DEF LockHeard, Sleepers, Located, Fresh
<1>7. Referred' /\ Openers' /\ Freed'
  BY DEF Referred, Openers, Freed, HoldsRef, Opens, Located, Ops, Fresh,
     Leaving, HasContext
<1>8. SessionRefs'
  <2>. SUFFICES ASSUME NEW m \in Sess PROVE RefsMove(t, m)
    BY RefsKept
  <2>. QED
    BY DEF RefsMove, Refs, HoldsRef, Located, Ops
<1>9. Users'
  BY DEF Users, Using, Referred, HoldsRef, Locked, HoldsLock, Openers, Opens,
     Located, Fresh, Ops, HasContext
<1>10. Counted'
  <2>. SUFFICES ASSUME NEW y \in Ctxs PROVE CountMoves(t, None, y)
    BY CountsKept
  <2>. QED
    BY DEF CountMoves, SessOf, DropsOf, Leaving, Located, Linked, Fresh,
       Openers, Opens, Users, Using, HoldsRef, Ops, HasContext
<1>11. OneSession'
  BY DEF OneSession, Located, HasContext, Context
<1>. QED
  BY <1>1, <1>2, <1>3, <1>4, <1>5, <1>6, <1>7, <1>8, <1>9, <1>10, <1>11

LEMMA KeepLeaves ==
  ASSUME NEW t \in Threads, NEW x \in Ctxs,
         Inv, Shape', Leaves(t, x)
  PROVE  Inv'
<1>. USE DEF Leaves, BusyWaiters
<1>1. Ops' /\ Located' /\ Linked' /\ Fresh'
  BY DEF Ops, Located, Linked, Fresh, HasContext
<1>2. Locked'
  BY DEF Locked, HoldsLock, Ops, Located, Fresh
<1>3. Busy' /\ OneCallInTa'
  BY DEF Busy, OneCallInTa, Inside, InstanceLock, Located, HasContext, Ops
<1>4. Sleepers' /\ SilHeard' /\ InitHeard'
  BY DEF Sleepers, SilHeard, InitHeard, InstanceLock, Located, HasContext
<1>5. BusyHeard'
  BY DEF BusyHeard, Sleepers, InstanceLock, Located, HasContext
<1>6. LockHeard'
  BY DEF LockHeard, Sleepers, Located, Fresh
<1>7. Referred' /\ Openers' /\ Freed'
  BY DEF Referred, Openers, Freed, HoldsRef, Opens, Located, Ops, Fresh,
     Leaving, HasContext
<1>8. SessionRefs'
  <2>. SUFFICES ASSUME NEW m \in Sess PROVE RefsMove(t, m)
    BY RefsKept
  <2>. QED
    BY DEF RefsMove, Refs, HoldsRef, Located, Ops
<1>9. Users'
  BY DEF Users, Using, Referred, HoldsRef, Locked, HoldsLock, Openers, Opens,
     Located, Fresh, Ops, HasContext
<1>10. Counted'
  <2>. SUFFICES ASSUME NEW y \in Ctxs PROVE CountMoves(t, None, y)
    BY CountsKept
  <2>. QED
    BY DEF CountMoves, SessOf, DropsOf, Leaving, Located, Linked, Fresh,
       Openers, Opens, Users, Using, HoldsRef, Ops, HasContext
<1>11. OneSession'
  BY DEF OneSession, Located, HasContext, Context
<1>. QED
  BY <1>1, <1>2, <1>3, <1>4, <1>5, <1>6, <1>7, <1>8, <1>9, <1>10, <1>11

LEMMA KeepReturns ==
  ASSUME NEW t \in Threads, NEW o \in Calls, NEW l \in Places,
         Inv, Shape', Returns(t, o, l)
  PROVE  Inv'
<1>. USE DEF Returns
<1>1. Ops' /\ Located' /\ Linked' /\ Fresh'
  BY DEF Ops, Located, Linked, Fresh, HasContext
<1>2. Locked'
  BY DEF Locked, HoldsLock, Ops, Located, Fresh
<1>3. Busy' /\ OneCallInTa'
  BY DEF Busy, OneCallInTa, Inside, InstanceLock, Located, HasContext, Ops
<1>4. Sleepers' /\ SilHeard' /\ InitHeard'
  BY DEF Sleepers, SilHeard, InitHeard, InstanceLock, Located, HasContext
<1>5. BusyHeard'
  BY DEF BusyHeard, Sleepers, InstanceLock, Located, HasContext
<1>6. LockHeard'
  BY DEF LockHeard, Sleepers, Located, Fresh
<1>7. Referred' /\ Openers' /\ Freed'
  BY DEF Referred, Openers, Freed, HoldsRef, Opens, Located, Ops, Fresh,
     Leaving, HasContext
<1>8. SessionRefs'
  <2>. SUFFICES ASSUME NEW m \in Sess PROVE RefsMove(t, m)
    BY RefsKept
  <2>. QED
    BY DEF RefsMove, Refs, HoldsRef, Located, Ops
<1>9. Users'
  BY DEF Users, Using, Referred, HoldsRef, Locked, HoldsLock, Openers, Opens,
     Located, Fresh, Ops, HasContext
<1>10. Counted'
  <2>. SUFFICES ASSUME NEW y \in Ctxs PROVE CountMoves(t, None, y)
    BY CountsKept
  <2>. QED
    BY DEF CountMoves, SessOf, DropsOf, Leaving, Located, Linked, Fresh,
       Openers, Opens, Users, Using, HoldsRef, Ops, HasContext
<1>11. OneSession'
  BY DEF OneSession, Located, HasContext, Context
<1>. QED
  BY <1>1, <1>2, <1>3, <1>4, <1>5, <1>6, <1>7, <1>8, <1>9, <1>10, <1>11

LEMMA KeepUnlinkWaits ==
  ASSUME NEW t \in Threads, NEW n \in Sess,
         Inv, Shape', UnlinkWaits(t, n)
  PROVE  Inv'
<1>. USE DEF UnlinkWaits, LockersTold, LockWaiters
<1>1. Ops'
  BY DEF Ops
<1>2. Located'
  BY DEF Located, HasContext, Linked, Ops
<1>3. Linked'
  BY DEF Linked, Located, HasContext
<1>4. Fresh'
  BY DEF Fresh, Located
<1>5. Locked'
  BY DEF Locked, HoldsLock, Ops, Located, Fresh
<1>6. Busy' /\ OneCallInTa'
  BY DEF Busy, OneCallInTa, Inside, InstanceLock, Located, HasContext, Ops
<1>7. Sleepers' /\ SilHeard' /\ InitHeard'
  BY DEF Sleepers, SilHeard, InitHeard, InstanceLock, Located, HasContext
<1>8. BusyHeard'
  BY DEF BusyHeard, Sleepers, InstanceLock, Located, HasContext
<1>9. LockHeard'
  BY DEF LockHeard, Sleepers, Located, Fresh
<1>10. Referred' /\ Openers' /\ Freed'
  BY DEF Referred, Openers, Freed, HoldsRef, Opens, Located, Ops, Fresh,
     Leaving, HasContext
<1>11. SessionRefs'
  <2>. SUFFICES ASSUME NEW m \in Sess PROVE RefsMove(t, m)
    BY RefsKept
  <2>. QED
    BY DEF RefsMove, Refs, HoldsRef, Located, Ops
<1>12. Users'
  BY DEF Users, Using, Referred, HoldsRef, Locked, HoldsLock, Openers, Opens,
     Located, Fresh, Ops, HasContext
<1>13. Counted'
  <2>. SUFFICES ASSUME NEW y \in Ctxs PROVE CountMoves(t, n, y)
    BY CountsKept
  <2>. QED
    BY DEF CountMoves, SessOf, DropsOf, Leaving, Located, Linked, Fresh,
       Openers, Opens, Users, Using, HoldsRef, Ops, HasContext
<1>14. OneSession'
  BY DEF OneSession, Located, HasContext, Context
<1>. QED
  BY <1>1, <1>2, <1>3, <1>4, <1>5, <1>6, <1>7, <1>8, <1>9, <1>10, <1>11, <1>12,
     <1>13, <1>14

LEMMA KeepUnlinks ==
  ASSUME NEW t \in Threads, NEW n \in Sess, NEW l \in Places,
         Inv, Shape', Unlinks(t, n, l)
  PROVE  Inv'
<1>. USE DEF Unlinks, EndsAt, LockersTold, LockWaiters
<1>0. \A u \in Threads \ {t} : ~(HoldsRef(u) /\ s[u] = n)
  BY SoleRef DEF HoldsRef, Ops
<1>1. Ops' /\ Located' /\ Linked' /\ Fresh'
  BY DEF Ops, Located, Linked, Fresh, HasContext
<1>2. Locked'
  BY DEF Locked, HoldsLock, Ops, Located, Fresh
<1>3. Busy' /\ OneCallInTa'
  BY DEF Busy, OneCallInTa, Inside, InstanceLock, Located, HasContext, Ops
<1>4. Sleepers' /\ SilHeard' /\ InitHeard'
  BY DEF Sleepers, SilHeard, InitHeard, InstanceLock, Located, HasContext
<1>5. BusyHeard'
  BY DEF BusyHeard, Sleepers, InstanceLock, Located, HasContext
<1>6. LockHeard'
  BY DEF LockHeard, Sleepers, Located, Fresh
<1>7. Referred' /\ Openers' /\ Freed'
  BY <1>0 DEF Referred, Openers, Freed, HoldsRef, Opens, Located, Ops, Fresh,
     Leaving, HasContext
<1>8. SessionRefs'
  <2>. SUFFICES ASSUME NEW m \in Sess PROVE RefsMove(t, m)
    BY RefsKept
  <2>. QED
    BY DEF RefsMove, Refs, HoldsRef, Located, Ops
<1>9. Users'
  BY <1>0 DEF Users, Using, Referred, HoldsRef, Locked, HoldsLock, Openers,
     Opens, Located, Fresh, Ops, HasContext
<1>10. Counted'
  <2>. SUFFICES ASSUME NEW y \in Ctxs PROVE CountMoves(t, n, y)
    BY CountsKept
  <2>. QED
    BY DEF CountMoves, SessOf, DropsOf, Leaving, Located, Linked, Fresh,
       Openers, Opens, Users, Using, HoldsRef, Ops, HasContext
<1>11. OneSession'
  BY DEF OneSession, Located, HasContext, Context
<1>. QED
  BY <1>1, <1>2, <1>3, <1>4, <1>5, <1>6, <1>7, <1>8, <1>9, <1>10, <1>11

LEMMA KeepDrops ==
  ASSUME NEW t \in Threads, NEW x \in Ctxs, NEW a, NEW l \in Places,
         Inv, Shape', Drops(t, x, a, l)
  PROVE  Inv'
<1>. USE DEF Drops, EndsAt
<1>1. Ops' /\ Located' /\ Linked' /\ Fresh'
  BY DEF Ops, Located, Linked, Fresh, HasContext
<1>2. Locked'
  BY DEF Locked, HoldsLock, Ops, Located, Fresh
<1>3. Busy' /\ OneCallInTa'
  BY DEF Busy, OneCallInTa, Inside, InstanceLock, Located, HasContext, Ops
<1>4. Sleepers' /\ SilHeard' /\ InitHeard'
  BY DEF Sleepers, SilHeard, InitHeard, InstanceLock, Located, HasContext
<1>5. BusyHeard'
  BY DEF BusyHeard, Sleepers, InstanceLock, Located, HasContext
<1>6. LockHeard'
  BY DEF LockHeard, Sleepers, Located, Fresh
<1>7. Referred' /\ Openers' /\ Freed'
  BY DEF Referred, Openers, Freed, HoldsRef, Opens, Located, Ops, Fresh,
     Leaving, HasContext
<1>8. SessionRefs'
  <2>. SUFFICES ASSUME NEW m \in Sess PROVE RefsMove(t, m)
    BY RefsKept
  <2>. QED
    BY DEF RefsMove, Refs, HoldsRef, Located, Ops
<1>9. Users'
  BY DEF Users, Using, Referred, HoldsRef, Locked, HoldsLock, Openers, Opens,
     Located, Fresh, Ops, HasContext
<1>10. Counted'
  <2>. SUFFICES ASSUME NEW y \in Ctxs PROVE CountMoves(t, None, y)
    BY CountsKept
  <2>. QED
    BY DEF CountMoves, SessOf, DropsOf, Leaving, Located, Linked, Fresh,
       Openers, Opens, Users, Using, HoldsRef, Ops, HasContext
<1>11. OneSession'
  BY DEF OneSession, Located, HasContext, Context
<1>. QED
  BY <1>1, <1>2, <1>3, <1>4, <1>5, <1>6, <1>7, <1>8, <1>9, <1>10, <1>11

LEMMA KeepDestroys ==
  ASSUME NEW t \in Threads, NEW n \in Sess, NEW x \in Ctxs,
         Inv, Shape', Destroys(t, n, x)
  PROVE  Inv'
<1>. USE DEF Destroys
<1>1. Ops'
  BY DEF Ops
<1>2. Located'
  BY DEF Located, HasContext, Linked, Ops
<1>3. Linked'
  BY DEF Linked, Located, HasContext
<1>4. Fresh'
  BY DEF Fresh, Located
<1>5. Locked'
  BY DEF Locked, HoldsLock, Ops, Located, Fresh
<1>6. Busy'
  BY DEF Busy, Inside, InstanceLock, OneCallInTa, Located, HasContext, Ops
<1>7. OneCallInTa'
  BY DEF OneCallInTa, Busy, Inside, InstanceLock, Located, HasContext
<1>8. Sleepers' /\ SilHeard' /\ InitHeard'
  BY DEF Sleepers, SilHeard, InitHeard, InstanceLock, Located, HasContext
<1>9. BusyHeard'
  BY DEF BusyHeard, Sleepers, InstanceLock, Located, HasContext
<1>10. LockHeard'
  BY DEF LockHeard, Sleepers, Located, Fresh
<1>11. Referred' /\ Openers' /\ Freed'
  BY DEF Referred, Openers, Freed, HoldsRef, Opens, Located, Ops, Fresh,
     Leaving, HasContext
<1>12. SessionRefs'
  <2>. SUFFICES ASSUME NEW m \in Sess PROVE RefsMove(t, m)
    BY RefsKept
  <2>. QED
    BY DEF RefsMove, Refs, HoldsRef, Located, Ops
<1>13. Users'
  <2>. SUFFICES ASSUME NEW u \in Threads, Using(u)'
       PROVE  /\ sess'[s'[u]].ctx \in {c'[u], None}
              /\ \A v \in Threads : pc'[v] \in Seeking => s'[v] # s'[u]
              /\ Closing(u)' /\ ctxs'[c'[u]].st = "listed" =>
                   sess'[s'[u]].st = "listed" /\ sess'[s'[u]].ctx = c'[u]
    BY DEF Users
  <2>1. Using(u) /\ s'[u] = s[u] /\ c'[u] = c[u] /\ op'[u] = op[u]
    BY DEF Using, HoldsRef
  <2>2. s[u] \in Sess /\ c[u] \in Ctxs
    BY <2>1 DEF Using, HoldsRef, Located
  <2>3. /\ sess[s[u]].ctx \in {c[u], None}
        /\ \A v \in Threads : pc[v] \in Seeking => s[v] # s[u]
        /\ Closing(u) /\ ctxs[c[u]].st = "listed" =>
             sess[s[u]].st = "listed" /\ sess[s[u]].ctx = c[u]
    BY <2>1 DEF Users
  <2>4. sess'[s[u]].ctx \in {c[u], None}
    BY <2>2, <2>3
  <2>5. \A v \in Threads : pc'[v] \in Seeking => s[v] # s[u]
    BY <2>3
  <2>6. ctxs'[c[u]].st = "listed" => ctxs[c[u]].st = "listed" /\ c[u] # x
    BY <2>2
  <2>. QED BY <2>1, <2>2, <2>3, <2>4, <2>5, <2>6
<1>14. Counted'
  <2>. SUFFICES ASSUME NEW y \in Ctxs PROVE CountMoves(t, n, y)
    BY CountsKept
  <2>. QED
    BY DEF CountMoves, SessOf, DropsOf, Leaving, Located, Linked, Fresh,
       Openers, Opens, Users, Using, HoldsRef, Ops, HasContext
<1>15. OneSession'
  BY DEF OneSession, Located, HasContext, Context
<1>. QED
  BY <1>1, <1>2, <1>3, <1>4, <1>5, <1>6, <1>7, <1>8, <1>9, <1>10, <1>11, <1>12,
     <1>13, <1>14, <1>15

LEMMA KeepFreesInvoke ==
  ASSUME NEW t \in Threads, NEW n \in Sess, NEW x \in Ctxs,
         Inv, Shape', FreesInvoke(t, n, x)
  PROVE  Inv'
<1>. USE DEF FreesInvoke, FreesOf
<1>1. Ops'
  BY DEF Ops
<1>2. Located'
  BY DEF Located, HasContext, Linked, Ops
<1>3. Linked'
  BY DEF Linked, Located, HasContext
<1>4. Fresh'
  BY DEF Fresh, Located
<1>5. Locked'
  BY DEF Locked, HoldsLock, Ops, Located, Fresh
<1>6. Busy' /\ OneCallInTa'
  BY DEF Busy, OneCallInTa, Inside, InstanceLock, Located, HasContext, Ops
<1>7. Sleepers' /\ SilHeard' /\ InitHeard'
  BY DEF Sleepers, SilHeard, InitHeard, InstanceLock, Located, HasContext
<1>8. BusyHeard'
  BY DEF BusyHeard, Sleepers, InstanceLock, Located, HasContext
<1>9. LockHeard'
  BY DEF LockHeard, Sleepers, Located, Fresh
<1>10. Referred' /\ Openers' /\ Freed'
  BY DEF Referred, Openers, Freed, HoldsRef, Opens, Located, Ops, Fresh,
     Leaving, HasContext
<1>11. SessionRefs'
  <2>. SUFFICES ASSUME NEW m \in Sess PROVE RefsMove(t, m)
    BY RefsKept
  <2>. QED
    BY DEF RefsMove, Refs, HoldsRef, Located, Ops
<1>12. Users'
  <2>. SUFFICES ASSUME NEW u \in Threads, Using(u)'
       PROVE  /\ sess'[s'[u]].ctx \in {c'[u], None}
              /\ \A v \in Threads : pc'[v] \in Seeking => s'[v] # s'[u]
              /\ Closing(u)' /\ ctxs'[c'[u]].st = "listed" =>
                   sess'[s'[u]].st = "listed" /\ sess'[s'[u]].ctx = c'[u]
    BY DEF Users
  <2>1. u # t /\ Using(u) /\ s'[u] = s[u] /\ c'[u] = c[u] /\ op'[u] = op[u]
    BY DEF Using, HoldsRef
  <2>2. s[u] \in Sess /\ c[u] \in Ctxs
    BY <2>1 DEF Using, HoldsRef, Located
  <2>3. /\ sess[s[u]].ctx \in {c[u], None}
        /\ \A v \in Threads : pc[v] \in Seeking => s[v] # s[u]
        /\ Closing(u) /\ ctxs[c[u]].st = "listed" =>
             sess[s[u]].st = "listed" /\ sess[s[u]].ctx = c[u]
    BY <2>1 DEF Users
  <2>4. sess'[s[u]].ctx \in {c[u], None}
    BY <2>2, <2>3
  <2>5. \A v \in Threads : pc'[v] \in Seeking => s[v] # s[u]
    BY <2>3
  <2>6. Closing(u) => s[u] # n
    BY <2>1 DEF Using, HoldsRef, Locked, HoldsLock
  <2>. QED BY <2>1, <2>2, <2>3, <2>4, <2>5, <2>6
<1>13. Counted'
  <2>. SUFFICES ASSUME NEW y \in Ctxs PROVE CountMoves(t, n, y)
    BY CountsKept
  <2>. QED
    BY DEF CountMoves, SessOf, DropsOf, Leaving, Located, Linked, Fresh,
       Openers, Opens, Users, Using, HoldsRef, Ops, HasContext
<1>14. OneSession'
  BY DEF OneSession, Located, HasContext, Context
<1>. QED
  BY <1>1, <1>2, <1>3, <1>4, <1>5, <1>6, <1>7, <1>8, <1>9, <1>10, <1>11, <1>12,
     <1>13, <1>14

LEMMA KeepFreesClose ==
  ASSUME NEW t \in Threads, NEW x \in Ctxs, NEW l \in Places,
         Inv, Shape', FreesClose(t, x, l)
  PROVE  Inv'
<1>. USE DEF FreesClose, FreesOf, EndsAt
<1>1. Ops'
  BY DEF Ops
<1>2. Located'
  BY DEF Located, HasContext, Linked, Ops
<1>3. Linked'
  BY DEF Linked, Located, HasContext
<1>4. Fresh'
  BY DEF Fresh, Located
<1>5. Locked'
  BY DEF Locked, HoldsLock, Ops, Located, Fresh
<1>6. Busy' /\ OneCallInTa'
  BY DEF Busy, OneCallInTa, Inside, InstanceLock, Located, HasContext, Ops
<1>7. Sleepers' /\ SilHeard' /\ InitHeard'
  BY DEF Sleepers, SilHeard, InitHeard, InstanceLock, Located, HasContext
<1>8. BusyHeard'
  BY DEF BusyHeard, Sleepers, InstanceLock, Located, HasContext
<1>9. LockHeard'
  BY DEF LockHeard, Sleepers, Located, Fresh
<1>10. Referred' /\ Openers' /\ Freed'
  BY DEF Referred, Openers, Freed, HoldsRef, Opens, Located, Ops, Fresh,
     Leaving, HasContext
<1>11. SessionRefs'
  <2>. SUFFICES ASSUME NEW m \in Sess PROVE RefsMove(t, m)
    BY RefsKept
  <2>. QED
    BY DEF RefsMove, Refs, HoldsRef, Located, Ops
<1>12. Users'
  BY DEF Users, Using, Referred, HoldsRef, Locked, HoldsLock, Openers, Opens,
     Located, Fresh, Ops, HasContext
<1>13. Counted'
  <2>. SUFFICES ASSUME NEW y \in Ctxs PROVE CountMoves(t, None, y)
    BY CountsKept
  <2>. QED
    BY DEF CountMoves, SessOf, DropsOf, Leaving, Located, Linked, Fresh,
       Openers, Opens, Users, Using, HoldsRef, Ops, HasContext
<1>14. OneSession'
  BY DEF OneSession, Located, HasContext, Context
<1>. QED
  BY <1>1, <1>2, <1>3, <1>4, <1>5, <1>6, <1>7, <1>8, <1>9, <1>10, <1>11, <1>12,
     <1>13, <1>14

HIDE NoneApart DEF Inv, Shape, Me, Moves, Still, SessIs, CtxIs, Asleep, Dead,
     Places, Calls, Seeking, Opening, Locking, Entering, Unlinking, Closing

-----------------------------------------------------------------------------
(***************************************************************************)
(* The invariant holds at the start and is kept by every step.             *)
(***************************************************************************)
LEMMA StandstillKeeps ==
  ASSUME Inv, Halts
  PROVE  Inv'
BY DEF Halts, Inv, Shape, Ops, Located, HasContext, Linked, Fresh, Locked, HoldsLock,
       Busy, OneCallInTa, Inside, InstanceLock, Sleepers, BusyHeard, SilHeard,
       LockHeard, InitHeard, Asleep, Referred, HoldsRef, SessionRefs, Refs,
       Openers, Opens, Users, Using, Freed, Leaving, Counted, SessOf, DropsOf,
       OneSession, Closing

LEMMA DoesKeeps ==
  ASSUME NEW t \in Threads, Inv, Shape', Does(t)
  PROVE  Inv'
<1>1. CASE DoesOpen(t)
  BY <1>1, KeepStartsOpen, KeepStartsShared, KeepSeeks, KeepJoins, KeepLoads,
     KeepLoadRefused, KeepLoadDone, KeepLoadFailed, KeepInitFailed DEF DoesOpen
<1>2. CASE DoesGet(t)
  BY <1>2, KeepGetRefused, KeepGetLocks, KeepGetWaits, KeepCloses,
     KeepGivesUp, KeepTakesLock, KeepWaitsAgain, KeepPuts, KeepTells
     DEF DoesGet
<1>3. CASE DoesRun(t)
  BY <1>3, KeepFindsDead, KeepChecks, KeepWaitsBusy, KeepEnters, KeepRuns,
     KeepLeaves, KeepReturns DEF DoesRun
<1>4. CASE DoesEnd(t)
  BY <1>4, KeepUnlinkWaits, KeepUnlinks, KeepDrops, KeepDestroys,
     KeepFreesInvoke, KeepFreesClose DEF DoesEnd
<1>. QED BY <1>1, <1>2, <1>3, <1>4 DEF Does

LEMMA InitHolds == Init => Inv
<1>. SUFFICES ASSUME Init PROVE Inv
  OBVIOUS
<1>. USE NoneApart DEF Init
<1>1. Shape
  <2>1. NoSession \in Session
    BY DEF NoSession, Session
  <2>2. NoContext \in Context
    BY DEF NoContext, Context
  <2>. QED BY <2>1, <2>2, TaManagerAssumption DEF Shape, Places, Calls
<1>. USE DEF NoSession, NoContext
<1>2. Ops /\ Located /\ Linked /\ Fresh
  BY DEF Ops, Located, HasContext, Linked, Fresh, Opening, Seeking, Locking,
         Entering, Unlinking
<1>3. Locked /\ Busy /\ OneCallInTa
  BY DEF Locked, HoldsLock, Busy, OneCallInTa, Inside
<1>4. Sleepers /\ BusyHeard /\ SilHeard /\ LockHeard /\ InitHeard
  BY DEF Sleepers, BusyHeard, SilHeard, LockHeard, InitHeard, Asleep
<1>5. Referred /\ Openers /\ Users /\ Freed
  BY DEF Referred, HoldsRef, Openers, Opens, Users, Using, Freed, Leaving,
         Closing
<1>6. SessionRefs
  <2>. SUFFICES ASSUME NEW n \in Sess
       PROVE  sess[n].ref_count >= Cardinality(Refs(n))
    BY DEF SessionRefs
  <2>1. Refs(n) = {}
    BY DEF Refs, HoldsRef
  <2>2. sess[n].ref_count = 0
    OBVIOUS
  <2>. QED BY <2>1, <2>2, FS_EmptySet
<1>7. Counted /\ OneSession
  BY DEF Counted, OneSession
<1>. QED BY <1>1, <1>2, <1>3, <1>4, <1>5, <1>6, <1>7 DEF Inv

LEMMA InvHolds == Spec => []Inv
<1>1. Init => Inv
  BY InitHolds
<1>2. Inv /\ [Next]_vars => Inv'
  BY NextDoes, DoesKeeps, StandstillKeeps
<1>. QED BY <1>1, <1>2, PTL DEF Spec

-----------------------------------------------------------------------------
(***************************************************************************)
(* Type correctness: no count of tee_ta_manager.c goes below 0, though     *)
(* after a panic a count may exceed the references.                        *)
(***************************************************************************)
THEOREM TypeCorrect == Spec => []TypeOK
<1>1. Inv => TypeOK
  <2>. SUFFICES ASSUME Inv PROVE TypeOK
    OBVIOUS
  <2>1. ASSUME NEW n \in Sess
        PROVE  sess[n] \in [st : {"none", "listed", "freed"}, ref_count : Nat,
                            lock_thread : Threads \cup {None},
                            unlink : BOOLEAN, ctx : Ctxs \cup {None}]
    <3>1. Cardinality(Refs(n)) \in Nat
      BY FiniteCounts, FS_CardinalityType
    <3>2. sess[n] \in Session /\ sess[n].ref_count >= Cardinality(Refs(n))
      BY DEF Inv, Shape, SessionRefs
    <3>3. sess[n].ref_count \in Nat
      BY <3>1, <3>2 DEF Session
    <3>. QED BY <3>2, <3>3 DEF Session
  <2>2. sess \in [Sess -> [st : {"none", "listed", "freed"}, ref_count : Nat,
                           lock_thread : Threads \cup {None},
                           unlink : BOOLEAN, ctx : Ctxs \cup {None}]]
    BY <2>1 DEF Inv, Shape
  <2>. QED BY <2>2 DEF Inv, Shape, TypeOK, Context, Places, Calls
<1>. QED BY <1>1, InvHolds, PTL

(***************************************************************************)
(* A context runs one call at a time, and with the single-instance lock so *)
(* do all single-instance TAs together, panic or not.                      *)
(***************************************************************************)
THEOREM TaNotReentered == Spec => []OneCallInTa
<1>1. Inv => OneCallInTa
  BY DEF Inv
<1>. QED BY <1>1, InvHolds, PTL

(***************************************************************************)
(* From tee_ta_get_session() to tee_ta_put_session() or the end of the     *)
(* session no other thread invokes or closes it.                           *)
(***************************************************************************)
THEOREM SessionNotShared == Spec => []SessionExclusive
<1>1. Inv => SessionExclusive
  <2>. SUFFICES ASSUME Inv, NEW t \in Threads, NEW u \in Threads,
                       t # u, Serving(t), Serving(u), s[t] = s[u]
       PROVE  FALSE
    BY DEF SessionExclusive
  <2>1. HoldsLock(t) /\ HoldsLock(u)
    BY DEF Serving, HoldsLock, Locking, Closing
  <2>2. sess[s[t]].lock_thread = t /\ sess[s[u]].lock_thread = u
    BY <2>1 DEF Inv, Locked
  <2>. QED BY <2>2
<1>. QED BY <1>1, InvHolds, PTL

(***************************************************************************)
(* No thread sleeps for something that has happened: condvar_signal() of a *)
(* single waiter is enough at each place where tee_ta_manager.c uses it.   *)
(***************************************************************************)
THEOREM SignalsNotLost == Spec => []NoLostSignal
<1>1. Inv => NoLostSignal
  BY DEF Inv, NoLostSignal, BusyHeard, SilHeard, LockHeard, InitHeard
<1>. QED BY <1>1, InvHolds, PTL

(***************************************************************************)
(* A context of a TA that is not multi-session never has two references.   *)
(***************************************************************************)
THEOREM SingleSession == Spec => []OneSession
<1>1. Inv => OneSession
  BY DEF Inv
<1>. QED BY <1>1, InvHolds, PTL
=============================================================================
