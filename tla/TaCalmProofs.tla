---------------------------- MODULE TaCalmProofs ----------------------------
(***************************************************************************)
(* Proofs about the sessions and contexts of a TA that does not panic: its *)
(* counts are exact, and nothing is freed that is in use.                  *)
(***************************************************************************)
EXTENDS TaManagerProofs

(***************************************************************************)
(* Without a panic no open that fails has a result to tell, and a context  *)
(* is freed by a close that has taken it off the list.                     *)
(***************************************************************************)
NoPanic == \A x \in Ctxs : ~ctxs[x].panicked

Quiet ==
  \A t \in Threads :
    /\ pc[t] \notin {"destroyCtx", "tell"}
    /\ pc[t] = "freeCtx" => Closing(t) /\ ctxs[c[t]].st # "listed"
    /\ pc[t] \in Opening \/ (op[t] = "abort" /\ pc[t] # "idle") => ~res[t]

(***************************************************************************)
(* Threads that meet in a session are invokes, and at most one close.  The *)
(* client knows of sessions that are not being opened or closed.           *)
(***************************************************************************)
InCall(t) == pc[t] # "idle"

Meeting ==
  \A t, u \in Threads :
    t # u /\ InCall(t) /\ InCall(u) /\ s[t] = s[u] =>
      op[t] \in {"invoke", "close"} /\ (op[t] = "invoke" \/ op[u] = "invoke")

Told ==
  \A n \in known :
    /\ sess[n].st = "listed" /\ ~sess[n].unlink /\ sess[n].ctx # None
    /\ \A t \in Threads : InCall(t) /\ s[t] = n => op[t] = "invoke"

(***************************************************************************)
(* The session of a thread that has a reference, or is about to take one   *)
(* to close it, is listed and has a context, once it is initialised.       *)
(***************************************************************************)
Backed ==
  \A t \in Threads :
    HoldsRef(t) \/ pc[t] = "get" =>
      /\ sess[s[t]].st = "listed"
      /\ pc[t] \notin Seeking \cup {"initFail"} => sess[s[t]].ctx # None
      /\ op[t] # "invoke" /\ pc[t] \notin {"unlinkTurn", "refcWait"} =>
           ~sess[s[t]].unlink

Owning ==
  \A t \in Threads :
    /\ Using(t) \/ pc[t] = "loading" => sess[s[t]].ctx = c[t]
    /\ HoldsRef(t) /\ pc[t] \in Unlinking => c[t] # None

(***************************************************************************)
(* tee_ta_unlink_session() waits while there is another reference; a       *)
(* context being loaded is its opener's alone.                             *)
(***************************************************************************)
Awaited == \A t \in Threads : pc[t] = "refcWait" => sess[s[t]].ref_count >= 2

Loading ==
  \A t \in Threads :
    pc[t] = "loading" =>
      ctxs[c[t]].is_initializing /\ ctxs[c[t]].ref_count = 1

(***************************************************************************)
(* The context of a session, and one that a close is leaving, is listed.   *)
(***************************************************************************)
Alive ==
  \A n \in Sess :
    sess[n].st = "listed" /\ sess[n].ctx \in Ctxs =>
      ctxs[sess[n].ctx].st = "listed"

Left == \A t \in Threads : Leaving(t) => ctxs[c[t]].st = "listed"

(***************************************************************************)
(* The counts are exact.                                                   *)
(***************************************************************************)
SessExact ==
  \A n \in Sess :
    sess[n].st = "listed" => sess[n].ref_count = Cardinality(Refs(n))

CtxExact ==
  \A x \in Ctxs :
    ctxs[x].st = "listed" =>
      ctxs[x].ref_count = Cardinality(SessOf(x)) + Cardinality(DropsOf(x))

Calm ==
  /\ NoPanic /\ Quiet /\ Meeting /\ Told /\ Backed /\ Owning
  /\ Awaited /\ Loading /\ Alive /\ Left /\ SessExact /\ CtxExact

CalmInv == Inv /\ (~ta.CanPanic => Calm)

-----------------------------------------------------------------------------
(***************************************************************************)
(* What a step of thread t may do to the references of a session m, and to *)
(* those of a context y, and count them exactly.                           *)
(***************************************************************************)
RefsMoveBy(t, m) ==
  \/ sess'[m].st # "listed"
  \/ /\ sess[m].st = "listed" /\ sess'[m].ref_count = sess[m].ref_count
     /\ Refs(m)' = Refs(m)
  \/ /\ sess[m].st = "listed" /\ sess'[m].ref_count = sess[m].ref_count + 1
     /\ t \notin Refs(m) /\ Refs(m)' = Refs(m) \cup {t}
  \/ /\ sess[m].st = "listed" /\ sess'[m].ref_count = sess[m].ref_count - 1
     /\ t \in Refs(m) /\ Refs(m)' = Refs(m) \ {t}
  \/ sess'[m].ref_count = 1 /\ Refs(m)' = {t}

CountMovesBy(t, n, y) ==
  \/ ctxs'[y].st # "listed"
  \/ /\ ctxs[y].st = "listed" /\ ctxs'[y].ref_count = ctxs[y].ref_count
     /\ SessOf(y)' = SessOf(y) /\ DropsOf(y)' = DropsOf(y)
  \/ /\ ctxs[y].st = "listed" /\ ctxs'[y].ref_count = ctxs[y].ref_count + 1
     /\ n \notin SessOf(y) /\ SessOf(y)' = SessOf(y) \cup {n}
     /\ DropsOf(y)' = DropsOf(y)
  \/ /\ ctxs[y].st = "listed" /\ ctxs'[y].ref_count = ctxs[y].ref_count
     /\ n \in SessOf(y) /\ SessOf(y)' = SessOf(y) \ {n}
     /\ t \notin DropsOf(y) /\ DropsOf(y)' = DropsOf(y) \cup {t}
  \/ /\ ctxs[y].st = "listed" /\ ctxs'[y].ref_count = ctxs[y].ref_count - 1
     /\ SessOf(y)' = SessOf(y)
     /\ t \in DropsOf(y) /\ DropsOf(y)' = DropsOf(y) \ {t}
  \/ ctxs'[y].ref_count = 1 /\ SessOf(y)' = {n} /\ DropsOf(y)' = {}

LEMMA AddedCount ==
  ASSUME NEW A, NEW e, IsFiniteSet(A), e \notin A
  PROVE  /\ Cardinality(A) \in Nat
         /\ Cardinality(A \cup {e}) = Cardinality(A) + 1
BY FS_AddElement, FS_CardinalityType

LEMMA RemovedCount ==
  ASSUME NEW A, NEW e \in A, IsFiniteSet(A)
  PROVE  /\ Cardinality(A) \in Nat
         /\ Cardinality(A \ {e}) = Cardinality(A) - 1
BY FS_RemoveElement, FS_CardinalityType

LEMMA RefsExact ==
  ASSUME SessExact, Shape, Shape', NEW t, \A m \in Sess : RefsMoveBy(t, m)
  PROVE  SessExact'
<1>. SUFFICES ASSUME NEW m \in Sess, sess'[m].st = "listed"
     PROVE  sess'[m].ref_count = Cardinality(Refs(m)')
  BY DEF SessExact
<1>1. /\ RefsMoveBy(t, m)
      /\ sess[m].st = "listed" => sess[m].ref_count = Cardinality(Refs(m))
  BY DEF SessExact
<1>2. IsFiniteSet(Refs(m))
  BY FiniteCounts
<1>3. CASE /\ sess[m].st = "listed" /\ sess'[m].ref_count = sess[m].ref_count
           /\ Refs(m)' = Refs(m)
  BY <1>1, <1>3
<1>4. CASE /\ sess[m].st = "listed" /\ sess'[m].ref_count = sess[m].ref_count + 1
           /\ t \notin Refs(m) /\ Refs(m)' = Refs(m) \cup {t}
  BY <1>1, <1>2, <1>4, AddedCount
<1>5. CASE /\ sess[m].st = "listed" /\ sess'[m].ref_count = sess[m].ref_count - 1
           /\ t \in Refs(m) /\ Refs(m)' = Refs(m) \ {t}
  BY <1>1, <1>2, <1>5, RemovedCount
<1>6. CASE sess'[m].ref_count = 1 /\ Refs(m)' = {t}
  BY <1>6, FS_Singleton
<1>. QED BY <1>1, <1>3, <1>4, <1>5, <1>6 DEF RefsMoveBy

LEMMA CountsExact ==
  ASSUME CtxExact, Shape, Shape', NEW t, NEW n,
         \A y \in Ctxs : CountMovesBy(t, n, y)
  PROVE  CtxExact'
<1>. SUFFICES ASSUME NEW y \in Ctxs, ctxs'[y].st = "listed"
     PROVE  ctxs'[y].ref_count =
              Cardinality(SessOf(y)') + Cardinality(DropsOf(y)')
  BY DEF CtxExact
<1>1. /\ CountMovesBy(t, n, y)
      /\ ctxs[y].st = "listed" =>
           ctxs[y].ref_count = Cardinality(SessOf(y)) + Cardinality(DropsOf(y))
  BY DEF CtxExact
<1>2. /\ IsFiniteSet(SessOf(y)) /\ Cardinality(SessOf(y)) \in Nat
      /\ IsFiniteSet(DropsOf(y)) /\ Cardinality(DropsOf(y)) \in Nat
  BY FiniteCounts, FS_CardinalityType
<1>3. CASE /\ ctxs[y].st = "listed" /\ ctxs'[y].ref_count = ctxs[y].ref_count
           /\ SessOf(y)' = SessOf(y) /\ DropsOf(y)' = DropsOf(y)
  BY <1>1, <1>3
<1>4. CASE /\ ctxs[y].st = "listed"
           /\ ctxs'[y].ref_count = ctxs[y].ref_count + 1
           /\ n \notin SessOf(y) /\ SessOf(y)' = SessOf(y) \cup {n}
           /\ DropsOf(y)' = DropsOf(y)
  <2>1. Cardinality(SessOf(y)') = Cardinality(SessOf(y)) + 1
    BY <1>2, <1>4, AddedCount
  <2>. QED BY <1>1, <1>2, <1>4, <2>1
<1>5. CASE /\ ctxs[y].st = "listed" /\ ctxs'[y].ref_count = ctxs[y].ref_count
           /\ n \in SessOf(y) /\ SessOf(y)' = SessOf(y) \ {n}
           /\ t \notin DropsOf(y) /\ DropsOf(y)' = DropsOf(y) \cup {t}
  <2>1. Cardinality(SessOf(y)') = Cardinality(SessOf(y)) - 1
    BY <1>2, <1>5, RemovedCount
  <2>2. Cardinality(DropsOf(y)') = Cardinality(DropsOf(y)) + 1
    BY <1>2, <1>5, AddedCount
  <2>. QED BY <1>1, <1>2, <1>5, <2>1, <2>2
<1>6. CASE /\ ctxs[y].st = "listed"
           /\ ctxs'[y].ref_count = ctxs[y].ref_count - 1
           /\ SessOf(y)' = SessOf(y)
           /\ t \in DropsOf(y) /\ DropsOf(y)' = DropsOf(y) \ {t}
  <2>1. Cardinality(DropsOf(y)') = Cardinality(DropsOf(y)) - 1
    BY <1>2, <1>6, RemovedCount
  <2>. QED BY <1>1, <1>2, <1>6, <2>1
<1>7. CASE ctxs'[y].ref_count = 1 /\ SessOf(y)' = {n} /\ DropsOf(y)' = {}
  <2>1. Cardinality(SessOf(y)') = 1
    BY <1>7, FS_Singleton
  <2>2. Cardinality(DropsOf(y)') = 0
    BY <1>7, FS_EmptySet
  <2>. QED BY <1>7, <2>1, <2>2
<1>. QED BY <1>1, <1>3, <1>4, <1>5, <1>6, <1>7 DEF CountMovesBy

(***************************************************************************)
(* The last reference of a context: of the session being opened, or of the *)
(* session that a close has destroyed.                                     *)
(***************************************************************************)
LEMMA SoleSession ==
  ASSUME CalmInv, NEW x \in Ctxs, NEW n, n \in SessOf(x),
         ctxs[x].st = "listed", ctxs[x].ref_count = 1
  PROVE  (\A m \in SessOf(x) : m = n) /\ DropsOf(x) = {}
<1>1. /\ IsFiniteSet(SessOf(x)) /\ Cardinality(SessOf(x)) \in Nat
      /\ IsFiniteSet(DropsOf(x)) /\ Cardinality(DropsOf(x)) \in Nat
  BY FiniteCounts, FS_CardinalityType
<1>2. 1 >= Cardinality(SessOf(x)) + Cardinality(DropsOf(x))
  BY DEF CalmInv, Inv, Counted
<1>3. Cardinality(SessOf(x) \ {n}) = Cardinality(SessOf(x)) - 1
      /\ IsFiniteSet(SessOf(x) \ {n})
  BY <1>1, FS_RemoveElement
<1>4. Cardinality(SessOf(x) \ {n}) \in Nat
  BY <1>3, FS_CardinalityType
<1>5. Cardinality(SessOf(x) \ {n}) = 0 /\ Cardinality(DropsOf(x)) = 0
  BY <1>1, <1>2, <1>3, <1>4
<1>6. SessOf(x) \ {n} = {} /\ DropsOf(x) = {}
  BY <1>1, <1>3, <1>5, FS_EmptySet
<1>. QED BY <1>6

LEMMA SoleDrop ==
  ASSUME CalmInv, NEW x \in Ctxs, NEW t, t \in DropsOf(x),
         ctxs[x].st = "listed", ctxs[x].ref_count = 1
  PROVE  (\A u \in DropsOf(x) : u = t) /\ SessOf(x) = {}
<1>1. /\ IsFiniteSet(SessOf(x)) /\ Cardinality(SessOf(x)) \in Nat
      /\ IsFiniteSet(DropsOf(x)) /\ Cardinality(DropsOf(x)) \in Nat
  BY FiniteCounts, FS_CardinalityType
<1>2. 1 >= Cardinality(SessOf(x)) + Cardinality(DropsOf(x))
  BY DEF CalmInv, Inv, Counted
<1>3. Cardinality(DropsOf(x) \ {t}) = Cardinality(DropsOf(x)) - 1
      /\ IsFiniteSet(DropsOf(x) \ {t})
  BY <1>1, FS_RemoveElement
<1>4. Cardinality(DropsOf(x) \ {t}) \in Nat
  BY <1>3, FS_CardinalityType
<1>5. Cardinality(DropsOf(x) \ {t}) = 0 /\ Cardinality(SessOf(x)) = 0
  BY <1>1, <1>2, <1>3, <1>4
<1>6. DropsOf(x) \ {t} = {} /\ SessOf(x) = {}
  BY <1>1, <1>3, <1>5, FS_EmptySet
<1>. QED BY <1>6

LEMMA HasReference ==
  ASSUME Inv, NEW t \in Threads, HoldsRef(t), s[t] \in Sess
  PROVE  sess[s[t]].ref_count >= 1
<1>1. t \in Refs(s[t]) /\ IsFiniteSet(Refs(s[t]))
  BY FiniteCounts DEF Refs
<1>2. /\ Cardinality(Refs(s[t]) \ {t}) = Cardinality(Refs(s[t])) - 1
      /\ IsFiniteSet(Refs(s[t]) \ {t})
  BY <1>1, FS_RemoveElement
<1>3. Cardinality(Refs(s[t]) \ {t}) \in Nat /\ Cardinality(Refs(s[t])) \in Nat
  BY <1>1, <1>2, FS_CardinalityType
<1>4. sess[s[t]].ref_count >= Cardinality(Refs(s[t]))
  BY DEF Inv, SessionRefs
<1>5. sess[s[t]].ref_count \in Int
  BY DEF Inv, Shape, Session
<1>. QED BY <1>2, <1>3, <1>4, <1>5

-----------------------------------------------------------------------------
(***************************************************************************)
(* Every step of a TA that does not panic keeps it calm.                   *)
(***************************************************************************)
USE NoneApart DEF CalmInv, Calm, Inv, Shape, Me, Moves, Still, SessIs, CtxIs,
    Asleep, Dead, Places, Calls, Seeking, Opening, Locking, Entering,
    Unlinking, Closing

LEMMA CalmStartsOpen ==
  ASSUME NEW t \in Threads, NEW n \in Sess, NEW l \in Places,
         CalmInv, Inv', ~ta.CanPanic, StartsOpen(t, n, l)
  PROVE  Calm'
<1>. USE DEF StartsOpen, SeekTo
<1>1. NoPanic'
  BY DEF NoPanic
<1>2. Quiet'
  BY DEF Quiet, NoPanic, Located, HasContext, Ops, Backed, HoldsRef
<1>3. Meeting'
  BY DEF Meeting, InCall, Told, Located, Ops
<1>4. Told'
  BY DEF Told, Meeting, InCall, Located, Backed, HoldsRef, Ops
<1>5. Backed'
  BY DEF Backed, HoldsRef, Told, Meeting, InCall, Located, Openers, Opens, Ops,
     Quiet
<1>6. Owning'
  BY DEF Owning, Using, HoldsRef, Backed, Meeting, InCall, Located, HasContext,
     Openers, Opens, Ops, NoPanic, Quiet, Fresh
<1>7. Awaited'
  BY DEF Awaited, Located, Ops, Session
<1>8. Loading'
  BY DEF Loading, Located, HasContext, Ops
<1>9. Alive'
  BY DEF Alive, Located, Fresh, Quiet
<1>10. Left'
  BY DEF Left, Leaving, Alive, Located, HasContext, Ops, Owning, Using,
     HoldsRef, Backed, Quiet
<1>11. SessExact'
  <2>. SUFFICES ASSUME NEW m \in Sess PROVE RefsMoveBy(t, m)
    BY RefsExact
  <2>. QED
    BY DEF RefsMoveBy, Refs, HoldsRef, Located, Ops, Backed
<1>12. CtxExact'
  <2>. SUFFICES ASSUME NEW y \in Ctxs PROVE CountMovesBy(t, n, y)
    BY CountsExact
  <2>1. DropsOf(y)' = DropsOf(y)
    BY DEF DropsOf, Leaving, Ops
  <2>2. SessOf(y)' = SessOf(y)
    BY DEF SessOf, Fresh, Openers, Opens, Ops
  <2>. QED BY <2>1, <2>2 DEF CountMovesBy
<1>. QED
  BY <1>1, <1>2, <1>3, <1>4, <1>5, <1>6, <1>7, <1>8, <1>9, <1>10, <1>11, <1>12

LEMMA CalmStartsShared ==
  ASSUME NEW t \in Threads, NEW n \in Sess, NEW x \in Ctxs,
         CalmInv, Inv', ~ta.CanPanic, StartsShared(t, n, x)
  PROVE  Calm'
<1>. USE DEF StartsShared, Shares
<1>0. \A y \in Ctxs : ctxs'[y].st = ctxs[y].st
  OBVIOUS
<1>1. NoPanic'
  BY DEF NoPanic
<1>2. Quiet'
  <2>. SUFFICES ASSUME NEW u \in Threads
       PROVE  /\ pc'[u] \notin {"destroyCtx", "tell"}
              /\ pc'[u] = "freeCtx" =>
                   Closing(u)' /\ ctxs'[c'[u]].st # "listed"
              /\ pc'[u] \in Opening \/ (op'[u] = "abort" /\ pc'[u] # "idle") =>
                   ~res'[u]
    BY DEF Quiet
  <2>1. CASE u = t
    BY <2>1
  <2>2. CASE u # t
    <3>1. pc[u] = "freeCtx" => c[u] \in Ctxs
      BY DEF Located, HasContext
    <3>. QED BY <1>0, <2>2, <3>1 DEF Quiet
  <2>. QED BY <2>1, <2>2
<1>3. Meeting'
  BY DEF Meeting, InCall, Told, Located, Ops
<1>4. Told'
  BY DEF Told, Meeting, InCall, Located, Backed, HoldsRef, Ops
<1>5. Backed'
  <2>. SUFFICES ASSUME NEW u \in Threads, HoldsRef(u)' \/ pc'[u] = "get"
       PROVE  /\ sess'[s'[u]].st = "listed"
              /\ pc'[u] \notin Seeking \cup {"initFail"} => sess'[s'[u]].ctx # None
              /\ op'[u] # "invoke" /\ pc'[u] \notin {"unlinkTurn", "refcWait"} =>
                   ~sess'[s'[u]].unlink
    BY DEF Backed
  <2>1. CASE u = t
    BY <2>1
  <2>2. CASE u # t
    <3>1. HoldsRef(u) \/ pc[u] = "get"
      BY <2>2 DEF HoldsRef
    <3>2. s[u] \in Sess \ {n}
      BY <3>1 DEF HoldsRef, Located
    <3>. QED BY <2>2, <3>1, <3>2 DEF Backed
  <2>. QED BY <2>1, <2>2
<1>6. Owning'
  BY DEF Owning, Using, HoldsRef, Backed, Meeting, InCall, Located, HasContext,
     Openers, Opens, Ops, NoPanic, Quiet, Fresh
<1>7. Awaited'
  BY DEF Awaited, Located, Ops, Session
<1>8. Loading'
  BY DEF Loading, Located, HasContext, Ops
<1>9. Alive'
  BY <1>0 DEF Alive, Located, Fresh, Quiet
<1>10. Left'
  BY DEF Left, Leaving, Alive, Located, HasContext, Ops, Owning, Using,
     HoldsRef, Backed, Quiet
<1>11. SessExact'
  <2>. SUFFICES ASSUME NEW m \in Sess PROVE RefsMoveBy(t, m)
    BY RefsExact
  <2>. QED
    BY DEF RefsMoveBy, Refs, HoldsRef, Located, Ops, Backed
<1>12. CtxExact'
  <2>. SUFFICES ASSUME NEW y \in Ctxs PROVE CountMovesBy(t, n, y)
    BY CountsExact
  <2>1. DropsOf(y)' = DropsOf(y)
    BY DEF DropsOf, Leaving, Ops
  <2>2. /\ SessOf(y)' = IF y = x THEN SessOf(y) \cup {n} ELSE SessOf(y)
        /\ n \notin SessOf(y)
    BY DEF SessOf, Fresh
  <2>. QED BY <2>1, <2>2 DEF CountMovesBy
<1>. QED
  BY <1>1, <1>2, <1>3, <1>4, <1>5, <1>6, <1>7, <1>8, <1>9, <1>10, <1>11, <1>12

LEMMA CalmSeeks ==
  ASSUME NEW t \in Threads, NEW l \in Places,
         CalmInv, Inv', ~ta.CanPanic, Seeks(t, l)
  PROVE  Calm'
<1>. USE DEF Seeks, SeekTo
<1>1. NoPanic'
  BY DEF NoPanic
<1>2. Quiet'
  BY DEF Quiet, NoPanic, Located, HasContext, Ops, Backed, HoldsRef
<1>3. Meeting'
  BY DEF Meeting, InCall, Told, Located, Ops
<1>4. Told'
  BY DEF Told, Meeting, InCall, Located, Backed, HoldsRef, Ops
<1>5. Backed'
  BY DEF Backed, HoldsRef, Told, Meeting, InCall, Located, Openers, Opens, Ops,
     Quiet
<1>6. Owning'
  BY DEF Owning, Using, HoldsRef, Backed, Meeting, InCall, Located, HasContext,
     Openers, Opens, Ops, NoPanic, Quiet, Fresh
<1>7. Awaited'
  BY DEF Awaited, Located, Ops, Session
<1>8. Loading'
  BY DEF Loading, Located, HasContext, Ops
<1>9. Alive'
  BY DEF Alive, Located, Fresh, Quiet
<1>10. Left'
  BY DEF Left, Leaving, Alive, Located, HasContext, Ops, Owning, Using,
     HoldsRef, Backed, Quiet
<1>11. SessExact'
  <2>. SUFFICES ASSUME NEW m \in Sess PROVE RefsMoveBy(t, m)
    BY RefsExact
  <2>. QED
    BY DEF RefsMoveBy, Refs, HoldsRef, Located, Ops, Backed
<1>12. CtxExact'
  <2>. SUFFICES ASSUME NEW y \in Ctxs PROVE CountMovesBy(t, None, y)
    BY CountsExact
  <2>1. DropsOf(y)' = DropsOf(y)
    BY DEF DropsOf, Leaving, Ops
  <2>2. SessOf(y)' = SessOf(y)
    BY DEF SessOf, Fresh, Openers, Opens, Ops
  <2>. QED BY <2>1, <2>2 DEF CountMovesBy
<1>. QED
  BY <1>1, <1>2, <1>3, <1>4, <1>5, <1>6, <1>7, <1>8, <1>9, <1>10, <1>11, <1>12

LEMMA CalmJoins ==
  ASSUME NEW t \in Threads, NEW n \in Sess, NEW x \in Ctxs,
         CalmInv, Inv', ~ta.CanPanic, Joins(t, n, x)
  PROVE  Calm'
<1>. USE DEF Joins, Shares
<1>1. NoPanic'
  BY DEF NoPanic
<1>2. Quiet'
  BY DEF Quiet, NoPanic, Located, HasContext, Ops, Backed, HoldsRef
<1>3. Meeting'
  BY DEF Meeting, InCall, Told, Located, Ops
<1>4. Told'
  BY DEF Told, Meeting, InCall, Located, Backed, HoldsRef, Ops
<1>5. Backed'
  BY DEF Backed, HoldsRef, Told, Meeting, InCall, Located, Openers, Opens, Ops,
     Quiet
<1>6. Owning'
  BY DEF Owning, Using, HoldsRef, Backed, Meeting, InCall, Located, HasContext,
     Openers, Opens, Ops, NoPanic, Quiet, Fresh
<1>7. Awaited'
  BY DEF Awaited, Located, Ops, Session
<1>8. Loading'
  BY DEF Loading, Located, HasContext, Ops
<1>9. Alive'
  BY DEF Alive, Located, Fresh, Quiet
<1>10. Left'
  BY DEF Left, Leaving, Alive, Located, HasContext, Ops, Owning, Using,
     HoldsRef, Backed, Quiet
<1>11. SessExact'
  <2>. SUFFICES ASSUME NEW m \in Sess PROVE RefsMoveBy(t, m)
    BY RefsExact
  <2>. QED
    BY DEF RefsMoveBy, Refs, HoldsRef, Located, Ops, Backed
<1>12. CtxExact'
  <2>. SUFFICES ASSUME NEW y \in Ctxs PROVE CountMovesBy(t, n, y)
    BY CountsExact
  <2>1. DropsOf(y)' = DropsOf(y)
    BY DEF DropsOf, Leaving, Ops
  <2>2. /\ SessOf(y)' = IF y = x THEN SessOf(y) \cup {n} ELSE SessOf(y)
        /\ n \notin SessOf(y)
    BY DEF SessOf, Openers, Opens, Ops
  <2>. QED BY <2>1, <2>2 DEF CountMovesBy
<1>. QED
  BY <1>1, <1>2, <1>3, <1>4, <1>5, <1>6, <1>7, <1>8, <1>9, <1>10, <1>11, <1>12

LEMMA CalmLoads ==
  ASSUME NEW t \in Threads, NEW n \in Sess, NEW x \in Ctxs,
         CalmInv, Inv', ~ta.CanPanic, Loads(t, n, x)
  PROVE  Calm'
<1>. USE DEF Loads
<1>1. NoPanic'
  BY DEF NoPanic
<1>2. Quiet'
  BY DEF Quiet, NoPanic, Located, HasContext, Ops, Backed, HoldsRef
<1>3. Meeting'
  BY DEF Meeting, InCall, Told, Located, Ops
<1>4. Told'
  BY DEF Told, Meeting, InCall, Located, Backed, HoldsRef, Ops
<1>5. Backed'
  BY DEF Backed, HoldsRef, Told, Meeting, InCall, Located, Openers, Opens, Ops,
     Quiet
<1>6. Owning'
  BY DEF Owning, Using, HoldsRef, Backed, Meeting, InCall, Located, HasContext,
     Openers, Opens, Ops, NoPanic, Quiet, Fresh
<1>7. Awaited'
  BY DEF Awaited, Located, Ops, Session
<1>8. Loading'
  BY DEF Loading, Located, HasContext, Ops
<1>9. Alive'
  BY DEF Alive, Located, Fresh, Quiet, Openers, Opens, Ops
<1>10. Left'
  BY DEF Left, Leaving, Alive, Located, HasContext, Ops, Owning, Using,
     HoldsRef, Backed, Quiet
<1>11. SessExact'
  <2>. SUFFICES ASSUME NEW m \in Sess PROVE RefsMoveBy(t, m)
    BY RefsExact
  <2>. QED
    BY DEF RefsMoveBy, Refs, HoldsRef, Located, Ops, Backed
<1>12. CtxExact'
  <2>. SUFFICES ASSUME NEW y \in Ctxs PROVE CountMovesBy(t, n, y)
    BY CountsExact
  <2>1. DropsOf(y)' = IF y = x THEN {} ELSE DropsOf(y)
    BY DEF DropsOf, Leaving, Ops, Located
  <2>2. SessOf(y)' = IF y = x THEN {n} ELSE SessOf(y)
    BY DEF SessOf, Openers, Opens, Ops, Linked
  <2>. QED BY <2>1, <2>2 DEF CountMovesBy
<1>. QED
  BY <1>1, <1>2, <1>3, <1>4, <1>5, <1>6, <1>7, <1>8, <1>9, <1>10, <1>11, <1>12

LEMMA CalmLoadRefused ==
  ASSUME NEW t \in Threads,
         CalmInv, Inv', ~ta.CanPanic, LoadRefused(t)
  PROVE  Calm'
<1>. USE DEF LoadRefused
<1>1. NoPanic'
  BY DEF NoPanic
<1>2. Quiet'
  BY DEF Quiet, NoPanic, Located, HasContext, Ops, Backed, HoldsRef
<1>3. Meeting'
  BY DEF Meeting, InCall, Told, Located, Ops
<1>4. Told'
  BY DEF Told, Meeting, InCall, Located, Backed, HoldsRef, Ops
<1>5. Backed'
  BY DEF Backed, HoldsRef, Told, Meeting, InCall, Located, Openers, Opens, Ops,
     Quiet
<1>6. Owning'
  BY DEF Owning, Using, HoldsRef, Backed, Meeting, InCall, Located, HasContext,
     Openers, Opens, Ops, NoPanic, Quiet, Fresh
<1>7. Awaited'
  BY DEF Awaited, Located, Ops, Session
<1>8. Loading'
  BY DEF Loading, Located, HasContext, Ops
<1>9. Alive'
  BY DEF Alive, Located, Fresh, Quiet
<1>10. Left'
  BY DEF Left, Leaving, Alive, Located, HasContext, Ops, Owning, Using,
     HoldsRef, Backed, Quiet
<1>11. SessExact'
  <2>. SUFFICES ASSUME NEW m \in Sess PROVE RefsMoveBy(t, m)
    BY RefsExact
  <2>. QED
    BY DEF RefsMoveBy, Refs, HoldsRef, Located, Ops, Backed
<1>12. CtxExact'
  <2>. SUFFICES ASSUME NEW y \in Ctxs PROVE CountMovesBy(t, None, y)
    BY CountsExact
  <2>1. DropsOf(y)' = DropsOf(y)
    BY DEF DropsOf, Leaving, Ops
  <2>2. SessOf(y)' = SessOf(y)
    BY DEF SessOf, Fresh, Openers, Opens, Ops
  <2>. QED BY <2>1, <2>2 DEF CountMovesBy
<1>. QED
  BY <1>1, <1>2, <1>3, <1>4, <1>5, <1>6, <1>7, <1>8, <1>9, <1>10, <1>11, <1>12

LEMMA CalmLoadDone ==
  ASSUME NEW t \in Threads, NEW x \in Ctxs,
         CalmInv, Inv', ~ta.CanPanic, LoadDone(t, x)
  PROVE  Calm'
<1>. USE DEF LoadDone, LoadersTold
<1>1. NoPanic'
  BY DEF NoPanic
<1>2. Quiet'
  BY DEF Quiet, NoPanic, Located, HasContext, Ops, Backed, HoldsRef
<1>3. Meeting'
  BY DEF Meeting, InCall, Told, Located, Ops
<1>4. Told'
  BY DEF Told, Meeting, InCall, Located, Backed, HoldsRef, Ops
<1>5. Backed'
  BY DEF Backed, HoldsRef, Told, Meeting, InCall, Located, Openers, Opens, Ops,
     Quiet
<1>6. Owning'
  BY DEF Owning, Using, HoldsRef, Backed, Meeting, InCall, Located, HasContext,
     Openers, Opens, Ops, NoPanic, Quiet, Fresh
<1>7. Awaited'
  BY DEF Awaited, Located, Ops, Session
<1>8. Loading'
  <2>. SUFFICES ASSUME NEW u \in Threads \ {t}, pc[u] = "loading", c[u] = x
       PROVE  FALSE
    BY DEF Loading, Located, HasContext
  <2>1. s[t] \in SessOf(x) /\ s[u] \in SessOf(x)
    BY DEF SessOf, Located, Backed, Owning, HoldsRef
  <2>2. ctxs[x].st = "listed" /\ ctxs[x].ref_count = 1
    BY <2>1 DEF SessOf, Alive, Loading
  <2>3. s[t] = s[u]
    BY <2>1, <2>2, SoleSession
  <2>. QED BY <2>3 DEF Openers, Opens, Ops
<1>9. Alive'
  BY DEF Alive, Located, Fresh, Quiet
<1>10. Left'
  BY DEF Left, Leaving, Alive, Located, HasContext, Ops, Owning, Using,
     HoldsRef, Backed, Quiet
<1>11. SessExact'
  <2>. SUFFICES ASSUME NEW m \in Sess PROVE RefsMoveBy(t, m)
    BY RefsExact
  <2>. QED
    BY DEF RefsMoveBy, Refs, HoldsRef, Located, Ops, Backed
<1>12. CtxExact'
  <2>. SUFFICES ASSUME NEW y \in Ctxs PROVE CountMovesBy(t, None, y)
    BY CountsExact
  <2>1. DropsOf(y)' = DropsOf(y)
    BY DEF DropsOf, Leaving, Ops
  <2>2. SessOf(y)' = SessOf(y)
    BY DEF SessOf, Fresh, Openers, Opens, Ops
  <2>. QED BY <2>1, <2>2 DEF CountMovesBy
<1>. QED
  BY <1>1, <1>2, <1>3, <1>4, <1>5, <1>6, <1>7, <1>8, <1>9, <1>10, <1>11, <1>12

LEMMA CalmLoadFailed ==
  ASSUME NEW t \in Threads, NEW n \in Sess, NEW x \in Ctxs,
         CalmInv, Inv', ~ta.CanPanic, LoadFailed(t, n, x)
  PROVE  Calm'
<1>. USE DEF LoadFailed, LoadersTold
<1>0. (\A m \in SessOf(x) : m = n) /\ DropsOf(x) = {}
  <2>1. n \in SessOf(x)
    BY DEF SessOf, Located, Backed, Owning, HoldsRef
  <2>2. ctxs[x].st = "listed" /\ ctxs[x].ref_count = 1
    BY <2>1 DEF SessOf, Alive, Loading
  <2>. QED BY <2>1, <2>2, SoleSession
<1>1. NoPanic'
  BY DEF NoPanic
<1>2. Quiet'
  BY DEF Quiet, NoPanic, Located, HasContext, Ops, Backed, HoldsRef
<1>3. Meeting'
  BY DEF Meeting, InCall, Told, Located, Ops
<1>4. Told'
  BY DEF Told, Meeting, InCall, Located, Backed, HoldsRef, Ops
<1>5. Backed'
  BY DEF Backed, HoldsRef, Told, Meeting, InCall, Located, Openers, Opens, Ops,
     Quiet
<1>6. Owning'
  BY DEF Owning, Using, HoldsRef, Backed, Meeting, InCall, Located, HasContext,
     Openers, Opens, Ops, NoPanic, Quiet, Fresh
<1>7. Awaited'
  BY DEF Awaited, Located, Ops, Session
<1>8. Loading'
  BY DEF Loading, Located, HasContext, Ops
<1>9. Alive'
  BY <1>0 DEF Alive, Located, Fresh, Quiet, SessOf
<1>10. Left'
  BY <1>0 DEF Left, Leaving, Alive, Located, HasContext, Ops, Owning, Using,
     HoldsRef, Backed, Quiet, DropsOf
<1>11. SessExact'
  <2>. SUFFICES ASSUME NEW m \in Sess PROVE RefsMoveBy(t, m)
    BY RefsExact
  <2>. QED
    BY DEF RefsMoveBy, Refs, HoldsRef, Located, Ops, Backed
<1>12. CtxExact'
  <2>. SUFFICES ASSUME NEW y \in Ctxs PROVE CountMovesBy(t, n, y)
    BY CountsExact
  <2>1. DropsOf(y)' = DropsOf(y)
    BY DEF DropsOf, Leaving, Ops
  <2>2. y # x => SessOf(y)' = SessOf(y)
    BY DEF SessOf, Owning
  <2>. QED BY <2>1, <2>2 DEF CountMovesBy
<1>. QED
  BY <1>1, <1>2, <1>3, <1>4, <1>5, <1>6, <1>7, <1>8, <1>9, <1>10, <1>11, <1>12

LEMMA CalmInitFailed ==
  ASSUME NEW t \in Threads, NEW n \in Sess,
         CalmInv, Inv', ~ta.CanPanic, InitFailed(t, n)
  PROVE  Calm'
<1>. USE DEF InitFailed
<1>1. NoPanic'
  BY DEF NoPanic
<1>2. Quiet'
  BY DEF Quiet, NoPanic, Located, HasContext, Ops, Backed, HoldsRef
<1>3. Meeting'
  BY DEF Meeting, InCall, Told, Located, Ops
<1>4. Told'
  BY DEF Told, Meeting, InCall, Located, Backed, HoldsRef, Ops
<1>5. Backed'
  BY DEF Backed, HoldsRef, Told, Meeting, InCall, Located, Openers, Opens, Ops,
     Quiet
<1>6. Owning'
  BY DEF Owning, Using, HoldsRef, Backed, Meeting, InCall, Located, HasContext,
     Openers, Opens, Ops, NoPanic, Quiet, Fresh
<1>7. Awaited'
  BY DEF Awaited, Located, Ops, Session
<1>8. Loading'
  BY DEF Loading, Located, HasContext, Ops
<1>9. Alive'
  BY DEF Alive, Located, Fresh, Quiet
<1>10. Left'
  BY DEF Left, Leaving, Alive, Located, HasContext, Ops, Owning, Using,
     HoldsRef, Backed, Quiet
<1>11. SessExact'
  <2>. SUFFICES ASSUME NEW m \in Sess PROVE RefsMoveBy(t, m)
    BY RefsExact
  <2>. QED
    BY DEF RefsMoveBy, Refs, HoldsRef, Located, Ops, Backed
<1>12. CtxExact'
  <2>. SUFFICES ASSUME NEW y \in Ctxs PROVE CountMovesBy(t, n, y)
    BY CountsExact
  <2>1. DropsOf(y)' = DropsOf(y)
    BY DEF DropsOf, Leaving, Ops
  <2>2. SessOf(y)' = SessOf(y)
    BY DEF SessOf, Fresh, Openers, Opens, Ops
  <2>. QED BY <2>1, <2>2 DEF CountMovesBy
<1>. QED
  BY <1>1, <1>2, <1>3, <1>4, <1>5, <1>6, <1>7, <1>8, <1>9, <1>10, <1>11, <1>12

LEMMA CalmGetRefused ==
  ASSUME NEW t \in Threads, NEW o \in Calls, NEW n \in Sess, NEW l \in Places,
         CalmInv, Inv', ~ta.CanPanic, GetRefused(t, o, n, l)
  PROVE  Calm'
<1>. USE DEF GetRefused, GetsFor, EndsAt
<1>1. NoPanic'
  BY DEF NoPanic
<1>2. Quiet'
  BY DEF Quiet, NoPanic, Located, HasContext, Ops, Backed, HoldsRef
<1>3. Meeting'
  BY DEF Meeting, InCall, Told, Located, Ops
<1>4. Told'
  BY DEF Told, Meeting, InCall, Located, Backed, HoldsRef, Ops
<1>5. Backed'
  BY DEF Backed, HoldsRef, Told, Meeting, InCall, Located, Openers, Opens, Ops,
     Quiet
<1>6. Owning'
  BY DEF Owning, Using, HoldsRef, Backed, Meeting, InCall, Located, HasContext,
     Openers, Opens, Ops, NoPanic, Quiet, Fresh
<1>7. Awaited'
  BY DEF Awaited, Located, Ops, Session
<1>8. Loading'
  BY DEF Loading, Located, HasContext, Ops
<1>9. Alive'
  BY DEF Alive, Located, Fresh, Quiet
<1>10. Left'
  BY DEF Left, Leaving, Alive, Located, HasContext, Ops, Owning, Using,
     HoldsRef, Backed, Quiet
<1>11. SessExact'
  <2>. SUFFICES ASSUME NEW m \in Sess PROVE RefsMoveBy(t, m)
    BY RefsExact
  <2>. QED
    BY DEF RefsMoveBy, Refs, HoldsRef, Located, Ops, Backed
<1>12. CtxExact'
  <2>. SUFFICES ASSUME NEW y \in Ctxs PROVE CountMovesBy(t, n, y)
    BY CountsExact
  <2>1. DropsOf(y)' = DropsOf(y)
    BY DEF DropsOf, Leaving, Ops
  <2>2. SessOf(y)' = SessOf(y)
    BY DEF SessOf, Fresh, Openers, Opens, Ops
  <2>. QED BY <2>1, <2>2 DEF CountMovesBy
<1>. QED
  BY <1>1, <1>2, <1>3, <1>4, <1>5, <1>6, <1>7, <1>8, <1>9, <1>10, <1>11, <1>12

LEMMA CalmGetLocks ==
  ASSUME NEW t \in Threads, NEW o \in Calls, NEW n \in Sess,
         CalmInv, Inv', ~ta.CanPanic, GetLocks(t, o, n)
  PROVE  Calm'
<1>. USE DEF GetLocks, GetsFor
<1>1. NoPanic'
  BY DEF NoPanic
<1>2. Quiet'
  BY DEF Quiet, NoPanic, Located, HasContext, Ops, Backed, HoldsRef
<1>3. Meeting'
  BY DEF Meeting, InCall, Told, Located, Ops
<1>4. Told'
  BY DEF Told, Meeting, InCall, Located, Backed, HoldsRef, Ops
<1>5. Backed'
  BY DEF Backed, HoldsRef, Told, Meeting, InCall, Located, Openers, Opens, Ops,
     Quiet
<1>6. Owning'
  BY DEF Owning, Using, HoldsRef, Backed, Meeting, InCall, Located, HasContext,
     Openers, Opens, Ops, NoPanic, Quiet, Fresh
<1>7. Awaited'
  <2>1. sess[n].ref_count \in Int /\ sess'[n].ref_count = sess[n].ref_count + 1
    BY DEF Session
  <2>. QED BY <2>1 DEF Awaited, Located
<1>8. Loading'
  BY DEF Loading, Located, HasContext, Ops
<1>9. Alive'
  BY DEF Alive, Located, Fresh, Quiet
<1>10. Left'
  BY DEF Left, Leaving, Alive, Located, HasContext, Ops, Owning, Using,
     HoldsRef, Backed, Quiet
<1>11. SessExact'
  <2>. SUFFICES ASSUME NEW m \in Sess PROVE RefsMoveBy(t, m)
    BY RefsExact
  <2>. QED
    BY DEF RefsMoveBy, Refs, HoldsRef, Located, Ops, Backed
<1>12. CtxExact'
  <2>. SUFFICES ASSUME NEW y \in Ctxs PROVE CountMovesBy(t, n, y)
    BY CountsExact
  <2>1. DropsOf(y)' = DropsOf(y)
    BY DEF DropsOf, Leaving, Ops
  <2>2. SessOf(y)' = SessOf(y)
    BY DEF SessOf, Fresh, Openers, Opens, Ops
  <2>. QED BY <2>1, <2>2 DEF CountMovesBy
<1>. QED
  BY <1>1, <1>2, <1>3, <1>4, <1>5, <1>6, <1>7, <1>8, <1>9, <1>10, <1>11, <1>12

LEMMA CalmGetWaits ==
  ASSUME NEW t \in Threads, NEW o \in Calls, NEW n \in Sess,
         CalmInv, Inv', ~ta.CanPanic, GetWaits(t, o, n)
  PROVE  Calm'
<1>. USE DEF GetWaits, GetsFor
<1>1. NoPanic'
  BY DEF NoPanic
<1>2. Quiet'
  BY DEF Quiet, NoPanic, Located, HasContext, Ops, Backed, HoldsRef
<1>3. Meeting'
  BY DEF Meeting, InCall, Told, Located, Ops
<1>4. Told'
  BY DEF Told, Meeting, InCall, Located, Backed, HoldsRef, Ops
<1>5. Backed'
  BY DEF Backed, HoldsRef, Told, Meeting, InCall, Located, Openers, Opens, Ops,
     Quiet
<1>6. Owning'
  BY DEF Owning, Using, HoldsRef, Backed, Meeting, InCall, Located, HasContext,
     Openers, Opens, Ops, NoPanic, Quiet, Fresh
<1>7. Awaited'
  <2>1. sess[n].ref_count \in Int /\ sess'[n].ref_count = sess[n].ref_count + 1
    BY DEF Session
  <2>. QED BY <2>1 DEF Awaited, Located
<1>8. Loading'
  BY DEF Loading, Located, HasContext, Ops
<1>9. Alive'
  BY DEF Alive, Located, Fresh, Quiet
<1>10. Left'
  BY DEF Left, Leaving, Alive, Located, HasContext, Ops, Owning, Using,
     HoldsRef, Backed, Quiet
<1>11. SessExact'
  <2>. SUFFICES ASSUME NEW m \in Sess PROVE RefsMoveBy(t, m)
    BY RefsExact
  <2>. QED
    BY DEF RefsMoveBy, Refs, HoldsRef, Located, Ops, Backed
<1>12. CtxExact'
  <2>. SUFFICES ASSUME NEW y \in Ctxs PROVE CountMovesBy(t, n, y)
    BY CountsExact
  <2>1. DropsOf(y)' = DropsOf(y)
    BY DEF DropsOf, Leaving, Ops
  <2>2. SessOf(y)' = SessOf(y)
    BY DEF SessOf, Fresh, Openers, Opens, Ops
  <2>. QED BY <2>1, <2>2 DEF CountMovesBy
<1>. QED
  BY <1>1, <1>2, <1>3, <1>4, <1>5, <1>6, <1>7, <1>8, <1>9, <1>10, <1>11, <1>12

LEMMA CalmCloses ==
  ASSUME NEW t \in Threads, NEW n \in Sess,
         CalmInv, Inv', ~ta.CanPanic, Closes(t, n)
  PROVE  Calm'
<1>. USE DEF Closes
<1>1. NoPanic'
  BY DEF NoPanic
<1>2. Quiet'
  BY DEF Quiet, NoPanic, Located, HasContext, Ops, Backed, HoldsRef
<1>3. Meeting'
  BY DEF Meeting, InCall, Told, Located, Ops
<1>4. Told'
  BY DEF Told, Meeting, InCall, Located, Backed, HoldsRef, Ops
<1>5. Backed'
  BY DEF Backed, HoldsRef, Told, Meeting, InCall, Located, Openers, Opens, Ops,
     Quiet
<1>6. Owning'
  BY DEF Owning, Using, HoldsRef, Backed, Meeting, InCall, Located, HasContext,
     Openers, Opens, Ops, NoPanic, Quiet, Fresh
<1>7. Awaited'
  BY DEF Awaited, Located, Ops, Session
<1>8. Loading'
  BY DEF Loading, Located, HasContext, Ops
<1>9. Alive'
  BY DEF Alive, Located, Fresh, Quiet
<1>10. Left'
  BY DEF Left, Leaving, Alive, Located, HasContext, Ops, Owning, Using,
     HoldsRef, Backed, Quiet
<1>11. SessExact'
  <2>. SUFFICES ASSUME NEW m \in Sess PROVE RefsMoveBy(t, m)
    BY RefsExact
  <2>. QED
    BY DEF RefsMoveBy, Refs, HoldsRef, Located, Ops, Backed
<1>12. CtxExact'
  <2>. SUFFICES ASSUME NEW y \in Ctxs PROVE CountMovesBy(t, n, y)
    BY CountsExact
  <2>1. DropsOf(y)' = DropsOf(y)
    BY DEF DropsOf, Leaving, Ops
  <2>2. SessOf(y)' = SessOf(y)
    BY DEF SessOf, Fresh, Openers, Opens, Ops
  <2>. QED BY <2>1, <2>2 DEF CountMovesBy
<1>. QED
  BY <1>1, <1>2, <1>3, <1>4, <1>5, <1>6, <1>7, <1>8, <1>9, <1>10, <1>11, <1>12

LEMMA CalmGivesUp ==
  ASSUME NEW t \in Threads, NEW n \in Sess, NEW l \in Places,
         CalmInv, Inv', ~ta.CanPanic, GivesUp(t, n, l)
  PROVE  Calm'
<1>. USE DEF GivesUp, EndsAt, UnlinkerTold, RefcWaiters
<1>1. NoPanic'
  BY DEF NoPanic
<1>2. Quiet'
  BY DEF Quiet, NoPanic, Located, HasContext, Ops, Backed, HoldsRef
<1>3. Meeting'
  BY DEF Meeting, InCall, Told, Located, Ops
<1>4. Told'
  BY DEF Told, Meeting, InCall, Located, Backed, HoldsRef, Ops
<1>5. Backed'
  BY DEF Backed, HoldsRef, Told, Meeting, InCall, Located, Openers, Opens, Ops,
     Quiet
<1>6. Owning'
  BY DEF Owning, Using, HoldsRef, Backed, Meeting, InCall, Located, HasContext,
     Openers, Opens, Ops, NoPanic, Quiet, Fresh
<1>7. Awaited'
  <2>. SUFFICES ASSUME NEW u \in Threads, pc'[u] = "refcWait"
       PROVE  sess'[s'[u]].ref_count >= 2
    BY DEF Awaited
  <2>1. u # t /\ pc[u] = "refcWait" /\ s'[u] = s[u] /\ s[u] \in Sess
    BY DEF Located
  <2>2. sess[s[u]].ref_count \in Int /\ sess[s[u]].ref_count >= 2
    BY <2>1 DEF Awaited, Session
  <2>3. CASE s[u] # n
    BY <2>1, <2>2, <2>3
  <2>4. CASE s[u] = n
    <3>1. \A v \in RefcWaiters(n) : v = u
      BY <2>1, <2>4 DEF Meeting, InCall, Ops
    <3>2. sess[n].ref_count # 2
      BY <2>1, <2>4, <3>1
    <3>. QED BY <2>1, <2>2, <2>4, <3>2
  <2>. QED BY <2>3, <2>4
<1>8. Loading'
  BY DEF Loading, Located, HasContext, Ops
<1>9. Alive'
  BY DEF Alive, Located, Fresh, Quiet
<1>10. Left'
  BY DEF Left, Leaving, Alive, Located, HasContext, Ops, Owning, Using,
     HoldsRef, Backed, Quiet
<1>11. SessExact'
  <2>. SUFFICES ASSUME NEW m \in Sess PROVE RefsMoveBy(t, m)
    BY RefsExact
  <2>. QED
    BY DEF RefsMoveBy, Refs, HoldsRef, Located, Ops, Backed
<1>12. CtxExact'
  <2>. SUFFICES ASSUME NEW y \in Ctxs PROVE CountMovesBy(t, n, y)
    BY CountsExact
  <2>1. DropsOf(y)' = DropsOf(y)
    BY DEF DropsOf, Leaving, Ops
  <2>2. SessOf(y)' = SessOf(y)
    BY DEF SessOf, Fresh, Openers, Opens, Ops
  <2>. QED BY <2>1, <2>2 DEF CountMovesBy
<1>. QED
  BY <1>1, <1>2, <1>3, <1>4, <1>5, <1>6, <1>7, <1>8, <1>9, <1>10, <1>11, <1>12

LEMMA CalmTakesLock ==
  ASSUME NEW t \in Threads, NEW n \in Sess,
         CalmInv, Inv', ~ta.CanPanic, TakesLock(t, n)
  PROVE  Calm'
<1>. USE DEF TakesLock
<1>1. NoPanic'
  BY DEF NoPanic
<1>2. Quiet'
  BY DEF Quiet, NoPanic, Located, HasContext, Ops, Backed, HoldsRef
<1>3. Meeting'
  BY DEF Meeting, InCall, Told, Located, Ops
<1>4. Told'
  BY DEF Told, Meeting, InCall, Located, Backed, HoldsRef, Ops
<1>5. Backed'
  BY DEF Backed, HoldsRef, Told, Meeting, InCall, Located, Openers, Opens, Ops,
     Quiet
<1>6. Owning'
  BY DEF Owning, Using, HoldsRef, Backed, Meeting, InCall, Located, HasContext,
     Openers, Opens, Ops, NoPanic, Quiet, Fresh
<1>7. Awaited'
  BY DEF Awaited, Located, Ops, Session
<1>8. Loading'
  BY DEF Loading, Located, HasContext, Ops
<1>9. Alive'
  BY DEF Alive, Located, Fresh, Quiet
<1>10. Left'
  BY DEF Left, Leaving, Alive, Located, HasContext, Ops, Owning, Using,
     HoldsRef, Backed, Quiet
<1>11. SessExact'
  <2>. SUFFICES ASSUME NEW m \in Sess PROVE RefsMoveBy(t, m)
    BY RefsExact
  <2>. QED
    BY DEF RefsMoveBy, Refs, HoldsRef, Located, Ops, Backed
<1>12. CtxExact'
  <2>. SUFFICES ASSUME NEW y \in Ctxs PROVE CountMovesBy(t, n, y)
    BY CountsExact
  <2>1. DropsOf(y)' = DropsOf(y)
    BY DEF DropsOf, Leaving, Ops
  <2>2. SessOf(y)' = SessOf(y)
    BY DEF SessOf, Fresh, Openers, Opens, Ops
  <2>. QED BY <2>1, <2>2 DEF CountMovesBy
<1>. QED
  BY <1>1, <1>2, <1>3, <1>4, <1>5, <1>6, <1>7, <1>8, <1>9, <1>10, <1>11, <1>12

LEMMA CalmWaitsAgain ==
  ASSUME NEW t \in Threads, NEW n \in Sess,
         CalmInv, Inv', ~ta.CanPanic, WaitsAgain(t, n)
  PROVE  Calm'
<1>. USE DEF WaitsAgain
<1>1. NoPanic'
  BY DEF NoPanic
<1>2. Quiet'
  BY DEF Quiet, NoPanic, Located, HasContext, Ops, Backed, HoldsRef
<1>3. Meeting'
  BY DEF Meeting, InCall, Told, Located, Ops
<1>4. Told'
  BY DEF Told, Meeting, InCall, Located, Backed, HoldsRef, Ops
<1>5. Backed'
  BY DEF Backed, HoldsRef, Told, Meeting, InCall, Located, Openers, Opens, Ops,
     Quiet
<1>6. Owning'
  BY DEF Owning, Using, HoldsRef, Backed, Meeting, InCall, Located, HasContext,
     Openers, Opens, Ops, NoPanic, Quiet, Fresh
<1>7. Awaited'
  BY DEF Awaited, Located, Ops, Session
<1>8. Loading'
  BY DEF Loading, Located, HasContext, Ops
<1>9. Alive'
  BY DEF Alive, Located, Fresh, Quiet
<1>10. Left'
  BY DEF Left, Leaving, Alive, Located, HasContext, Ops, Owning, Using,
     HoldsRef, Backed, Quiet
<1>11. SessExact'
  <2>. SUFFICES ASSUME NEW m \in Sess PROVE RefsMoveBy(t, m)
    BY RefsExact
  <2>. QED
    BY DEF RefsMoveBy, Refs, HoldsRef, Located, Ops, Backed
<1>12. CtxExact'
  <2>. SUFFICES ASSUME NEW y \in Ctxs PROVE CountMovesBy(t, n, y)
    BY CountsExact
  <2>1. DropsOf(y)' = DropsOf(y)
    BY DEF DropsOf, Leaving, Ops
  <2>2. SessOf(y)' = SessOf(y)
    BY DEF SessOf, Fresh, Openers, Opens, Ops
  <2>. QED BY <2>1, <2>2 DEF CountMovesBy
<1>. QED
  BY <1>1, <1>2, <1>3, <1>4, <1>5, <1>6, <1>7, <1>8, <1>9, <1>10, <1>11, <1>12

LEMMA CalmPuts ==
  ASSUME NEW t \in Threads, NEW n \in Sess, NEW l \in Places,
         CalmInv, Inv', ~ta.CanPanic, Puts(t, n, l)
  PROVE  Calm'
<1>. USE DEF Puts, UnlinkerTold, RefcWaiters, LockWaiters
<1>1. NoPanic'
  BY DEF NoPanic
<1>2. Quiet'
  BY DEF Quiet, NoPanic, Located, HasContext, Ops, Backed, HoldsRef
<1>3. Meeting'
  BY DEF Meeting, InCall, Told, Located, Ops
<1>4. Told'
  BY DEF Told, Meeting, InCall, Located, Backed, HoldsRef, Ops
<1>5. Backed'
  BY DEF Backed, HoldsRef, Told, Meeting, InCall, Located, Openers, Opens, Ops,
     Quiet
<1>6. Owning'
  BY DEF Owning, Using, HoldsRef, Backed, Meeting, InCall, Located, HasContext,
     Openers, Opens, Ops, NoPanic, Quiet, Fresh
<1>7. Awaited'
  <2>. SUFFICES ASSUME NEW u \in Threads, pc'[u] = "refcWait"
       PROVE  sess'[s'[u]].ref_count >= 2
    BY DEF Awaited
  <2>1. u # t /\ pc[u] = "refcWait" /\ s'[u] = s[u] /\ s[u] \in Sess
    BY DEF Located
  <2>2. sess[s[u]].ref_count \in Int /\ sess[s[u]].ref_count >= 2
    BY <2>1 DEF Awaited, Session
  <2>3. CASE s[u] # n
    BY <2>1, <2>2, <2>3
  <2>4. CASE s[u] = n
    <3>1. \A v \in RefcWaiters(n) : v = u
      BY <2>1, <2>4 DEF Meeting, InCall, Ops
    <3>2. sess[n].ref_count # 2
      BY <2>1, <2>4, <3>1
    <3>. QED BY <2>1, <2>2, <2>4, <3>2
  <2>. QED BY <2>3, <2>4
<1>8. Loading'
  BY DEF Loading, Located, HasContext, Ops
<1>9. Alive'
  BY DEF Alive, Located, Fresh, Quiet
<1>10. Left'
  BY DEF Left, Leaving, Alive, Located, HasContext, Ops, Owning, Using,
     HoldsRef, Backed, Quiet
<1>11. SessExact'
  <2>. SUFFICES ASSUME NEW m \in Sess PROVE RefsMoveBy(t, m)
    BY RefsExact
  <2>. QED
    BY DEF RefsMoveBy, Refs, HoldsRef, Located, Ops, Backed
<1>12. CtxExact'
  <2>. SUFFICES ASSUME NEW y \in Ctxs PROVE CountMovesBy(t, n, y)
    BY CountsExact
  <2>1. DropsOf(y)' = DropsOf(y)
    BY DEF DropsOf, Leaving, Ops
  <2>2. SessOf(y)' = SessOf(y)
    BY DEF SessOf, Fresh, Openers, Opens, Ops
  <2>. QED BY <2>1, <2>2 DEF CountMovesBy
<1>. QED
  BY <1>1, <1>2, <1>3, <1>4, <1>5, <1>6, <1>7, <1>8, <1>9, <1>10, <1>11, <1>12

LEMMA CalmTells ==
  ASSUME NEW t \in Threads,
         CalmInv, Inv', ~ta.CanPanic, Tells(t)
  PROVE  Calm'
BY DEF Tells, Quiet

LEMMA CalmFindsDead ==
  ASSUME NEW t \in Threads, NEW n \in Sess,
         CalmInv, Inv', ~ta.CanPanic, FindsDead(t, n)
  PROVE  Calm'
BY DEF FindsDead, NoPanic, Backed, HoldsRef, Located, Session

LEMMA CalmChecks ==
  ASSUME NEW t \in Threads, NEW n \in Sess, NEW x, NEW l \in Places,
         CalmInv, Inv', ~ta.CanPanic, Checks(t, n, x, l)
  PROVE  Calm'
<1>. USE DEF Checks
<1>1. NoPanic'
  BY DEF NoPanic
<1>2. Quiet'
  BY DEF Quiet, NoPanic, Located, HasContext, Ops, Backed, HoldsRef
<1>3. Meeting'
  BY DEF Meeting, InCall, Told, Located, Ops
<1>4. Told'
  BY DEF Told, Meeting, InCall, Located, Backed, HoldsRef, Ops
<1>5. Backed'
  BY DEF Backed, HoldsRef, Told, Meeting, InCall, Located, Openers, Opens, Ops,
     Quiet
<1>6. Owning'
  BY DEF Owning, Using, HoldsRef, Backed, Meeting, InCall, Located, HasContext,
     Openers, Opens, Ops, NoPanic, Quiet, Fresh
<1>7. Awaited'
  BY DEF Awaited, Located, Ops, Session
<1>8. Loading'
  BY DEF Loading, Located, HasContext, Ops
<1>9. Alive'
  BY DEF Alive, Located, Fresh, Quiet
<1>10. Left'
  BY DEF Left, Leaving, Alive, Located, HasContext, Ops, Owning, Using,
     HoldsRef, Backed, Quiet
<1>11. SessExact'
  <2>. SUFFICES ASSUME NEW m \in Sess PROVE RefsMoveBy(t, m)
    BY RefsExact
  <2>. QED
    BY DEF RefsMoveBy, Refs, HoldsRef, Located, Ops, Backed
<1>12. CtxExact'
  <2>. SUFFICES ASSUME NEW y \in Ctxs PROVE CountMovesBy(t, n, y)
    BY CountsExact
  <2>1. DropsOf(y)' = DropsOf(y)
    BY DEF DropsOf, Leaving, Ops
  <2>2. SessOf(y)' = SessOf(y)
    BY DEF SessOf, Fresh, Openers, Opens, Ops
  <2>. QED BY <2>1, <2>2 DEF CountMovesBy
<1>. QED
  BY <1>1, <1>2, <1>3, <1>4, <1>5, <1>6, <1>7, <1>8, <1>9, <1>10, <1>11, <1>12

LEMMA CalmWaitsBusy ==
  ASSUME NEW t \in Threads, NEW l \in Places,
         CalmInv, Inv', ~ta.CanPanic, WaitsBusy(t, l)
  PROVE  Calm'
<1>. USE DEF WaitsBusy
<1>1. NoPanic'
  BY DEF NoPanic
<1>2. Quiet'
  BY DEF Quiet, NoPanic, Located, HasContext, Ops, Backed, HoldsRef
<1>3. Meeting'
  BY DEF Meeting, InCall, Told, Located, Ops
<1>4. Told'
  BY DEF Told, Meeting, InCall, Located, Backed, HoldsRef, Ops
<1>5. Backed'
  BY DEF Backed, HoldsRef, Told, Meeting, InCall, Located, Openers, Opens, Ops,
     Quiet
<1>6. Owning'
  BY DEF Owning, Using, HoldsRef, Backed, Meeting, InCall, Located, HasContext,
     Openers, Opens, Ops, NoPanic, Quiet, Fresh
<1>7. Awaited'
  BY DEF Awaited, Located, Ops, Session
<1>8. Loading'
  BY DEF Loading, Located, HasContext, Ops
<1>9. Alive'
  BY DEF Alive, Located, Fresh, Quiet
<1>10. Left'
  BY DEF Left, Leaving, Alive, Located, HasContext, Ops, Owning, Using,
     HoldsRef, Backed, Quiet
<1>11. SessExact'
  <2>. SUFFICES ASSUME NEW m \in Sess PROVE RefsMoveBy(t, m)
    BY RefsExact
  <2>. QED
    BY DEF RefsMoveBy, Refs, HoldsRef, Located, Ops, Backed
<1>12. CtxExact'
  <2>. SUFFICES ASSUME NEW y \in Ctxs PROVE CountMovesBy(t, None, y)
    BY CountsExact
  <2>1. DropsOf(y)' = DropsOf(y)
    BY DEF DropsOf, Leaving, Ops
  <2>2. SessOf(y)' = SessOf(y)
    BY DEF SessOf, Fresh, Openers, Opens, Ops
  <2>. QED BY <2>1, <2>2 DEF CountMovesBy
<1>. QED
  BY <1>1, <1>2, <1>3, <1>4, <1>5, <1>6, <1>7, <1>8, <1>9, <1>10, <1>11, <1>12

LEMMA CalmEnters ==
  ASSUME NEW t \in Threads, NEW x \in Ctxs,
         CalmInv, Inv', ~ta.CanPanic, Enters(t, x)
  PROVE  Calm'
<1>. USE DEF Enters
<1>1. NoPanic'
  BY DEF NoPanic
<1>2. Quiet'
  BY DEF Quiet, NoPanic, Located, HasContext, Ops, Backed, HoldsRef
<1>3. Meeting'
  BY DEF Meeting, InCall, Told, Located, Ops
<1>4. Told'
  BY DEF Told, Meeting, InCall, Located, Backed, HoldsRef, Ops
<1>5. Backed'
  BY DEF Backed, HoldsRef, Told, Meeting, InCall, Located, Openers, Opens, Ops,
     Quiet
<1>6. Owning'
  BY DEF Owning, Using, HoldsRef, Backed, Meeting, InCall, Located, HasContext,
     Openers, Opens, Ops, NoPanic, Quiet, Fresh
<1>7. Awaited'
  BY DEF Awaited, Located, Ops, Session
<1>8. Loading'
  BY DEF Loading, Located, HasContext, Ops
<1>9. Alive'
  BY DEF Alive, Located, Fresh, Quiet
<1>10. Left'
  BY DEF Left, Leaving, Alive, Located, HasContext, Ops, Owning, Using,
     HoldsRef, Backed, Quiet
<1>11. SessExact'
  <2>. SUFFICES ASSUME NEW m \in Sess PROVE RefsMoveBy(t, m)
    BY RefsExact
  <2>. QED
    BY DEF RefsMoveBy, Refs, HoldsRef, Located, Ops, Backed
<1>12. CtxExact'
  <2>. SUFFICES ASSUME NEW y \in Ctxs PROVE CountMovesBy(t, None, y)
    BY CountsExact
  <2>1. DropsOf(y)' = DropsOf(y)
    BY DEF DropsOf, Leaving, Ops
  <2>2. SessOf(y)' = SessOf(y)
    BY DEF SessOf, Fresh, Openers, Opens, Ops
  <2>. QED BY <2>1, <2>2 DEF CountMovesBy
<1>. QED
  BY <1>1, <1>2, <1>3, <1>4, <1>5, <1>6, <1>7, <1>8, <1>9, <1>10, <1>11, <1>12

LEMMA CalmRuns ==
  ASSUME NEW t \in Threads, NEW x \in Ctxs, NEW p \in BOOLEAN, NEW r \in BOOLEAN,
         CalmInv, Inv', ~ta.CanPanic, Runs(t, x, p, r)
  PROVE  Calm'
<1>. USE DEF Runs
<1>1. NoPanic'
  BY DEF NoPanic
<1>2. Quiet'
  BY DEF Quiet, NoPanic, Located, HasContext, Ops, Backed, HoldsRef
<1>3. Meeting'
  BY DEF Meeting, InCall, Told, Located, Ops
<1>4. Told'
  BY DEF Told, Meeting, InCall, Located, Backed, HoldsRef, Ops
<1>5. Backed'
  BY DEF Backed, HoldsRef, Told, Meeting, InCall, Located, Openers, Opens, Ops,
     Quiet
<1>6. Owning'
  BY DEF Owning, Using, HoldsRef, Backed, Meeting, InCall, Located, HasContext,
     Openers, Opens, Ops, NoPanic, Quiet, Fresh
<1>7. Awaited'
  BY DEF Awaited, Located, Ops, Session
<1>8. Loading'
  BY DEF Loading, Located, HasContext, Ops
<1>9. Alive'
  BY DEF Alive, Located, Fresh, Quiet
<1>10. Left'
  BY DEF Left, Leaving, Alive, Located, HasContext, Ops, Owning, Using,
     HoldsRef, Backed, Quiet
<1>11. SessExact'
  <2>. SUFFICES ASSUME NEW m \in Sess PROVE RefsMoveBy(t, m)
    BY RefsExact
  <2>. QED
    BY DEF RefsMoveBy, Refs, HoldsRef, Located, Ops, Backed
<1>12. CtxExact'
  <2>. SUFFICES ASSUME NEW y \in Ctxs PROVE CountMovesBy(t, None, y)
    BY CountsExact
  <2>1. DropsOf(y)' = DropsOf(y)
    BY DEF DropsOf, Leaving, Ops
  <2>2. SessOf(y)' = SessOf(y)
    BY DEF SessOf, Fresh, Openers, Opens, Ops
  <2>. QED BY <2>1, <2>2 DEF CountMovesBy
<1>. QED
  BY <1>1, <1>2, <1>3, <1>4, <1>5, <1>6, <1>7, <1>8, <1>9, <1>10, <1>11, <1>12

LEMMA CalmLeaves ==
  ASSUME NEW t \in Threads, NEW x \in Ctxs,
         CalmInv, Inv', ~ta.CanPanic, Leaves(t, x)
  PROVE  Calm'
<1>. USE DEF Leaves, BusyWaiters
<1>1. NoPanic'
  BY DEF NoPanic
<1>2. Quiet'
  BY DEF Quiet, NoPanic, Located, HasContext, Ops, Backed, HoldsRef
<1>3. Meeting'
  BY DEF Meeting, InCall, Told, Located, Ops
<1>4. Told'
  BY DEF Told, Meeting, InCall, Located, Backed, HoldsRef, Ops
<1>5. Backed'
  BY DEF Backed, HoldsRef, Told, Meeting, InCall, Located, Openers, Opens, Ops,
     Quiet
<1>6. Owning'
  BY DEF Owning, Using, HoldsRef, Backed, Meeting, InCall, Located, HasContext,
     Openers, Opens, Ops, NoPanic, Quiet, Fresh
<1>7. Awaited'
  BY DEF Awaited, Located, Ops, Session
<1>8. Loading'
  BY DEF Loading, Located, HasContext, Ops
<1>9. Alive'
  BY DEF Alive, Located, Fresh, Quiet
<1>10. Left'
  BY DEF Left, Leaving, Alive, Located, HasContext, Ops, Owning, Using,
     HoldsRef, Backed, Quiet
<1>11. SessExact'
  <2>. SUFFICES ASSUME NEW m \in Sess PROVE RefsMoveBy(t, m)
    BY RefsExact
  <2>. QED
    BY DEF RefsMoveBy, Refs, HoldsRef, Located, Ops, Backed
<1>12. CtxExact'
  <2>. SUFFICES ASSUME NEW y \in Ctxs PROVE CountMovesBy(t, None, y)
    BY CountsExact
  <2>1. DropsOf(y)' = DropsOf(y)
    BY DEF DropsOf, Leaving, Ops
  <2>2. SessOf(y)' = SessOf(y)
    BY DEF SessOf, Fresh, Openers, Opens, Ops
  <2>. QED BY <2>1, <2>2 DEF CountMovesBy
<1>. QED
  BY <1>1, <1>2, <1>3, <1>4, <1>5, <1>6, <1>7, <1>8, <1>9, <1>10, <1>11, <1>12

LEMMA CalmReturns ==
  ASSUME NEW t \in Threads, NEW o \in Calls, NEW l \in Places,
         CalmInv, Inv', ~ta.CanPanic, Returns(t, o, l)
  PROVE  Calm'
<1>. USE DEF Returns
<1>1. NoPanic'
  BY DEF NoPanic
<1>2. Quiet'
  BY DEF Quiet, NoPanic, Located, HasContext, Ops, Backed, HoldsRef
<1>3. Meeting'
  BY DEF Meeting, InCall, Told, Located, Ops
<1>4. Told'
  BY DEF Told, Meeting, InCall, Located, Backed, HoldsRef, Ops
<1>5. Backed'
  BY DEF Backed, HoldsRef, Told, Meeting, InCall, Located, Openers, Opens, Ops,
     Quiet
<1>6. Owning'
  BY DEF Owning, Using, HoldsRef, Backed, Meeting, InCall, Located, HasContext,
     Openers, Opens, Ops, NoPanic, Quiet, Fresh
<1>7. Awaited'
  BY DEF Awaited, Located, Ops, Session
<1>8. Loading'
  BY DEF Loading, Located, HasContext, Ops
<1>9. Alive'
  BY DEF Alive, Located, Fresh, Quiet
<1>10. Left'
  BY DEF Left, Leaving, Alive, Located, HasContext, Ops, Owning, Using,
     HoldsRef, Backed, Quiet
<1>11. SessExact'
  <2>. SUFFICES ASSUME NEW m \in Sess PROVE RefsMoveBy(t, m)
    BY RefsExact
  <2>. QED
    BY DEF RefsMoveBy, Refs, HoldsRef, Located, Ops, Backed
<1>12. CtxExact'
  <2>. SUFFICES ASSUME NEW y \in Ctxs PROVE CountMovesBy(t, None, y)
    BY CountsExact
  <2>1. DropsOf(y)' = DropsOf(y)
    BY DEF DropsOf, Leaving, Ops
  <2>2. SessOf(y)' = SessOf(y)
    BY DEF SessOf, Fresh, Openers, Opens, Ops
  <2>. QED BY <2>1, <2>2 DEF CountMovesBy
<1>. QED
  BY <1>1, <1>2, <1>3, <1>4, <1>5, <1>6, <1>7, <1>8, <1>9, <1>10, <1>11, <1>12

LEMMA CalmUnlinkWaits ==
  ASSUME NEW t \in Threads, NEW n \in Sess,
         CalmInv, Inv', ~ta.CanPanic, UnlinkWaits(t, n)
  PROVE  Calm'
<1>. USE DEF UnlinkWaits, LockersTold, LockWaiters
<1>1. NoPanic'
  BY DEF NoPanic
<1>2. Quiet'
  BY DEF Quiet, NoPanic, Located, HasContext, Ops, Backed, HoldsRef
<1>3. Meeting'
  BY DEF Meeting, InCall, Told, Located, Ops
<1>4. Told'
  BY DEF Told, Meeting, InCall, Located, Backed, HoldsRef, Ops
<1>5. Backed'
  BY DEF Backed, HoldsRef, Told, Meeting, InCall, Located, Openers, Opens, Ops,
     Quiet
<1>6. Owning'
  BY DEF Owning, Using, HoldsRef, Backed, Meeting, InCall, Located, HasContext,
     Openers, Opens, Ops, NoPanic, Quiet, Fresh
<1>7. Awaited'
  <2>1. sess[n].ref_count \in Int /\ sess[n].ref_count >= 1
    BY HasReference DEF HoldsRef, Ops, Session
  <2>. QED BY <2>1 DEF Awaited, Located
<1>8. Loading'
  BY DEF Loading, Located, HasContext, Ops
<1>9. Alive'
  BY DEF Alive, Located, Fresh, Quiet
<1>10. Left'
  BY DEF Left, Leaving, Alive, Located, HasContext, Ops, Owning, Using,
     HoldsRef, Backed, Quiet
<1>11. SessExact'
  <2>. SUFFICES ASSUME NEW m \in Sess PROVE RefsMoveBy(t, m)
    BY RefsExact
  <2>. QED
    BY DEF RefsMoveBy, Refs, HoldsRef, Located, Ops, Backed
<1>12. CtxExact'
  <2>. SUFFICES ASSUME NEW y \in Ctxs PROVE CountMovesBy(t, n, y)
    BY CountsExact
  <2>1. DropsOf(y)' = DropsOf(y)
    BY DEF DropsOf, Leaving, Ops
  <2>2. SessOf(y)' = SessOf(y)
    BY DEF SessOf, Fresh, Openers, Opens, Ops
  <2>. QED BY <2>1, <2>2 DEF CountMovesBy
<1>. QED
  BY <1>1, <1>2, <1>3, <1>4, <1>5, <1>6, <1>7, <1>8, <1>9, <1>10, <1>11, <1>12

LEMMA CalmUnlinks ==
  ASSUME NEW t \in Threads, NEW n \in Sess, NEW l \in Places,
         CalmInv, Inv', ~ta.CanPanic, Unlinks(t, n, l)
  PROVE  Calm'
<1>. USE DEF Unlinks, EndsAt, LockersTold, LockWaiters
<1>0. \A u \in Threads \ {t} : ~(HoldsRef(u) /\ s[u] = n)
  BY SoleRef DEF HoldsRef, Ops
<1>1. NoPanic'
  BY DEF NoPanic
<1>2. Quiet'
  BY DEF Quiet, NoPanic, Located, HasContext, Ops, Backed, HoldsRef
<1>3. Meeting'
  BY DEF Meeting, InCall, Told, Located, Ops
<1>4. Told'
  BY DEF Told, Meeting, InCall, Located, Backed, HoldsRef, Ops
<1>5. Backed'
  BY <1>0 DEF Backed, HoldsRef, Told, Meeting, InCall, Located, Openers, Opens,
     Ops, Quiet
<1>6. Owning'
  BY <1>0 DEF Owning, Using, HoldsRef, Backed, Meeting, InCall, Located,
     HasContext, Openers, Opens, Ops, NoPanic, Quiet, Fresh
<1>7. Awaited'
  BY DEF Awaited, Located, Ops, Session
<1>8. Loading'
  BY DEF Loading, Located, HasContext, Ops
<1>9. Alive'
  BY DEF Alive, Located, Fresh, Quiet
<1>10. Left'
  BY DEF Left, Leaving, Alive, Located, HasContext, Ops, Owning, Using,
     HoldsRef, Backed, Quiet
<1>11. SessExact'
  <2>. SUFFICES ASSUME NEW m \in Sess PROVE RefsMoveBy(t, m)
    BY RefsExact
  <2>. QED
    BY <1>0 DEF RefsMoveBy, Refs, HoldsRef, Located, Ops, Backed
<1>12. CtxExact'
  <2>. SUFFICES ASSUME NEW y \in Ctxs PROVE CountMovesBy(t, n, y)
    BY CountsExact
  <2>1. DropsOf(y)' = IF c[t] = y THEN DropsOf(y) \cup {t} ELSE DropsOf(y)
    BY DEF DropsOf, Leaving, Ops, Owning, HoldsRef
  <2>2. /\ SessOf(y)' = SessOf(y) \ {n}
        /\ n \in SessOf(y) <=> c[t] = y
        /\ t \notin DropsOf(y)
    BY DEF SessOf, DropsOf, Leaving, Owning, Using, Backed, HoldsRef
  <2>. QED BY <2>1, <2>2 DEF CountMovesBy
<1>. QED
  BY <1>1, <1>2, <1>3, <1>4, <1>5, <1>6, <1>7, <1>8, <1>9, <1>10, <1>11, <1>12

LEMMA CalmDrops ==
  ASSUME NEW t \in Threads, NEW x \in Ctxs, NEW a, NEW l \in Places,
         CalmInv, Inv', ~ta.CanPanic, Drops(t, x, a, l)
  PROVE  Calm'
<1>. USE DEF Drops, EndsAt
<1>0. a # ctxs[x].st => SessOf(x) = {} /\ \A u \in DropsOf(x) : u = t
  <2>1. t \in DropsOf(x)
    BY DEF DropsOf, Leaving, Ops
  <2>2. ctxs[x].st = "listed"
    BY <2>1 DEF DropsOf, Left
  <2>. QED BY <2>1, <2>2, SoleDrop
<1>1. NoPanic'
  BY DEF NoPanic
<1>2. Quiet'
  BY DEF Quiet, NoPanic, Located, HasContext, Ops, Backed, HoldsRef
<1>3. Meeting'
  BY DEF Meeting, InCall, Told, Located, Ops
<1>4. Told'
  BY DEF Told, Meeting, InCall, Located, Backed, HoldsRef, Ops
<1>5. Backed'
  BY DEF Backed, HoldsRef, Told, Meeting, InCall, Located, Openers, Opens, Ops,
     Quiet
<1>6. Owning'
  BY DEF Owning, Using, HoldsRef, Backed, Meeting, InCall, Located, HasContext,
     Openers, Opens, Ops, NoPanic, Quiet, Fresh
<1>7. Awaited'
  BY DEF Awaited, Located, Ops, Session
<1>8. Loading'
  <2>. SUFFICES ASSUME NEW u \in Threads, pc[u] = "loading", c[u] = x
       PROVE  FALSE
    BY DEF Loading, Located, HasContext
  <2>1. s[u] \in SessOf(x) /\ t \in DropsOf(x)
    BY DEF SessOf, DropsOf, Leaving, Located, Backed, Owning, HoldsRef, Ops
  <2>2. ctxs[x].st = "listed" /\ ctxs[x].ref_count = 1
    BY <2>1 DEF SessOf, Alive, Loading
  <2>. QED BY <2>1, <2>2, SoleSession
<1>9. Alive'
  BY <1>0 DEF Alive, Located, Fresh, Quiet, SessOf, Left
<1>10. Left'
  BY <1>0 DEF Left, Leaving, Alive, Located, HasContext, Ops, Owning, Using,
     HoldsRef, Backed, Quiet, DropsOf
<1>11. SessExact'
  <2>. SUFFICES ASSUME NEW m \in Sess PROVE RefsMoveBy(t, m)
    BY RefsExact
  <2>. QED
    BY DEF RefsMoveBy, Refs, HoldsRef, Located, Ops, Backed
<1>12. CtxExact'
  <2>. SUFFICES ASSUME NEW y \in Ctxs PROVE CountMovesBy(t, None, y)
    BY CountsExact
  <2>1. /\ DropsOf(y)' = IF y = x THEN DropsOf(y) \ {t} ELSE DropsOf(y)
        /\ y = x => t \in DropsOf(y)
    BY DEF DropsOf, Leaving, Ops
  <2>2. SessOf(y)' = SessOf(y)
    BY DEF SessOf
  <2>. QED BY <2>1, <2>2 DEF CountMovesBy
<1>. QED
  BY <1>1, <1>2, <1>3, <1>4, <1>5, <1>6, <1>7, <1>8, <1>9, <1>10, <1>11, <1>12

LEMMA CalmDestroys ==
  ASSUME NEW t \in Threads, NEW n \in Sess, NEW x \in Ctxs,
         CalmInv, Inv', ~ta.CanPanic, Destroys(t, n, x)
  PROVE  Calm'
BY DEF Destroys, Quiet

LEMMA CalmFreesInvoke ==
  ASSUME NEW t \in Threads, NEW n \in Sess, NEW x \in Ctxs,
         CalmInv, Inv', ~ta.CanPanic, FreesInvoke(t, n, x)
  PROVE  Calm'
BY DEF FreesInvoke, FreesOf, Quiet

LEMMA CalmFreesClose ==
  ASSUME NEW t \in Threads, NEW x \in Ctxs, NEW l \in Places,
         CalmInv, Inv', ~ta.CanPanic, FreesClose(t, x, l)
  PROVE  Calm'
<1>. USE DEF FreesClose, FreesOf, EndsAt
<1>1. NoPanic'
  BY DEF NoPanic
<1>2. Quiet'
  BY DEF Quiet, NoPanic, Located, HasContext, Ops, Backed, HoldsRef
<1>3. Meeting'
  BY DEF Meeting, InCall, Told, Located, Ops
<1>4. Told'
  BY DEF Told, Meeting, InCall, Located, Backed, HoldsRef, Ops
<1>5. Backed'
  BY DEF Backed, HoldsRef, Told, Meeting, InCall, Located, Openers, Opens, Ops,
     Quiet
<1>6. Owning'
  BY DEF Owning, Using, HoldsRef, Backed, Meeting, InCall, Located, HasContext,
     Openers, Opens, Ops, NoPanic, Quiet, Fresh
<1>7. Awaited'
  BY DEF Awaited, Located, Ops, Session
<1>8. Loading'
  BY DEF Loading, Located, HasContext, Ops
<1>9. Alive'
  BY DEF Alive, Located, Fresh, Quiet
<1>10. Left'
  BY DEF Left, Leaving, Alive, Located, HasContext, Ops, Owning, Using,
     HoldsRef, Backed, Quiet
<1>11. SessExact'
  <2>. SUFFICES ASSUME NEW m \in Sess PROVE RefsMoveBy(t, m)
    BY RefsExact
  <2>. QED
    BY DEF RefsMoveBy, Refs, HoldsRef, Located, Ops, Backed
<1>12. CtxExact'
  <2>. SUFFICES ASSUME NEW y \in Ctxs PROVE CountMovesBy(t, None, y)
    BY CountsExact
  <2>1. DropsOf(y)' = DropsOf(y)
    BY DEF DropsOf, Leaving, Ops
  <2>2. SessOf(y)' = SessOf(y)
    BY DEF SessOf, Fresh, Openers, Opens, Ops
  <2>. QED BY <2>1, <2>2 DEF CountMovesBy
<1>. QED
  BY <1>1, <1>2, <1>3, <1>4, <1>5, <1>6, <1>7, <1>8, <1>9, <1>10, <1>11, <1>12

HIDE NoneApart DEF CalmInv, Calm, Inv, Shape, Me, Moves, Still, SessIs, CtxIs,
     Asleep, Dead, Places, Calls, Seeking, Opening, Locking, Entering,
     Unlinking, Closing

-----------------------------------------------------------------------------
(***************************************************************************)
(* The invariant holds at the start and is kept by every step.             *)
(***************************************************************************)
LEMMA CalmHalts ==
  ASSUME CalmInv, ~ta.CanPanic, Halts
  PROVE  Calm'
BY DEF CalmInv, Halts, Calm, NoPanic, Quiet, Meeting, InCall, Told, Backed,
       Owning, Awaited, Loading, Alive, Left, SessExact, CtxExact, Closing,
       HoldsRef, Using, Leaving, Refs, SessOf, DropsOf

LEMMA CalmDoes ==
  ASSUME NEW t \in Threads, CalmInv, Inv', ~ta.CanPanic, Does(t)
  PROVE  Calm'
<1>1. CASE DoesOpen(t)
  BY <1>1, CalmStartsOpen, CalmStartsShared, CalmSeeks, CalmJoins, CalmLoads,
     CalmLoadRefused, CalmLoadDone, CalmLoadFailed, CalmInitFailed DEF DoesOpen
<1>2. CASE DoesGet(t)
  BY <1>2, CalmGetRefused, CalmGetLocks, CalmGetWaits, CalmCloses,
     CalmGivesUp, CalmTakesLock, CalmWaitsAgain, CalmPuts, CalmTells
     DEF DoesGet
<1>3. CASE DoesRun(t)
  BY <1>3, CalmFindsDead, CalmChecks, CalmWaitsBusy, CalmEnters, CalmRuns,
     CalmLeaves, CalmReturns DEF DoesRun
<1>4. CASE DoesEnd(t)
  BY <1>4, CalmUnlinkWaits, CalmUnlinks, CalmDrops, CalmDestroys,
     CalmFreesInvoke, CalmFreesClose DEF DoesEnd
<1>. QED BY <1>1, <1>2, <1>3, <1>4 DEF Does

LEMMA SameTa ==
  ASSUME [Next]_vars
  PROVE  ta' = ta
<1>1. ASSUME NEW t \in Threads, Call(t) PROVE ta' = ta
  BY <1>1 DEF Call, OpenSession, InvokeCommand, CloseSession
<1>2. ASSUME NEW t \in Threads, Step(t) PROVE ta' = ta
  BY <1>2 DEF Step, FindAgain, Load, Loaded, InitFails, CloseGets, LockTurn,
     PutSession, Tell, OpenedDead, Check, SetBusy, RunTa, ClearBusy, Returned,
     Unlink, UnlinkAgain, UnlinkTurn, DropContext, DestroyContext,
     FreeContext, Fault
<1>. QED BY <1>1, <1>2 DEF Next, vars

LEMMA CalmInit ==
  ASSUME Init
  PROVE  Calm
<1>. USE NoneApart DEF Init, NoSession, NoContext
<1>1. NoPanic /\ Quiet /\ Meeting /\ Told
  BY DEF NoPanic, Quiet, Meeting, InCall, Told, Opening, Seeking
<1>2. Backed /\ Owning /\ Awaited /\ Loading
  BY DEF Backed, Owning, Awaited, Loading, HoldsRef, Using
<1>3. Alive /\ Left /\ SessExact /\ CtxExact
  BY DEF Alive, Left, Leaving, SessExact, CtxExact
<1>. QED BY <1>1, <1>2, <1>3 DEF Calm

LEMMA CalmInvHolds == Spec => []CalmInv
<1>1. Init => CalmInv
  BY InitHolds, CalmInit DEF CalmInv
<1>2. CalmInv /\ [Next]_vars => CalmInv'
  <2>. SUFFICES ASSUME CalmInv, [Next]_vars PROVE CalmInv'
    OBVIOUS
  <2>1. Inv
    BY DEF CalmInv
  <2>2. Inv'
    BY <2>1, NextDoes, DoesKeeps, StandstillKeeps
  <2>3. ASSUME ~ta'.CanPanic PROVE Calm'
    <3>1. ~ta.CanPanic
      BY <2>3, SameTa
    <3>. QED BY <2>1, <2>2, <3>1, NextDoes, CalmHalts, CalmDoes
  <2>. QED BY <2>2, <2>3 DEF CalmInv
<1>. QED BY <1>1, <1>2, PTL DEF Spec

-----------------------------------------------------------------------------
(***************************************************************************)
(* The reference count of a listed context is never less than its sessions *)
(* and the destroyed ones yet to be dropped, and without a panic it is     *)
(* exactly that: the context goes with the last of them, and goes then.    *)
(***************************************************************************)
THEOREM ContextRefsCorrect == Spec => []ContextRefs
<1>1. CalmInv => ContextRefs
  <2>. SUFFICES ASSUME CalmInv, NEW x \in Ctxs, ctxs[x].st = "listed"
       PROVE  /\ ctxs[x].ref_count >= RefsTo(x)
              /\ ~ta.CanPanic => ctxs[x].ref_count = RefsTo(x)
    BY DEF ContextRefs
  <2>1. \A t \in Threads : Dropping(t) <=> Leaving(t)
    BY DEF CalmInv, Inv, Freed, Dropping, Leaving
  <2>2. {t \in Threads : Dropping(t) /\ c[t] = x} = DropsOf(x)
    BY <2>1 DEF DropsOf
  <2>3. RefsTo(x) = Cardinality(SessOf(x)) + Cardinality(DropsOf(x))
    BY <2>2 DEF RefsTo, SessOf
  <2>4. ctxs[x].ref_count >= Cardinality(SessOf(x)) + Cardinality(DropsOf(x))
    BY DEF CalmInv, Inv, Counted
  <2>. QED BY <2>3, <2>4 DEF CalmInv, Calm, CtxExact
<1>. QED BY <1>1, CalmInvHolds, PTL

(***************************************************************************)
(* If the TA does not panic, tee_ta_unlink_session() waits only while      *)
(* another thread has a reference of the session that it will put.         *)
(***************************************************************************)
THEOREM UnlinkAwaited == Spec => []UnlinkWaitsUnlessPanic
<1>1. CalmInv => UnlinkWaitsUnlessPanic
  <2>. SUFFICES ASSUME CalmInv, ~ta.CanPanic, NEW t \in Threads,
                       pc[t] = "refcWait"
       PROVE  \E u \in Threads \ {t} : HasRef(u, s[t])
    BY DEF UnlinkWaitsUnlessPanic, UnlinkWaitsForOthers, Asleep
  <2>1. Inv /\ Calm
    BY DEF CalmInv
  <2>2. HoldsRef(t) /\ s[t] \in Sess
    BY <2>1 DEF HoldsRef, Inv, Located
  <2>3. sess[s[t]].st = "listed" /\ sess[s[t]].ref_count >= 2
    BY <2>1, <2>2 DEF Calm, Backed, Awaited
  <2>4. Cardinality(Refs(s[t])) >= 2
    BY <2>1, <2>2, <2>3 DEF Calm, SessExact
  <2>5. \E u \in Refs(s[t]) : u # t
    <3>1. t \in Refs(s[t]) /\ IsFiniteSet(Refs(s[t]))
      BY <2>2, FiniteCounts DEF Refs
    <3>2. ASSUME \A u \in Refs(s[t]) : u = t PROVE FALSE
      <4>1. Refs(s[t]) = {t}
        BY <3>1, <3>2
      <4>2. Cardinality({t}) = 1
        BY FS_Singleton
      <4>. QED BY <2>4, <4>1, <4>2
    <3>. QED BY <3>2
  <2>6. PICK u \in Threads \ {t} : HoldsRef(u) /\ s[u] = s[t]
    BY <2>5 DEF Refs
  <2>7. op[u] = "invoke"
    BY <2>1, <2>6 DEF Calm, Meeting, InCall, HoldsRef, Inv, Ops, Closing,
                      Unlinking
  <2>8. HasRef(u, s[t])
    BY <2>1, <2>6, <2>7 DEF HasRef, HoldsRef, Calm, Quiet, Closing, Inv, Ops,
                            Opening, Seeking
  <2>. QED BY <2>8
<1>. QED BY <1>1, CalmInvHolds, PTL

(***************************************************************************)
(* If the TA does not panic, no close frees a context that another call is *)
(* in, waits for or is about to leave.                                     *)
(***************************************************************************)
THEOREM ContextOutlives == Spec => []ContextOutlivesUnlessPanic
<1>1. CalmInv => ContextOutlivesUnlessPanic
  <2>. SUFFICES ASSUME CalmInv, ~ta.CanPanic, NEW t \in Threads,
                       UsesFreedContext(t)
       PROVE  FALSE
    BY DEF ContextOutlivesUnlessPanic, ContextOutlivesCalls
  <2>1. Inv /\ Calm
    BY DEF CalmInv
  <2>2. /\ pc[t] \in {"setBusy", "inTA", "clearBusy", "returned", "drop"}
        /\ c[t] \in Ctxs /\ ctxs[c[t]].st = "freed"
    BY <2>1 DEF UsesFreedContext, InFreed, Inv, Located, HasContext, Entering
  <2>3. CASE Leaving(t)
    BY <2>1, <2>2, <2>3 DEF Calm, Left
  <2>4. CASE ~Leaving(t)
    <3>1. Using(t) /\ HoldsRef(t)
      BY <2>1, <2>2, <2>4, NoneApart DEF Using, HoldsRef, Leaving, Entering,
         Inv, Ops
    <3>2. s[t] \in Sess
      BY <2>1, <2>2 DEF Inv, Located
    <3>3. sess[s[t]].st = "listed" /\ sess[s[t]].ctx = c[t]
      BY <2>1, <3>1 DEF Calm, Backed, Owning
    <3>. QED BY <2>1, <2>2, <3>2, <3>3 DEF Calm, Alive
  <2>. QED BY <2>3, <2>4
<1>. QED BY <1>1, CalmInvHolds, PTL

(***************************************************************************)
(* If the TA does not panic, a session that an open has returned exists    *)
(* until the client closes it.                                             *)
(***************************************************************************)
THEOREM SessionsExist == Spec => []SessionsExistUnlessPanic
<1>1. CalmInv => SessionsExistUnlessPanic
  BY DEF CalmInv, Calm, Told, SessionsExistUnlessPanic, ToldSessionsExist
<1>. QED BY <1>1, CalmInvHolds, PTL
=============================================================================
