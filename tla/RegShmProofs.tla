---------------------------- MODULE RegShmProofs ----------------------------
(***************************************************************************)
(* Proofs about module RegShm, for every set of threads, every choice of   *)
(* those that map, and any number of cookies and objects.                  *)
(***************************************************************************)
EXTENDS RegShm, FiniteSetTheorems, TLAPS

-----------------------------------------------------------------------------
(***************************************************************************)
(* The parts of the inductive invariant.                                   *)
(*                                                                         *)
(* A thread that is in a call works on an object that was allocated.       *)
(***************************************************************************)
Located ==
  \A t \in Threads :
    /\ pc[t] = "idle" => r[t] = None
    /\ pc[t] # "idle" => r[t] \in Objs /\ shm[r[t]].st # "none"

(***************************************************************************)
(* A claim by mobj_reg_shm_release_by_cookie() is the only one of its      *)
(* object, which is in memory until that thread itself frees it.           *)
(***************************************************************************)
Claims ==
  \A t \in Threads :
    /\ pc[t] \in {"enter", "wait", "check"} => rel[t]
    /\ rel[t] =>
         /\ pc[t] \in {"held", "free", "tell", "enter", "wait", "check"}
         /\ shm[r[t]].releasing
         /\ shm[r[t]].st = "listed"
         /\ \A u \in Threads : rel[u] /\ r[u] = r[t] => u = t

(***************************************************************************)
(* One thread dropped the last reference and has yet to dispose of the     *)
(* object.                                                                 *)
(***************************************************************************)
LastPut ==
  \A t \in Threads :
    pc[t] = "free" =>
      /\ shm[r[t]].refc = 0
      /\ ~shm[r[t]].release_frees
      /\ \A u \in Threads : pc[u] = "free" /\ r[u] = r[t] => u = t

(***************************************************************************)
(* What the flags of an object exclude, and that a registration is guarded *)
(* until its thread unguards it.                                           *)
(***************************************************************************)
ObjectStates ==
  \A o \in Objs :
    /\ shm[o].st = "none" =>
         /\ shm[o].refc = 0 /\ ~shm[o].releasing /\ ~shm[o].release_frees
         /\ shm[o].mapcount = 0 /\ ~shm[o].mm
    /\ shm[o].release_frees => shm[o].refc = 0
    /\ ~(shm[o].guarded /\ shm[o].releasing)

Guarding ==
  \A t \in Threads :
    pc[t] = "unguard" =>
      /\ shm[r[t]].guarded
      /\ \A u \in Threads : pc[u] = "unguard" /\ r[u] = r[t] => u = t

(***************************************************************************)
(* The thread of a temporary memory parameter has the one reference that   *)
(* cleanup_shm_refs() is to leave.                                         *)
(***************************************************************************)
Leaving ==
  /\ \A t \in Threads :
       job[t] = "tmem" =>
         /\ pc[t] \in {"held", "inc", "mapped", "dec"} /\ ~rel[t]
         /\ r[t] \notin left
         /\ \A u \in Threads : job[u] = "tmem" /\ r[u] = r[t] => u = t
  /\ \A o \in Objs : shm[o].st = "none" => o \notin left

Local ==
  /\ TypeOK /\ Located /\ Claims /\ LastPut /\ ObjectStates /\ Guarding
  /\ Leaving /\ UsedNotFreed

(***************************************************************************)
(* The two counters.                                                       *)
(***************************************************************************)
Refs(o) == {t \in Threads : r[t] = o /\ pc[t] \in Referring}

Waiting == {t \in Threads : pc[t] \in {"wait", "check"}}

Registered(o) == shm[o].st = "listed" /\ ~shm[o].guarded /\ ~shm[o].releasing

WaitersCounted == shm_release_waiters = Cardinality(Waiting)

Counted == RefCountExact /\ WaitersCounted

(***************************************************************************)
(* What the counters say to the code that tests them: a reference keeps    *)
(* the count from 0, and so does a registration that is not claimed; a     *)
(* thread in the release loop keeps shm_release_waiters from 0.            *)
(***************************************************************************)
CountsHold ==
  /\ \A t \in Threads : pc[t] \in Referring => shm[r[t]].refc >= 1
  /\ \A t, u \in Threads :
       pc[t] \in Referring /\ pc[u] \in Referring /\ r[t] = r[u]
         /\ shm[r[t]].refc = 1 => t = u
  /\ \A o \in Objs : Registered(o) => shm[o].refc >= 1
  /\ \A t \in Threads : pc[t] \in {"wait", "check"} => shm_release_waiters >= 1

-----------------------------------------------------------------------------
(***************************************************************************)
(* The size of a set of threads, and how it changes by one thread.         *)
(***************************************************************************)
LEMMA ThreadCount ==
  ASSUME NEW S \in SUBSET Threads
  PROVE  /\ Cardinality(S) \in Nat
         /\ S # {} => Cardinality(S) >= 1
         /\ \A t \in Threads : t \notin S =>
              Cardinality(S \cup {t}) = Cardinality(S) + 1
         /\ \A t \in S : Cardinality(S \ {t}) = Cardinality(S) - 1
         /\ Cardinality(S) = 1 => \A t, u \in S : t = u
<1>1. IsFiniteSet(S) BY FS_Subset, RegShmAssumption
<1>2. Cardinality(S) \in Nat BY <1>1, FS_CardinalityType
<1>3. S # {} => Cardinality(S) # 0 BY <1>1, FS_EmptySet
<1>4. ASSUME NEW t \in Threads, t \notin S
      PROVE  Cardinality(S \cup {t}) = Cardinality(S) + 1
  BY <1>1, <1>4, FS_AddElement
<1>5. ASSUME NEW t \in S PROVE Cardinality(S \ {t}) = Cardinality(S) - 1
  BY <1>1, FS_RemoveElement
<1>6. ASSUME Cardinality(S) = 1, NEW t \in S, NEW u \in S PROVE t = u
  BY <1>1, <1>6, FS_Singleton
<1> QED BY <1>2, <1>3, <1>4, <1>5, <1>6

(***************************************************************************)
(* A count that is exact is one the code can act on.                       *)
(***************************************************************************)
LEMMA CountsUsable == Local /\ Counted => CountsHold
<1> SUFFICES ASSUME Local, Counted PROVE CountsHold
  OBVIOUS
<1>1. ASSUME NEW o \in Objs
      PROVE  /\ Refs(o) \in SUBSET Threads
             /\ Cardinality(Refs(o)) \in Nat
             /\ shm[o].refc =
                  Cardinality(Refs(o)) + (IF Registered(o) THEN 1 ELSE 0)
                    + (IF o \in left THEN 1 ELSE 0)
  <2>1. Refs(o) \in SUBSET Threads BY DEF Refs
  <2> QED BY <2>1, ThreadCount DEF Counted, RefCountExact, Refs, Registered
<1>2. ASSUME NEW t \in Threads, pc[t] \in Referring
      PROVE  r[t] \in Objs /\ t \in Refs(r[t])
  BY <1>2 DEF Local, Located, Refs, Referring
<1>3. ASSUME NEW t \in Threads, pc[t] \in Referring PROVE shm[r[t]].refc >= 1
  <2>1. r[t] \in Objs /\ Refs(r[t]) # {} BY <1>2, <1>3
  <2>2. Cardinality(Refs(r[t])) >= 1 BY <1>1, <2>1, ThreadCount
  <2> QED BY <1>1, <2>1, <2>2
<1>4. ASSUME NEW t \in Threads, NEW u \in Threads,
             pc[t] \in Referring, pc[u] \in Referring,
             r[t] = r[u], shm[r[t]].refc = 1
      PROVE  t = u
  <2>1. r[t] \in Objs /\ t \in Refs(r[t]) /\ u \in Refs(r[t]) BY <1>2, <1>4
  <2>2. Cardinality(Refs(r[t])) >= 1 BY <1>1, <2>1, ThreadCount
  <2>3. Cardinality(Refs(r[t])) = 1 BY <1>1, <1>4, <2>1, <2>2
  <2> QED BY <1>1, <2>1, <2>3, ThreadCount
<1>5. ASSUME NEW o \in Objs, Registered(o) PROVE shm[o].refc >= 1
  BY <1>1, <1>5
<1>6. ASSUME NEW t \in Threads, pc[t] \in {"wait", "check"}
      PROVE  shm_release_waiters >= 1
  <2>1. Waiting \in SUBSET Threads /\ Waiting # {} BY <1>6 DEF Waiting
  <2> QED BY <2>1, ThreadCount DEF Counted, WaitersCounted
<1> QED BY <1>3, <1>4, <1>5, <1>6 DEF CountsHold

-----------------------------------------------------------------------------
(***************************************************************************)
(* What each step does, field by field.  Same... say what it leaves alone. *)
(***************************************************************************)
Object == [st : {"none", "listed", "freed"}, cookie : Cookies \cup {None},
           refc : Nat, mapcount : Nat, mm : BOOLEAN, guarded : BOOLEAN,
           releasing : BOOLEAN, release_frees : BOOLEAN]

SameSt(p) == shm'[p].st = shm[p].st
SameRefc(p) == shm'[p].refc = shm[p].refc
SameMapcount(p) == shm'[p].mapcount = shm[p].mapcount
SameMm(p) == shm'[p].mm = shm[p].mm
SameGuarded(p) == shm'[p].guarded = shm[p].guarded
SameReleasing(p) == shm'[p].releasing = shm[p].releasing
SameReleaseFrees(p) == shm'[p].release_frees = shm[p].release_frees

SameMap(p) == SameMapcount(p) /\ SameMm(p)
SameFlags(p) ==
  SameSt(p) /\ SameGuarded(p) /\ SameReleasing(p) /\ SameReleaseFrees(p)

SameButAt(o) ==
  \A p \in Objs : p # o => SameFlags(p) /\ SameRefc(p) /\ SameMap(p)

OthersStay(t) ==
  \A u \in Threads :
    u # t => pc'[u] = pc[u] /\ r'[u] = r[u] /\ rel'[u] = rel[u]

(***************************************************************************)
(* Thread t goes to l with object o, and stays in a release or out of it.  *)
(***************************************************************************)
Moves(t, l, o) ==
  OthersStay(t) /\ pc'[t] = l /\ r'[t] = o /\ rel'[t] = rel[t]

SameWaiters == shm_release_waiters' = shm_release_waiters

SameJobs == job' = job /\ left' = left

(***************************************************************************)
(* Thread t now has its reference for j.                                   *)
(***************************************************************************)
Turns(t, j) == job'[t] = j /\ \A u \in Threads : u # t => job'[u] = job[u]

AllocEffect(t, o, l, j) ==
  /\ pc[t] = "idle" /\ shm[o].st = "none" /\ ~rel[t]
  /\ SameButAt(o) /\ SameMap(o) /\ SameReleasing(o) /\ SameReleaseFrees(o)
  /\ shm'[o].st = "listed" /\ shm'[o].refc = 1 /\ shm'[o].guarded
  /\ Moves(t, l, o) /\ SameWaiters
  /\ Turns(t, j) /\ left' = left /\ (j = "tmem" => l = "held")

UnguardEffect(t) ==
  /\ pc[t] = "unguard" /\ r[t] \in Objs
  /\ SameButAt(r[t]) /\ SameMap(r[t]) /\ SameSt(r[t]) /\ SameRefc(r[t])
  /\ SameReleasing(r[t]) /\ SameReleaseFrees(r[t])
  /\ ~shm'[r[t]].guarded
  /\ Moves(t, "idle", None) /\ SameWaiters
  /\ SameJobs

GetByCookieEffect(t, o) ==
  /\ pc[t] = "idle" /\ shm[o].st = "listed" /\ ~rel[t]
  /\ shm' = shm
  /\ Moves(t, "found", o) /\ SameWaiters
  /\ SameJobs

MobjGetEffect(t) ==
  /\ pc[t] = "found" /\ r[t] \in Objs /\ shm[r[t]].refc \in Nat
  /\ shm[r[t]].st = "listed" /\ shm[r[t]].refc >= 1
  /\ SameButAt(r[t]) /\ SameFlags(r[t]) /\ SameMap(r[t])
  /\ shm'[r[t]].refc = shm[r[t]].refc + 1
  /\ Moves(t, "held", r[t]) /\ SameWaiters
  /\ SameJobs

IncMapEffect(t) ==
  /\ pc[t] = "held" /\ r[t] \in Objs /\ ~rel[t] /\ t \in mappers
  /\ shm[r[t]].mapcount \in Nat
  /\ SameButAt(r[t]) /\ SameFlags(r[t]) /\ SameRefc(r[t]) /\ SameMm(r[t])
  /\ \/ /\ shm[r[t]].mapcount > 0
        /\ shm'[r[t]].mapcount = shm[r[t]].mapcount + 1
        /\ Moves(t, "mapped", r[t])
     \/ SameMapcount(r[t]) /\ Moves(t, "inc", r[t])
  /\ SameWaiters
  /\ SameJobs

FindsMappedEffect(t) ==
  /\ pc[t] = "inc" /\ r[t] \in Objs /\ shm[r[t]].mapcount # 0
  /\ shm' = shm
  /\ Moves(t, "mapped", r[t]) /\ SameWaiters
  /\ SameJobs

IncMapMapsEffect(t) ==
  /\ pc[t] = "inc" /\ r[t] \in Objs /\ shm[r[t]].mapcount = 0
  /\ SameButAt(r[t]) /\ SameFlags(r[t]) /\ SameRefc(r[t])
  /\ \/ /\ shm'[r[t]].mm /\ shm'[r[t]].mapcount = 1
        /\ Moves(t, "mapped", r[t])
     \/ SameMap(r[t]) /\ Moves(t, "held", r[t])
  /\ SameWaiters
  /\ SameJobs

DecMapEffect(t) ==
  /\ pc[t] = "mapped" /\ r[t] \in Objs
  /\ shm[r[t]].mapcount \in Nat /\ shm[r[t]].mapcount > 0
  /\ SameButAt(r[t]) /\ SameFlags(r[t]) /\ SameRefc(r[t]) /\ SameMm(r[t])
  /\ shm'[r[t]].mapcount = shm[r[t]].mapcount - 1
  /\ Moves(t, IF shm[r[t]].mapcount = 1 THEN "dec" ELSE "held", r[t])
  /\ SameWaiters
  /\ SameJobs

DecMapUnmapsEffect(t) ==
  /\ pc[t] = "dec" /\ r[t] \in Objs /\ shm[r[t]].mapcount \in Nat
  /\ SameButAt(r[t]) /\ SameFlags(r[t]) /\ SameRefc(r[t])
  /\ SameMapcount(r[t])
  /\ \/ shm[r[t]].mapcount = 0 /\ ~shm'[r[t]].mm
     \/ shm[r[t]].mapcount # 0 /\ SameMm(r[t])
  /\ Moves(t, "held", r[t]) /\ SameWaiters
  /\ SameJobs

MobjPutEffect(t) ==
  /\ pc[t] = "held" \/ (pc[t] = "mapped" /\ ~rel[t])
  /\ job[t] # "tmem" /\ r[t] \in Objs
  /\ shm[r[t]].refc \in Nat /\ shm[r[t]].refc >= 1
  /\ SameButAt(r[t]) /\ SameFlags(r[t]) /\ SameMap(r[t])
  /\ shm'[r[t]].refc = shm[r[t]].refc - 1
  /\ \/ shm[r[t]].refc = 1 /\ Moves(t, "free", r[t])
     \/ shm[r[t]].refc > 1 /\ rel[t] /\ Moves(t, "enter", r[t])
     \/ shm[r[t]].refc > 1 /\ ~rel[t] /\ Moves(t, "idle", None)
  /\ SameWaiters
  /\ Turns(t, "call") /\ left' = left

LeavesEffect(t) ==
  /\ pc[t] = "held" /\ job[t] = "tmem" /\ r[t] \in Objs
  /\ shm' = shm
  /\ Moves(t, "idle", None) /\ SameWaiters
  /\ Turns(t, "call") /\ left' = left \cup {r[t]}

FreeGuardedEffect(t) ==
  /\ pc[t] = "free" /\ r[t] \in Objs
  /\ shm[r[t]].guarded /\ ~shm[r[t]].releasing /\ ~rel[t]
  /\ SameButAt(r[t]) /\ SameRefc(r[t]) /\ SameMapcount(r[t])
  /\ SameGuarded(r[t]) /\ SameReleasing(r[t]) /\ SameReleaseFrees(r[t])
  /\ shm'[r[t]].st = "freed" /\ ~shm'[r[t]].mm
  /\ Moves(t, "idle", None) /\ SameWaiters
  /\ SameJobs

FreeReleasedEffect(t) ==
  /\ pc[t] = "free" /\ r[t] \in Objs
  /\ SameButAt(r[t]) /\ SameRefc(r[t]) /\ SameMap(r[t])
  /\ SameSt(r[t]) /\ SameGuarded(r[t]) /\ SameReleasing(r[t])
  /\ shm'[r[t]].release_frees
  /\ Moves(t, "tell", r[t]) /\ SameWaiters
  /\ SameJobs

TellWaitersEffect(t) ==
  /\ pc[t] = "tell" /\ r[t] \in Objs
  /\ shm' = shm /\ rel' = rel
  /\ \/ rel[t] /\ pc'[t] = "enter" /\ r'[t] = r[t]
     \/ ~rel[t] /\ pc'[t] = "idle" /\ r'[t] = None
  /\ \A u \in Threads :
       u # t => /\ r'[u] = r[u]
                /\ \/ pc[u] = "wait" /\ pc'[u] = "check"
                   \/ pc[u] # "wait" /\ pc'[u] = pc[u]
  /\ SameWaiters
  /\ SameJobs

ReleaseByCookieEffect(t, o) ==
  /\ pc[t] = "idle"
  /\ shm[o].st = "listed" /\ ~shm[o].guarded /\ ~shm[o].releasing
  /\ SameButAt(o) /\ SameRefc(o) /\ SameMap(o)
  /\ SameSt(o) /\ SameGuarded(o) /\ SameReleaseFrees(o)
  /\ shm'[o].releasing
  /\ OthersStay(t) /\ pc'[t] = "held" /\ r'[t] = o /\ rel'[t]
  /\ SameWaiters
  /\ SameJobs

ReleaseFreesEffect(t) ==
  /\ pc[t] \in {"enter", "check"} /\ r[t] \in Objs /\ rel[t]
  /\ shm[r[t]].release_frees
  /\ SameButAt(r[t]) /\ SameRefc(r[t]) /\ SameMapcount(r[t])
  /\ SameGuarded(r[t]) /\ SameReleasing(r[t]) /\ SameReleaseFrees(r[t])
  /\ shm'[r[t]].st = "freed" /\ ~shm'[r[t]].mm
  /\ OthersStay(t) /\ pc'[t] = "idle" /\ r'[t] = None /\ ~rel'[t]
  /\ shm_release_waiters' = IF pc[t] = "check" THEN shm_release_waiters - 1
                            ELSE shm_release_waiters
  /\ SameJobs

ReleaseWaitsEffect(t) ==
  /\ pc[t] \in {"enter", "check"} /\ r[t] \in Objs /\ rel[t]
  /\ ~shm[r[t]].release_frees
  /\ shm' = shm
  /\ Moves(t, "wait", r[t])
  /\ shm_release_waiters' = IF pc[t] = "check" THEN shm_release_waiters
                            ELSE shm_release_waiters + 1
  /\ SameJobs

Stays == UNCHANGED <<shm, shm_release_waiters, pc, r, rel, job, left>>

(***************************************************************************)
(* Some step of Next, by its effect.                                       *)
(***************************************************************************)
ThreadEffect(t) ==
  \/ \E o \in Objs, l \in {"unguard", "held"}, j \in Jobs :
       AllocEffect(t, o, l, j)
  \/ \E o \in Objs : GetByCookieEffect(t, o) \/ ReleaseByCookieEffect(t, o)
  \/ UnguardEffect(t) \/ MobjGetEffect(t)
  \/ IncMapEffect(t) \/ FindsMappedEffect(t) \/ IncMapMapsEffect(t)
  \/ DecMapEffect(t) \/ DecMapUnmapsEffect(t)
  \/ MobjPutEffect(t) \/ LeavesEffect(t)
  \/ FreeGuardedEffect(t) \/ FreeReleasedEffect(t)
  \/ TellWaitersEffect(t) \/ ReleaseFreesEffect(t) \/ ReleaseWaitsEffect(t)

Effect ==
  /\ mappers' = mappers
  /\ Stays \/ \E t \in Threads : ThreadEffect(t)

(***************************************************************************)
(* The assignments of the code to an object keep its type.                 *)
(***************************************************************************)
LEMMA ObjectUpdates ==
  ASSUME NEW s \in [Objs -> Object], NEW o \in Objs
  PROVE  /\ \A n \in Nat : [s EXCEPT ![o].refc = n] \in [Objs -> Object]
         /\ \A n \in Nat : [s EXCEPT ![o].mapcount = n] \in [Objs -> Object]
         /\ [s EXCEPT ![o].guarded = FALSE] \in [Objs -> Object]
         /\ [s EXCEPT ![o].releasing = TRUE] \in [Objs -> Object]
         /\ [s EXCEPT ![o].release_frees = TRUE] \in [Objs -> Object]
         /\ [s EXCEPT ![o].mm = TRUE, ![o].mapcount = 1] \in [Objs -> Object]
         /\ [s EXCEPT ![o].st = "freed", ![o].mm = FALSE] \in [Objs -> Object]
         /\ [s EXCEPT ![o] = [s[o] EXCEPT !.mm = FALSE]] \in [Objs -> Object]
         /\ \A c \in Cookies :
              [s EXCEPT ![o].st = "listed", ![o].cookie = c, ![o].refc = 1,
                        ![o].guarded = TRUE] \in [Objs -> Object]
<1>1. \A n \in Nat : [s EXCEPT ![o].refc = n] \in [Objs -> Object]
  BY DEF Object
<1>2. \A n \in Nat : [s EXCEPT ![o].mapcount = n] \in [Objs -> Object]
  BY DEF Object
<1>3. [s EXCEPT ![o].guarded = FALSE] \in [Objs -> Object]
  BY DEF Object
<1>4. [s EXCEPT ![o].releasing = TRUE] \in [Objs -> Object]
  BY DEF Object
<1>5. [s EXCEPT ![o].release_frees = TRUE] \in [Objs -> Object]
  BY DEF Object
<1>6. [s EXCEPT ![o].mm = TRUE, ![o].mapcount = 1] \in [Objs -> Object]
  BY DEF Object
<1>7. [s EXCEPT ![o].st = "freed", ![o].mm = FALSE] \in [Objs -> Object]
  BY DEF Object
<1>8. [s EXCEPT ![o] = [s[o] EXCEPT !.mm = FALSE]] \in [Objs -> Object]
  BY DEF Object
<1>9. ASSUME NEW c \in Cookies
      PROVE  [s EXCEPT ![o].st = "listed", ![o].cookie = c, ![o].refc = 1,
                       ![o].guarded = TRUE] \in [Objs -> Object]
  <2>1. [s[o] EXCEPT !.st = "listed", !.cookie = c, !.refc = 1,
                     !.guarded = TRUE] \in Object
    BY DEF Object
  <2>2. [s EXCEPT ![o].st = "listed", ![o].cookie = c, ![o].refc = 1,
                  ![o].guarded = TRUE]
          = [s EXCEPT ![o] = [s[o] EXCEPT !.st = "listed", !.cookie = c,
                                          !.refc = 1, !.guarded = TRUE]]
    OBVIOUS
  <2> QED BY <2>1, <2>2
<1> QED BY <1>1, <1>2, <1>3, <1>4, <1>5, <1>6, <1>7, <1>8, <1>9

(***************************************************************************)
(* Every step of Next has one of these effects.                            *)
(***************************************************************************)
LEMMA NextEffect == Local /\ CountsHold /\ [Next]_vars => Effect
<1> SUFFICES ASSUME Local, CountsHold, [Next]_vars PROVE Effect
  OBVIOUS
<1> USE DEF At, Goto, Local,
        SameSt, SameRefc, SameMapcount, SameMm, SameGuarded, SameReleasing,
        SameReleaseFrees, SameMap, SameFlags, SameButAt, OthersStay, Moves,
        SameWaiters, SameJobs, Turns
<1>1. ASSUME NEW t \in Threads, NEW c \in Cookies,
             NEW l \in {"unguard", "held"}, NEW j \in Jobs,
             j = "tmem" => l = "held", Alloc(t, c, l, j)
      PROVE  ThreadEffect(t)
  <2>1. PICK o \in Objs :
          /\ pc[t] = "idle" /\ shm[o].st = "none"
          /\ shm' = [shm EXCEPT ![o].st = "listed", ![o].cookie = c,
                                ![o].refc = 1, ![o].guarded = TRUE]
          /\ r' = [r EXCEPT ![t] = o]
          /\ pc' = [pc EXCEPT ![t] = l]
          /\ job' = [job EXCEPT ![t] = j]
          /\ UNCHANGED <<shm_release_waiters, rel, left>>
    BY <1>1 DEF Alloc
  <2>2. AllocEffect(t, o, l, j)
    BY <1>1, <2>1 DEF TypeOK, Claims, AllocEffect
  <2> QED BY <2>2 DEF ThreadEffect
<1>2. ASSUME NEW t \in Threads, NEW c \in Cookies, GetByCookie(t, c)
      PROVE  ThreadEffect(t)
  <2>1. PICK o \in Objs : shm[o].st = "listed" /\ r' = [r EXCEPT ![t] = o]
    BY <1>2 DEF GetByCookie, Find
  <2>2. GetByCookieEffect(t, o)
    BY <1>2, <2>1 DEF GetByCookie, TypeOK, Claims, GetByCookieEffect
  <2> QED BY <2>2 DEF ThreadEffect
<1>3. ASSUME NEW t \in Threads, NEW c \in Cookies, ReleaseByCookie(t, c)
      PROVE  ThreadEffect(t)
  <2>1. PICK o \in Objs :
          /\ shm[o].st = "listed" /\ ~shm[o].guarded /\ ~shm[o].releasing
          /\ shm' = [shm EXCEPT ![o].releasing = TRUE]
          /\ r' = [r EXCEPT ![t] = o]
    BY <1>3 DEF ReleaseByCookie, Find, MayRelease
  <2>2. /\ pc[t] = "idle" /\ pc' = [pc EXCEPT ![t] = "held"]
        /\ rel' = [rel EXCEPT ![t] = TRUE]
        /\ UNCHANGED <<shm_release_waiters, job, left>>
    BY <1>3 DEF ReleaseByCookie
  <2>3. ReleaseByCookieEffect(t, o)
    BY <2>1, <2>2 DEF TypeOK, ReleaseByCookieEffect
  <2> QED BY <2>3 DEF ThreadEffect
<1>4. ASSUME NEW t \in Threads, Unguard(t) PROVE ThreadEffect(t)
  BY <1>4 DEF Unguard, Located, TypeOK, UnguardEffect, ThreadEffect
<1>5. ASSUME NEW t \in Threads, MobjGet(t) PROVE ThreadEffect(t)
  BY <1>5 DEF MobjGet, Stale, Located, TypeOK, MobjGetEffect, ThreadEffect
<1>6. ASSUME NEW t \in Threads, IncMap(t) PROVE ThreadEffect(t)
  BY <1>6 DEF IncMap, Located, TypeOK, IncMapEffect, ThreadEffect
<1>7. ASSUME NEW t \in Threads, IncMapFindsMapped(t) PROVE ThreadEffect(t)
  BY <1>7 DEF IncMapFindsMapped, Located, TypeOK, FindsMappedEffect,
     ThreadEffect
<1>8. ASSUME NEW t \in Threads, IncMapMaps(t) PROVE ThreadEffect(t)
  BY <1>8 DEF IncMapMaps, Located, TypeOK, IncMapMapsEffect, ThreadEffect
<1>9. ASSUME NEW t \in Threads, DecMap(t) PROVE ThreadEffect(t)
  BY <1>9 DEF DecMap, Located, TypeOK, DecMapEffect, ThreadEffect
<1>10. ASSUME NEW t \in Threads, DecMapUnmaps(t) PROVE ThreadEffect(t)
  BY <1>10 DEF DecMapUnmaps, Unmap, Located, TypeOK, DecMapUnmapsEffect,
     ThreadEffect
<1>11. ASSUME NEW t \in Threads, MobjPut(t) PROVE ThreadEffect(t)
  <2>1. /\ pc[t] = "held" \/ (pc[t] = "mapped" /\ ~rel[t])
        /\ job[t] # "tmem" /\ r[t] \in Objs
        /\ shm[r[t]].refc \in Nat /\ shm[r[t]].refc >= 1
    BY <1>11 DEF MobjPut, Located, Claims, TypeOK, CountsHold, Referring
  <2>2. MobjPutEffect(t)
    BY <1>11, <2>1 DEF MobjPut, Return, TypeOK, MobjPutEffect
  <2> QED BY <2>2 DEF ThreadEffect
<1>12. ASSUME NEW t \in Threads, FreeGuarded(t) PROVE ThreadEffect(t)
  <2>1. /\ pc[t] = "free" /\ r[t] \in Objs /\ ~rel[t]
        /\ shm[r[t]].guarded /\ ~shm[r[t]].releasing
    BY <1>12 DEF FreeGuarded, Located, Claims
  <2>2. FreeGuardedEffect(t)
    BY <1>12, <2>1 DEF FreeGuarded, Freed, Return, TypeOK, FreeGuardedEffect
  <2> QED BY <2>2 DEF ThreadEffect
<1>13. ASSUME NEW t \in Threads, FreeReleased(t) PROVE ThreadEffect(t)
  BY <1>13 DEF FreeReleased, Located, TypeOK, FreeReleasedEffect, ThreadEffect
<1>14. ASSUME NEW t \in Threads, TellWaiters(t) PROVE ThreadEffect(t)
  <2>1. /\ pc[t] = "tell" /\ r[t] \in Objs
        /\ \A u \in Threads : pc[u] = "wait" => shm_release_waiters > 0
        /\ pc' = [u \in Threads |->
                    IF u = t THEN IF rel[t] THEN "enter" ELSE "idle"
                    ELSE IF shm_release_waiters > 0 /\ pc[u] = "wait"
                           THEN "check"
                    ELSE pc[u]]
        /\ r' = IF rel[t] THEN r ELSE [r EXCEPT ![t] = None]
        /\ UNCHANGED <<shm, shm_release_waiters, rel, job, left>>
    BY <1>14 DEF TellWaiters, Located, CountsHold, TypeOK
  <2>2. TellWaitersEffect(t)
    BY <2>1 DEF TypeOK, TellWaitersEffect
  <2> QED BY <2>2 DEF ThreadEffect
<1>15. ASSUME NEW t \in Threads, ReleaseEnters(t) \/ ReleaseRechecks(t)
      PROVE  ThreadEffect(t)
  <2>1. PICK n \in {0, 1} : /\ ReleaseTurn(t, n)
                            /\ UNCHANGED <<job, left>>
                            /\ pc[t] \in {"enter", "check"}
                            /\ n = IF pc[t] = "check" THEN 0 ELSE 1
    BY <1>15 DEF ReleaseEnters, ReleaseRechecks
  <2>2. r[t] \in Objs /\ rel[t] /\ shm_release_waiters \in Nat
    BY <2>1 DEF Located, Claims, TypeOK
  <2>3. CASE shm[r[t]].release_frees
    <3>1. /\ shm' = Freed(r[t])
          /\ shm_release_waiters' = shm_release_waiters + n - 1
          /\ r' = [r EXCEPT ![t] = None]
          /\ rel' = [rel EXCEPT ![t] = FALSE]
          /\ pc' = [pc EXCEPT ![t] = "idle"]
      BY <2>1, <2>3 DEF ReleaseTurn
    <3>a. shm_release_waiters' =
            IF pc[t] = "check" THEN shm_release_waiters - 1
            ELSE shm_release_waiters
      BY <2>1, <2>2, <3>1
    <3>b. /\ SameButAt(r[t]) /\ SameRefc(r[t]) /\ SameMapcount(r[t])
          /\ SameGuarded(r[t]) /\ SameReleasing(r[t]) /\ SameReleaseFrees(r[t])
          /\ shm'[r[t]].st = "freed" /\ ~shm'[r[t]].mm
      BY <2>2, <3>1 DEF Freed, TypeOK
    <3>c. OthersStay(t) /\ pc'[t] = "idle" /\ r'[t] = None /\ ~rel'[t]
      BY <3>1 DEF TypeOK
    <3>2. ReleaseFreesEffect(t)
      BY <2>1, <2>2, <2>3, <3>a, <3>b, <3>c DEF ReleaseFreesEffect
    <3> QED BY <3>2 DEF ThreadEffect
  <2>4. CASE ~shm[r[t]].release_frees
    <3>1. /\ shm_release_waiters' = shm_release_waiters + n
          /\ pc' = [pc EXCEPT ![t] = "wait"]
          /\ UNCHANGED <<shm, r, rel>>
      BY <2>1, <2>4 DEF ReleaseTurn
    <3>2. ReleaseWaitsEffect(t)
      BY <2>1, <2>2, <2>4, <3>1 DEF TypeOK, ReleaseWaitsEffect
    <3> QED BY <3>2 DEF ThreadEffect
  <2> QED BY <2>3, <2>4
<1>16. ASSUME Halt PROVE Stays
  BY <1>16 DEF Halt, Stays
<1>19. ASSUME NEW t \in Threads, CleanupLeaves(t) PROVE ThreadEffect(t)
  BY <1>19 DEF CleanupLeaves, Located, TypeOK, LeavesEffect, ThreadEffect
<1>17. CASE UNCHANGED vars
  BY <1>17 DEF vars, Effect, Stays
<1>18. CASE Next
  <2>1. mappers' = mappers BY <1>18 DEF Next
  <2>2. Stays \/ \E t \in Threads : ThreadEffect(t)
    BY <1>18, <1>1, <1>2, <1>3, <1>4, <1>5, <1>6, <1>7, <1>8, <1>9, <1>10,
       <1>11, <1>12, <1>13, <1>14, <1>15, <1>16, <1>19
    DEF Next, Start, Step, RegisterShm, SetTmemParam, RpcAlloc, Jobs,
        MobjGetPanics, IncMapAsserts, DecMapFaults
  <2> QED BY <2>1, <2>2 DEF Effect
<1> QED BY <1>17, <1>18

(***************************************************************************)
(* Types: no count goes below 0.                                           *)
(***************************************************************************)
LEMMA NextTypeOK == Local /\ CountsHold /\ [Next]_vars => TypeOK'
<1> SUFFICES ASSUME Local, CountsHold, [Next]_vars PROVE TypeOK'
  OBVIOUS
<1> USE DEF At, Goto, Local
<1>a. shm \in [Objs -> Object] BY DEF TypeOK, Object
<1>b. ASSUME NEW t \in Threads, pc[t] # "idle"
      PROVE  /\ r[t] \in Objs
             /\ shm[r[t]].refc \in Nat /\ shm[r[t]].mapcount \in Nat
  BY <1>b DEF Located, TypeOK
<1>1. ASSUME NEW t \in Threads,
             NEW c \in Cookies, NEW l \in {"unguard", "held"},
             NEW j \in Jobs, Alloc(t, c, l, j), UNCHANGED mappers
      PROVE  TypeOK'
  <2>1. PICK o \in Objs :
          /\ shm' = [shm EXCEPT ![o].st = "listed", ![o].cookie = c,
                                ![o].refc = 1, ![o].guarded = TRUE]
          /\ r' = [r EXCEPT ![t] = o]
    BY <1>1 DEF Alloc
  <2>2. shm' \in [Objs -> Object] BY <1>a, <2>1, ObjectUpdates
  <2> QED BY <1>1, <2>1, <2>2 DEF Alloc, Object, TypeOK
<1>2. ASSUME NEW t \in Threads,
             NEW c \in Cookies, GetByCookie(t, c), UNCHANGED mappers
      PROVE  TypeOK'
  <2>1. PICK o \in Objs : r' = [r EXCEPT ![t] = o]
    BY <1>2 DEF GetByCookie, Find
  <2> QED BY <1>2, <2>1 DEF GetByCookie, TypeOK
<1>3. ASSUME NEW t \in Threads,
             NEW c \in Cookies, ReleaseByCookie(t, c), UNCHANGED mappers
      PROVE  TypeOK'
  <2>1. PICK o \in Objs : /\ shm' = [shm EXCEPT ![o].releasing = TRUE]
                          /\ r' = [r EXCEPT ![t] = o]
    BY <1>3 DEF ReleaseByCookie, Find
  <2>2. shm' \in [Objs -> Object] BY <1>a, <2>1, ObjectUpdates
  <2> QED BY <1>3, <2>1, <2>2 DEF ReleaseByCookie, Object, TypeOK
<1>4. ASSUME NEW t \in Threads, Unguard(t), UNCHANGED mappers PROVE TypeOK'
  <2>2. shm' \in [Objs -> Object]
    BY <1>4, <1>a, <1>b, ObjectUpdates DEF Unguard
  <2> QED BY <1>4, <2>2 DEF Unguard, Object, TypeOK
<1>5. ASSUME NEW t \in Threads, MobjGet(t), UNCHANGED mappers PROVE TypeOK'
  <2>1. shm[r[t]].refc + 1 \in Nat BY <1>5, <1>b DEF MobjGet
  <2>2. shm' \in [Objs -> Object]
    BY <1>5, <1>a, <1>b, <2>1, ObjectUpdates DEF MobjGet
  <2> QED BY <1>5, <2>2 DEF MobjGet, Object, TypeOK
<1>6. ASSUME NEW t \in Threads, IncMap(t), UNCHANGED mappers PROVE TypeOK'
  <2>1. shm[r[t]].mapcount + 1 \in Nat BY <1>6, <1>b DEF IncMap
  <2>2. [shm EXCEPT ![r[t]].mapcount = @ + 1] \in [Objs -> Object]
    BY <1>6, <1>a, <1>b, <2>1, ObjectUpdates DEF IncMap
  <2>3. shm' = [shm EXCEPT ![r[t]].mapcount = @ + 1] \/ shm' = shm
    BY <1>6 DEF IncMap
  <2>4. shm' \in [Objs -> Object] BY <1>a, <2>2, <2>3
  <2> QED BY <1>6, <2>4 DEF IncMap, Object, TypeOK
<1>7. ASSUME NEW t \in Threads, IncMapFindsMapped(t), UNCHANGED mappers
      PROVE  TypeOK'
  BY <1>7 DEF IncMapFindsMapped, TypeOK
<1>8. ASSUME NEW t \in Threads, IncMapMaps(t), UNCHANGED mappers PROVE TypeOK'
  <2>1. [shm EXCEPT ![r[t]].mm = TRUE, ![r[t]].mapcount = 1]
          \in [Objs -> Object]
    BY <1>8, <1>a, <1>b, ObjectUpdates DEF IncMapMaps
  <2>2. \/ shm' = [shm EXCEPT ![r[t]].mm = TRUE, ![r[t]].mapcount = 1]
        \/ shm' = shm
    BY <1>8 DEF IncMapMaps
  <2>3. shm' \in [Objs -> Object] BY <1>a, <2>1, <2>2
  <2> QED BY <1>8, <2>3 DEF IncMapMaps, Object, TypeOK
<1>9. ASSUME NEW t \in Threads, DecMap(t), UNCHANGED mappers PROVE TypeOK'
  <2>1. shm[r[t]].mapcount - 1 \in Nat BY <1>9, <1>b DEF DecMap
  <2>2. shm' \in [Objs -> Object]
    BY <1>9, <1>a, <1>b, <2>1, ObjectUpdates DEF DecMap
  <2> QED BY <1>9, <2>2 DEF DecMap, Object, TypeOK
<1>10. ASSUME NEW t \in Threads, DecMapUnmaps(t), UNCHANGED mappers
      PROVE  TypeOK'
  <2>2. shm' \in [Objs -> Object]
    BY <1>10, <1>a, <1>b, ObjectUpdates DEF DecMapUnmaps, Unmap
  <2> QED BY <1>10, <2>2 DEF DecMapUnmaps, Unmap, Object, TypeOK
<1>11. ASSUME NEW t \in Threads, MobjPut(t), UNCHANGED mappers PROVE TypeOK'
  <2>3. job' \in [Threads -> Jobs] BY <1>11 DEF MobjPut, TypeOK, Jobs
  <2>1. shm[r[t]].refc - 1 \in Nat BY <1>11, <1>b DEF MobjPut, CountsHold,
      Referring
  <2>2. shm' \in [Objs -> Object]
    BY <1>11, <1>a, <1>b, <2>1, ObjectUpdates DEF MobjPut, Return
  <2> QED BY <1>11, <2>2, <2>3 DEF MobjPut, Return, Object, TypeOK
<1>12. ASSUME NEW t \in Threads, FreeGuarded(t), UNCHANGED mappers
      PROVE  TypeOK'
  <2>2. shm' \in [Objs -> Object]
    BY <1>12, <1>a, <1>b, ObjectUpdates DEF FreeGuarded, Freed, Return
  <2> QED BY <1>12, <2>2 DEF FreeGuarded, Freed, Return, Object, TypeOK
<1>13. ASSUME NEW t \in Threads, FreeReleased(t), UNCHANGED mappers
      PROVE  TypeOK'
  <2>2. shm' \in [Objs -> Object]
    BY <1>13, <1>a, <1>b, ObjectUpdates DEF FreeReleased
  <2> QED BY <1>13, <2>2 DEF FreeReleased, Object, TypeOK
<1>14. ASSUME NEW t \in Threads, TellWaiters(t), UNCHANGED mappers
      PROVE  TypeOK'
  BY <1>14, <1>b DEF TellWaiters, TypeOK
<1>15. ASSUME NEW t \in Threads, ReleaseEnters(t) \/ ReleaseRechecks(t),
             UNCHANGED mappers
      PROVE  TypeOK'
  <2>1. PICK n \in {0, 1} : /\ ReleaseTurn(t, n) /\ halted' = halted
                            /\ UNCHANGED <<job, left>>
                            /\ pc[t] \in {"enter", "check"}
                            /\ n = 0 => pc[t] = "check"
    BY <1>15 DEF ReleaseEnters, ReleaseRechecks
  <2>2. /\ shm_release_waiters + n \in Nat
        /\ shm_release_waiters + n - 1 \in Nat
    BY <2>1 DEF CountsHold, TypeOK
  <2>3. Freed(r[t]) \in [Objs -> Object]
    BY <1>a, <1>b, <2>1, ObjectUpdates DEF Freed
  <2>4. shm' \in [Objs -> Object] BY <1>a, <2>1, <2>3 DEF ReleaseTurn
  <2> QED BY <1>15, <2>1, <2>2, <2>4 DEF ReleaseTurn, Object, TypeOK
<1>18. ASSUME NEW t \in Threads, CleanupLeaves(t), UNCHANGED mappers
      PROVE  TypeOK'
  <2>1. left' \in SUBSET Objs BY <1>18, <1>b DEF CleanupLeaves, TypeOK
  <2>2. job' \in [Threads -> Jobs] BY <1>18 DEF CleanupLeaves, TypeOK, Jobs
  <2> QED BY <1>18, <2>1, <2>2 DEF CleanupLeaves, TypeOK
<1>16. ASSUME Halt, UNCHANGED mappers PROVE TypeOK'
  BY <1>16 DEF Halt, TypeOK
<1>17. CASE UNCHANGED vars BY <1>17 DEF vars, TypeOK
<1> QED
  BY <1>1, <1>2, <1>3, <1>4, <1>5, <1>6, <1>7, <1>8, <1>9, <1>10, <1>11, <1>12,
     <1>13, <1>14, <1>15, <1>16, <1>17, <1>18
  DEF Next, Start, Step, RegisterShm, SetTmemParam, RpcAlloc, Jobs,
      MobjGetPanics, IncMapAsserts, DecMapFaults

(***************************************************************************)
(* The parts of Local, one lemma each: whom a thread works on.             *)
(***************************************************************************)
LEMMA NextLocated == Local /\ CountsHold /\ Effect => Located'
<1> SUFFICES ASSUME Local, CountsHold, Effect PROVE Located'
  OBVIOUS
<1>0. None \notin Objs BY RegShmAssumption DEF Objs
<1> USE DEF SameSt, SameRefc, SameMapcount, SameMm, SameGuarded, SameReleasing,
        SameReleaseFrees, SameMap, SameFlags, SameButAt, OthersStay, Moves,
        SameWaiters, SameJobs, Turns
<1>1. ASSUME NEW t \in Threads,
             NEW o \in Objs, NEW l \in {"unguard", "held"}, NEW j \in Jobs,
             AllocEffect(t, o, l, j)
      PROVE  Located'
  BY <1>0, <1>1 DEF Local, Located, AllocEffect
<1>2. ASSUME NEW t \in Threads, NEW o \in Objs, GetByCookieEffect(t, o)
      PROVE  Located'
  BY <1>0, <1>2 DEF Local, Located, GetByCookieEffect
<1>3. ASSUME NEW t \in Threads, NEW o \in Objs, ReleaseByCookieEffect(t, o)
      PROVE  Located'
  BY <1>0, <1>3 DEF Local, Located, ReleaseByCookieEffect
<1>4. ASSUME NEW t \in Threads, UnguardEffect(t) PROVE Located'
  BY <1>0, <1>4 DEF Local, Located, UnguardEffect
<1>5. ASSUME NEW t \in Threads, MobjGetEffect(t) PROVE Located'
  BY <1>0, <1>5 DEF Local, Located, MobjGetEffect
<1>6. ASSUME NEW t \in Threads, IncMapEffect(t) PROVE Located'
  BY <1>0, <1>6 DEF Local, Located, IncMapEffect
<1>7. ASSUME NEW t \in Threads, FindsMappedEffect(t) PROVE Located'
  BY <1>0, <1>7 DEF Local, Located, FindsMappedEffect
<1>8. ASSUME NEW t \in Threads, IncMapMapsEffect(t) PROVE Located'
  BY <1>0, <1>8 DEF Local, Located, IncMapMapsEffect
<1>9. ASSUME NEW t \in Threads, DecMapEffect(t) PROVE Located'
  BY <1>0, <1>9 DEF Local, Located, DecMapEffect
<1>10. ASSUME NEW t \in Threads, DecMapUnmapsEffect(t) PROVE Located'
  BY <1>0, <1>10 DEF Local, Located, DecMapUnmapsEffect
<1>11. ASSUME NEW t \in Threads, MobjPutEffect(t) PROVE Located'
  BY <1>0, <1>11 DEF Local, Located, MobjPutEffect
<1>12. ASSUME NEW t \in Threads, FreeGuardedEffect(t) PROVE Located'
  BY <1>0, <1>12 DEF Local, Located, FreeGuardedEffect
<1>13. ASSUME NEW t \in Threads, FreeReleasedEffect(t) PROVE Located'
  BY <1>0, <1>13 DEF Local, Located, FreeReleasedEffect
<1>14. ASSUME NEW t \in Threads, TellWaitersEffect(t) PROVE Located'
  BY <1>0, <1>14 DEF Local, Located, TellWaitersEffect
<1>15. ASSUME NEW t \in Threads, ReleaseFreesEffect(t) PROVE Located'
  BY <1>0, <1>15 DEF Local, Located, ReleaseFreesEffect
<1>16. ASSUME NEW t \in Threads, ReleaseWaitsEffect(t) PROVE Located'
  BY <1>0, <1>16 DEF Local, Located, ReleaseWaitsEffect
<1>17. CASE Stays
  BY <1>17 DEF Local, Stays, Located
<1>18. ASSUME NEW t \in Threads, LeavesEffect(t) PROVE Located'
  BY <1>0, <1>18 DEF Local, Located, LeavesEffect
<1> QED
  BY <1>1, <1>2, <1>3, <1>4, <1>5, <1>6, <1>7, <1>8, <1>9, <1>10, <1>11, <1>12,
     <1>13, <1>14, <1>15, <1>16, <1>17, <1>18
  DEF Effect, ThreadEffect

(***************************************************************************)
(* A claim stays the only one, and its object in memory.                   *)
(***************************************************************************)
LEMMA NextClaims == Local /\ CountsHold /\ Effect => Claims'
<1> SUFFICES ASSUME Local, CountsHold, Effect PROVE Claims'
  OBVIOUS
<1>0. None \notin Objs BY RegShmAssumption DEF Objs
<1> USE DEF SameSt, SameRefc, SameMapcount, SameMm, SameGuarded, SameReleasing,
        SameReleaseFrees, SameMap, SameFlags, SameButAt, OthersStay, Moves,
        SameWaiters, SameJobs, Turns
<1>1. ASSUME NEW t \in Threads,
             NEW o \in Objs, NEW l \in {"unguard", "held"}, NEW j \in Jobs,
             AllocEffect(t, o, l, j)
      PROVE  Claims'
  BY <1>0, <1>1 DEF Local, Located, Claims, AllocEffect
<1>2. ASSUME NEW t \in Threads, NEW o \in Objs, GetByCookieEffect(t, o)
      PROVE  Claims'
  BY <1>0, <1>2 DEF Local, Located, Claims, GetByCookieEffect
<1>3. ASSUME NEW t \in Threads, NEW o \in Objs, ReleaseByCookieEffect(t, o)
      PROVE  Claims'
  BY <1>0, <1>3 DEF Local, Located, Claims, ReleaseByCookieEffect
<1>4. ASSUME NEW t \in Threads, UnguardEffect(t) PROVE Claims'
  BY <1>0, <1>4 DEF Local, Located, Claims, UnguardEffect
<1>5. ASSUME NEW t \in Threads, MobjGetEffect(t) PROVE Claims'
  BY <1>0, <1>5 DEF Local, Located, Claims, MobjGetEffect
<1>6. ASSUME NEW t \in Threads, IncMapEffect(t) PROVE Claims'
  BY <1>0, <1>6 DEF Local, Located, Claims, IncMapEffect
<1>7. ASSUME NEW t \in Threads, FindsMappedEffect(t) PROVE Claims'
  BY <1>0, <1>7 DEF Local, Located, Claims, FindsMappedEffect
<1>8. ASSUME NEW t \in Threads, IncMapMapsEffect(t) PROVE Claims'
  BY <1>0, <1>8 DEF Local, Located, Claims, IncMapMapsEffect
<1>9. ASSUME NEW t \in Threads, DecMapEffect(t) PROVE Claims'
  BY <1>0, <1>9 DEF Local, Located, Claims, DecMapEffect
<1>10. ASSUME NEW t \in Threads, DecMapUnmapsEffect(t) PROVE Claims'
  BY <1>0, <1>10 DEF Local, Located, Claims, DecMapUnmapsEffect
<1>11. ASSUME NEW t \in Threads, MobjPutEffect(t) PROVE Claims'
  BY <1>0, <1>11 DEF Local, Located, Claims, MobjPutEffect
<1>12. ASSUME NEW t \in Threads, FreeGuardedEffect(t) PROVE Claims'
  BY <1>0, <1>12 DEF Local, Located, Claims, FreeGuardedEffect
<1>13. ASSUME NEW t \in Threads, FreeReleasedEffect(t) PROVE Claims'
  BY <1>0, <1>13 DEF Local, Located, Claims, FreeReleasedEffect
<1>14. ASSUME NEW t \in Threads, TellWaitersEffect(t) PROVE Claims'
  BY <1>0, <1>14 DEF Local, Located, Claims, TellWaitersEffect
<1>15. ASSUME NEW t \in Threads, ReleaseFreesEffect(t) PROVE Claims'
  BY <1>0, <1>15 DEF Local, Located, Claims, ReleaseFreesEffect
<1>16. ASSUME NEW t \in Threads, ReleaseWaitsEffect(t) PROVE Claims'
  <2>1. \A u \in Threads : r'[u] = r[u] /\ rel'[u] = rel[u]
    BY <1>16 DEF ReleaseWaitsEffect
  <2>2. \A u \in Threads : pc'[u] = pc[u] \/ (u = t /\ pc'[u] = "wait")
    BY <1>16 DEF ReleaseWaitsEffect
  <2>3. shm' = shm /\ rel[t] BY <1>16 DEF ReleaseWaitsEffect
  <2> QED BY <2>1, <2>2, <2>3 DEF Local, Claims
<1>17. CASE Stays
  BY <1>17 DEF Local, Stays, Located, Claims
<1>18. ASSUME NEW t \in Threads, LeavesEffect(t) PROVE Claims'
  BY <1>0, <1>18 DEF Local, Located, Claims, Leaving, LeavesEffect
<1> QED
  BY <1>1, <1>2, <1>3, <1>4, <1>5, <1>6, <1>7, <1>8, <1>9, <1>10, <1>11, <1>12,
     <1>13, <1>14, <1>15, <1>16, <1>17, <1>18
  DEF Effect, ThreadEffect

(***************************************************************************)
(* One thread at a time is to dispose of an object.                        *)
(***************************************************************************)
LEMMA NextLastPut == Local /\ CountsHold /\ Effect => LastPut'
<1> SUFFICES ASSUME Local, CountsHold, Effect PROVE LastPut'
  OBVIOUS
<1>0. None \notin Objs BY RegShmAssumption DEF Objs
<1> USE DEF SameSt, SameRefc, SameMapcount, SameMm, SameGuarded, SameReleasing,
        SameReleaseFrees, SameMap, SameFlags, SameButAt, OthersStay, Moves,
        SameWaiters, SameJobs, Turns
<1>1. ASSUME NEW t \in Threads,
             NEW o \in Objs, NEW l \in {"unguard", "held"}, NEW j \in Jobs,
             AllocEffect(t, o, l, j)
      PROVE  LastPut'
  BY <1>0, <1>1
  DEF Local, Located, LastPut, ObjectStates, CountsHold,
      AllocEffect
<1>2. ASSUME NEW t \in Threads, NEW o \in Objs, GetByCookieEffect(t, o)
      PROVE  LastPut'
  BY <1>0, <1>2
  DEF Local, Located, LastPut, ObjectStates, CountsHold,
      GetByCookieEffect
<1>3. ASSUME NEW t \in Threads, NEW o \in Objs, ReleaseByCookieEffect(t, o)
      PROVE  LastPut'
  BY <1>0, <1>3
  DEF Local, Located, LastPut, ObjectStates, CountsHold,
      ReleaseByCookieEffect
<1>4. ASSUME NEW t \in Threads, UnguardEffect(t) PROVE LastPut'
  BY <1>0, <1>4
  DEF Local, Located, LastPut, ObjectStates, CountsHold,
      UnguardEffect
<1>5. ASSUME NEW t \in Threads, MobjGetEffect(t) PROVE LastPut'
  BY <1>0, <1>5
  DEF Local, Located, LastPut, ObjectStates, CountsHold,
      MobjGetEffect
<1>6. ASSUME NEW t \in Threads, IncMapEffect(t) PROVE LastPut'
  BY <1>0, <1>6
  DEF Local, Located, LastPut, ObjectStates, CountsHold,
      IncMapEffect
<1>7. ASSUME NEW t \in Threads, FindsMappedEffect(t) PROVE LastPut'
  BY <1>0, <1>7
  DEF Local, Located, LastPut, ObjectStates, CountsHold,
      FindsMappedEffect
<1>8. ASSUME NEW t \in Threads, IncMapMapsEffect(t) PROVE LastPut'
  BY <1>0, <1>8
  DEF Local, Located, LastPut, ObjectStates, CountsHold,
      IncMapMapsEffect
<1>9. ASSUME NEW t \in Threads, DecMapEffect(t) PROVE LastPut'
  BY <1>0, <1>9
  DEF Local, Located, LastPut, ObjectStates, CountsHold,
      DecMapEffect
<1>10. ASSUME NEW t \in Threads, DecMapUnmapsEffect(t) PROVE LastPut'
  BY <1>0, <1>10
  DEF Local, Located, LastPut, ObjectStates, CountsHold,
      DecMapUnmapsEffect
<1>11. ASSUME NEW t \in Threads, MobjPutEffect(t) PROVE LastPut'
  BY <1>0, <1>11
  DEF Local, Located, LastPut, ObjectStates, CountsHold,
      MobjPutEffect
<1>12. ASSUME NEW t \in Threads, FreeGuardedEffect(t) PROVE LastPut'
  BY <1>0, <1>12
  DEF Local, Located, LastPut, ObjectStates, CountsHold,
      FreeGuardedEffect
<1>13. ASSUME NEW t \in Threads, FreeReleasedEffect(t) PROVE LastPut'
  BY <1>0, <1>13
  DEF Local, Located, LastPut, ObjectStates, CountsHold,
      FreeReleasedEffect
<1>14. ASSUME NEW t \in Threads, TellWaitersEffect(t) PROVE LastPut'
  BY <1>0, <1>14
  DEF Local, Located, LastPut, ObjectStates, CountsHold,
      TellWaitersEffect
<1>15. ASSUME NEW t \in Threads, ReleaseFreesEffect(t) PROVE LastPut'
  BY <1>0, <1>15
  DEF Local, Located, LastPut, ObjectStates, CountsHold,
      ReleaseFreesEffect
<1>16. ASSUME NEW t \in Threads, ReleaseWaitsEffect(t) PROVE LastPut'
  BY <1>0, <1>16
  DEF Local, Located, LastPut, ObjectStates, CountsHold,
      ReleaseWaitsEffect
<1>17. CASE Stays
  BY <1>17 DEF Local, Stays, Located, LastPut, ObjectStates, CountsHold
<1>18. ASSUME NEW t \in Threads, LeavesEffect(t) PROVE LastPut'
  BY <1>0, <1>18
  DEF Local, Located, LastPut, ObjectStates, CountsHold,
      LeavesEffect
<1> QED
  BY <1>1, <1>2, <1>3, <1>4, <1>5, <1>6, <1>7, <1>8, <1>9, <1>10, <1>11, <1>12,
     <1>13, <1>14, <1>15, <1>16, <1>17, <1>18
  DEF Effect, ThreadEffect

(***************************************************************************)
(* The flags of an object.                                                 *)
(***************************************************************************)
LEMMA NextObjectStates == Local /\ CountsHold /\ Effect => ObjectStates'
<1> SUFFICES ASSUME Local, CountsHold, Effect PROVE ObjectStates'
  OBVIOUS
<1> USE DEF SameSt, SameRefc, SameMapcount, SameMm, SameGuarded, SameReleasing,
        SameReleaseFrees, SameMap, SameFlags, SameButAt, OthersStay, Moves,
        SameWaiters, SameJobs, Turns
<1>1. ASSUME NEW t \in Threads,
             NEW o \in Objs, NEW l \in {"unguard", "held"}, NEW j \in Jobs,
             AllocEffect(t, o, l, j)
      PROVE  ObjectStates'
  BY <1>1 DEF Local, Located, LastPut, ObjectStates, AllocEffect
<1>2. ASSUME NEW t \in Threads, NEW o \in Objs, GetByCookieEffect(t, o)
      PROVE  ObjectStates'
  BY <1>2 DEF Local, Located, LastPut, ObjectStates, GetByCookieEffect
<1>3. ASSUME NEW t \in Threads, NEW o \in Objs, ReleaseByCookieEffect(t, o)
      PROVE  ObjectStates'
  BY <1>3 DEF Local, Located, LastPut, ObjectStates, ReleaseByCookieEffect
<1>4. ASSUME NEW t \in Threads, UnguardEffect(t) PROVE ObjectStates'
  BY <1>4 DEF Local, Located, LastPut, ObjectStates, UnguardEffect
<1>5. ASSUME NEW t \in Threads, MobjGetEffect(t) PROVE ObjectStates'
  BY <1>5 DEF Local, Located, LastPut, ObjectStates, MobjGetEffect
<1>6. ASSUME NEW t \in Threads, IncMapEffect(t) PROVE ObjectStates'
  BY <1>6 DEF Local, Located, LastPut, ObjectStates, IncMapEffect
<1>7. ASSUME NEW t \in Threads, FindsMappedEffect(t) PROVE ObjectStates'
  BY <1>7 DEF Local, Located, LastPut, ObjectStates, FindsMappedEffect
<1>8. ASSUME NEW t \in Threads, IncMapMapsEffect(t) PROVE ObjectStates'
  BY <1>8 DEF Local, Located, LastPut, ObjectStates, IncMapMapsEffect
<1>9. ASSUME NEW t \in Threads, DecMapEffect(t) PROVE ObjectStates'
  BY <1>9 DEF Local, Located, LastPut, ObjectStates, DecMapEffect
<1>10. ASSUME NEW t \in Threads, DecMapUnmapsEffect(t) PROVE ObjectStates'
  BY <1>10 DEF Local, Located, LastPut, ObjectStates, DecMapUnmapsEffect
<1>11. ASSUME NEW t \in Threads, MobjPutEffect(t) PROVE ObjectStates'
  BY <1>11 DEF Local, Located, LastPut, ObjectStates, MobjPutEffect
<1>12. ASSUME NEW t \in Threads, FreeGuardedEffect(t) PROVE ObjectStates'
  BY <1>12 DEF Local, Located, LastPut, ObjectStates, FreeGuardedEffect
<1>13. ASSUME NEW t \in Threads, FreeReleasedEffect(t) PROVE ObjectStates'
  BY <1>13 DEF Local, Located, LastPut, ObjectStates, FreeReleasedEffect
<1>14. ASSUME NEW t \in Threads, TellWaitersEffect(t) PROVE ObjectStates'
  BY <1>14 DEF Local, Located, LastPut, ObjectStates, TellWaitersEffect
<1>15. ASSUME NEW t \in Threads, ReleaseFreesEffect(t) PROVE ObjectStates'
  BY <1>15 DEF Local, Located, LastPut, ObjectStates, ReleaseFreesEffect
<1>16. ASSUME NEW t \in Threads, ReleaseWaitsEffect(t) PROVE ObjectStates'
  BY <1>16 DEF Local, Located, LastPut, ObjectStates, ReleaseWaitsEffect
<1>17. CASE Stays
  BY <1>17 DEF Local, Stays, Located, LastPut, ObjectStates
<1>18. ASSUME NEW t \in Threads, LeavesEffect(t) PROVE ObjectStates'
  BY <1>18 DEF Local, Located, LastPut, ObjectStates, LeavesEffect
<1> QED
  BY <1>1, <1>2, <1>3, <1>4, <1>5, <1>6, <1>7, <1>8, <1>9, <1>10, <1>11, <1>12,
     <1>13, <1>14, <1>15, <1>16, <1>17, <1>18
  DEF Effect, ThreadEffect

(***************************************************************************)
(* A new registration stays guarded until its thread unguards it.          *)
(***************************************************************************)
LEMMA NextGuarding == Local /\ CountsHold /\ Effect => Guarding'
<1> SUFFICES ASSUME Local, CountsHold, Effect PROVE Guarding'
  OBVIOUS
<1>0. None \notin Objs BY RegShmAssumption DEF Objs
<1> USE DEF SameSt, SameRefc, SameMapcount, SameMm, SameGuarded, SameReleasing,
        SameReleaseFrees, SameMap, SameFlags, SameButAt, OthersStay, Moves,
        SameWaiters, SameJobs, Turns
<1>1. ASSUME NEW t \in Threads,
             NEW o \in Objs, NEW l \in {"unguard", "held"}, NEW j \in Jobs,
             AllocEffect(t, o, l, j)
      PROVE  Guarding'
  BY <1>0, <1>1 DEF Local, Located, Guarding, AllocEffect
<1>2. ASSUME NEW t \in Threads, NEW o \in Objs, GetByCookieEffect(t, o)
      PROVE  Guarding'
  BY <1>0, <1>2 DEF Local, Located, Guarding, GetByCookieEffect
<1>3. ASSUME NEW t \in Threads, NEW o \in Objs, ReleaseByCookieEffect(t, o)
      PROVE  Guarding'
  BY <1>0, <1>3 DEF Local, Located, Guarding, ReleaseByCookieEffect
<1>4. ASSUME NEW t \in Threads, UnguardEffect(t) PROVE Guarding'
  BY <1>0, <1>4 DEF Local, Located, Guarding, UnguardEffect
<1>5. ASSUME NEW t \in Threads, MobjGetEffect(t) PROVE Guarding'
  BY <1>0, <1>5 DEF Local, Located, Guarding, MobjGetEffect
<1>6. ASSUME NEW t \in Threads, IncMapEffect(t) PROVE Guarding'
  BY <1>0, <1>6 DEF Local, Located, Guarding, IncMapEffect
<1>7. ASSUME NEW t \in Threads, FindsMappedEffect(t) PROVE Guarding'
  BY <1>0, <1>7 DEF Local, Located, Guarding, FindsMappedEffect
<1>8. ASSUME NEW t \in Threads, IncMapMapsEffect(t) PROVE Guarding'
  BY <1>0, <1>8 DEF Local, Located, Guarding, IncMapMapsEffect
<1>9. ASSUME NEW t \in Threads, DecMapEffect(t) PROVE Guarding'
  BY <1>0, <1>9 DEF Local, Located, Guarding, DecMapEffect
<1>10. ASSUME NEW t \in Threads, DecMapUnmapsEffect(t) PROVE Guarding'
  BY <1>0, <1>10 DEF Local, Located, Guarding, DecMapUnmapsEffect
<1>11. ASSUME NEW t \in Threads, MobjPutEffect(t) PROVE Guarding'
  BY <1>0, <1>11 DEF Local, Located, Guarding, MobjPutEffect
<1>12. ASSUME NEW t \in Threads, FreeGuardedEffect(t) PROVE Guarding'
  <2>1. \A p \in Objs : shm'[p].guarded = shm[p].guarded
    BY <1>12 DEF FreeGuardedEffect
  <2>2. \A u \in Threads :
          pc'[u] = "unguard" => pc[u] = "unguard" /\ r'[u] = r[u]
    BY <1>12 DEF FreeGuardedEffect
  <2> QED BY <2>1, <2>2 DEF Local, Located, Guarding
<1>13. ASSUME NEW t \in Threads, FreeReleasedEffect(t) PROVE Guarding'
  BY <1>0, <1>13 DEF Local, Located, Guarding, FreeReleasedEffect
<1>14. ASSUME NEW t \in Threads, TellWaitersEffect(t) PROVE Guarding'
  BY <1>0, <1>14 DEF Local, Located, Guarding, TellWaitersEffect
<1>15. ASSUME NEW t \in Threads, ReleaseFreesEffect(t) PROVE Guarding'
  BY <1>0, <1>15 DEF Local, Located, Guarding, ReleaseFreesEffect
<1>16. ASSUME NEW t \in Threads, ReleaseWaitsEffect(t) PROVE Guarding'
  BY <1>0, <1>16 DEF Local, Located, Guarding, ReleaseWaitsEffect
<1>17. CASE Stays
  BY <1>17 DEF Local, Stays, Located, Guarding
<1>18. ASSUME NEW t \in Threads, LeavesEffect(t) PROVE Guarding'
  BY <1>0, <1>18 DEF Local, Located, Guarding, LeavesEffect
<1> QED
  BY <1>1, <1>2, <1>3, <1>4, <1>5, <1>6, <1>7, <1>8, <1>9, <1>10, <1>11, <1>12,
     <1>13, <1>14, <1>15, <1>16, <1>17, <1>18
  DEF Effect, ThreadEffect

(***************************************************************************)
(* A temporary memory parameter has one thread, whose reference is there.  *)
(***************************************************************************)
LEMMA NextLeaving == Local /\ CountsHold /\ Effect => Leaving'
<1> SUFFICES ASSUME Local, CountsHold, Effect PROVE Leaving'
  OBVIOUS
<1>0. None \notin Objs BY RegShmAssumption DEF Objs
<1> USE DEF SameSt, SameRefc, SameMapcount, SameMm, SameGuarded, SameReleasing,
        SameReleaseFrees, SameMap, SameFlags, SameButAt, OthersStay, Moves,
        SameWaiters, SameJobs, Turns
<1>1. ASSUME NEW t \in Threads,
             NEW o \in Objs, NEW l \in {"unguard", "held"}, NEW j \in Jobs,
             AllocEffect(t, o, l, j)
      PROVE  Leaving'
  BY <1>0, <1>1 DEF Local, Located, Claims, ObjectStates, Leaving, AllocEffect
<1>2. ASSUME NEW t \in Threads, NEW o \in Objs, GetByCookieEffect(t, o)
      PROVE  Leaving'
  BY <1>0, <1>2 DEF Local, Located, Claims, ObjectStates, Leaving, GetByCookieEffect
<1>3. ASSUME NEW t \in Threads, NEW o \in Objs, ReleaseByCookieEffect(t, o)
      PROVE  Leaving'
  BY <1>0, <1>3 DEF Local, Located, Claims, ObjectStates, Leaving, ReleaseByCookieEffect
<1>4. ASSUME NEW t \in Threads, UnguardEffect(t) PROVE Leaving'
  BY <1>0, <1>4 DEF Local, Located, Claims, ObjectStates, Leaving, UnguardEffect
<1>5. ASSUME NEW t \in Threads, MobjGetEffect(t) PROVE Leaving'
  BY <1>0, <1>5 DEF Local, Located, Claims, ObjectStates, Leaving, MobjGetEffect
<1>6. ASSUME NEW t \in Threads, IncMapEffect(t) PROVE Leaving'
  BY <1>0, <1>6 DEF Local, Located, Claims, ObjectStates, Leaving, IncMapEffect
<1>7. ASSUME NEW t \in Threads, FindsMappedEffect(t) PROVE Leaving'
  BY <1>0, <1>7 DEF Local, Located, Claims, ObjectStates, Leaving, FindsMappedEffect
<1>8. ASSUME NEW t \in Threads, IncMapMapsEffect(t) PROVE Leaving'
  BY <1>0, <1>8 DEF Local, Located, Claims, ObjectStates, Leaving, IncMapMapsEffect
<1>9. ASSUME NEW t \in Threads, DecMapEffect(t) PROVE Leaving'
  BY <1>0, <1>9 DEF Local, Located, Claims, ObjectStates, Leaving, DecMapEffect
<1>10. ASSUME NEW t \in Threads, DecMapUnmapsEffect(t) PROVE Leaving'
  BY <1>0, <1>10 DEF Local, Located, Claims, ObjectStates, Leaving, DecMapUnmapsEffect
<1>11. ASSUME NEW t \in Threads, MobjPutEffect(t) PROVE Leaving'
  BY <1>0, <1>11 DEF Local, Located, Claims, ObjectStates, Leaving, MobjPutEffect
<1>12. ASSUME NEW t \in Threads, FreeGuardedEffect(t) PROVE Leaving'
  BY <1>0, <1>12 DEF Local, Located, Claims, ObjectStates, Leaving, FreeGuardedEffect
<1>13. ASSUME NEW t \in Threads, FreeReleasedEffect(t) PROVE Leaving'
  BY <1>0, <1>13 DEF Local, Located, Claims, ObjectStates, Leaving, FreeReleasedEffect
<1>14. ASSUME NEW t \in Threads, TellWaitersEffect(t) PROVE Leaving'
  BY <1>0, <1>14 DEF Local, Located, Claims, ObjectStates, Leaving, TellWaitersEffect
<1>15. ASSUME NEW t \in Threads, ReleaseFreesEffect(t) PROVE Leaving'
  BY <1>0, <1>15 DEF Local, Located, Claims, ObjectStates, Leaving, ReleaseFreesEffect
<1>16. ASSUME NEW t \in Threads, ReleaseWaitsEffect(t) PROVE Leaving'
  BY <1>0, <1>16 DEF Local, Located, Claims, ObjectStates, Leaving, ReleaseWaitsEffect
<1>17. CASE Stays
  BY <1>17 DEF Local, Stays, Located, Claims, ObjectStates, Leaving
<1>18. ASSUME NEW t \in Threads, LeavesEffect(t) PROVE Leaving'
  BY <1>0, <1>18 DEF Local, Located, Claims, ObjectStates, Leaving, LeavesEffect
<1> QED
  BY <1>1, <1>2, <1>3, <1>4, <1>5, <1>6, <1>7, <1>8, <1>9, <1>10, <1>11, <1>12,
     <1>13, <1>14, <1>15, <1>16, <1>17, <1>18
  DEF Effect, ThreadEffect

(***************************************************************************)
(* Nothing is freed that a thread uses.                                    *)
(***************************************************************************)
LEMMA NextUsedNotFreed == Local /\ CountsHold /\ Effect => UsedNotFreed'
<1> SUFFICES ASSUME Local, CountsHold, Effect PROVE UsedNotFreed'
  OBVIOUS
<1>0. None \notin Objs BY RegShmAssumption DEF Objs
<1> USE DEF SameSt, SameRefc, SameMapcount, SameMm, SameGuarded, SameReleasing,
        SameReleaseFrees, SameMap, SameFlags, SameButAt, OthersStay, Moves,
        SameWaiters, SameJobs, Turns
<1>1. ASSUME NEW t \in Threads,
             NEW o \in Objs, NEW l \in {"unguard", "held"}, NEW j \in Jobs,
             AllocEffect(t, o, l, j)
      PROVE  UsedNotFreed'
  BY <1>0, <1>1
  DEF Local, Located, Claims, LastPut, ObjectStates, CountsHold, UsedNotFreed,
         InUse, Referring, AllocEffect
<1>2. ASSUME NEW t \in Threads, NEW o \in Objs, GetByCookieEffect(t, o)
      PROVE  UsedNotFreed'
  BY <1>0, <1>2
  DEF Local, Located, Claims, LastPut, ObjectStates, CountsHold, UsedNotFreed,
         InUse, Referring, GetByCookieEffect
<1>3. ASSUME NEW t \in Threads, NEW o \in Objs, ReleaseByCookieEffect(t, o)
      PROVE  UsedNotFreed'
  BY <1>0, <1>3
  DEF Local, Located, Claims, LastPut, ObjectStates, CountsHold, UsedNotFreed,
         InUse, Referring, ReleaseByCookieEffect
<1>4. ASSUME NEW t \in Threads, UnguardEffect(t) PROVE UsedNotFreed'
  BY <1>0, <1>4
  DEF Local, Located, Claims, LastPut, ObjectStates, CountsHold, UsedNotFreed,
         InUse, Referring, UnguardEffect
<1>5. ASSUME NEW t \in Threads, MobjGetEffect(t) PROVE UsedNotFreed'
  BY <1>0, <1>5
  DEF Local, Located, Claims, LastPut, ObjectStates, CountsHold, UsedNotFreed,
         InUse, Referring, MobjGetEffect
<1>6. ASSUME NEW t \in Threads, IncMapEffect(t) PROVE UsedNotFreed'
  BY <1>0, <1>6
  DEF Local, Located, Claims, LastPut, ObjectStates, CountsHold, UsedNotFreed,
         InUse, Referring, IncMapEffect
<1>7. ASSUME NEW t \in Threads, FindsMappedEffect(t) PROVE UsedNotFreed'
  BY <1>0, <1>7
  DEF Local, Located, Claims, LastPut, ObjectStates, CountsHold, UsedNotFreed,
         InUse, Referring, FindsMappedEffect
<1>8. ASSUME NEW t \in Threads, IncMapMapsEffect(t) PROVE UsedNotFreed'
  BY <1>0, <1>8
  DEF Local, Located, Claims, LastPut, ObjectStates, CountsHold, UsedNotFreed,
         InUse, Referring, IncMapMapsEffect
<1>9. ASSUME NEW t \in Threads, DecMapEffect(t) PROVE UsedNotFreed'
  BY <1>0, <1>9
  DEF Local, Located, Claims, LastPut, ObjectStates, CountsHold, UsedNotFreed,
         InUse, Referring, DecMapEffect
<1>10. ASSUME NEW t \in Threads, DecMapUnmapsEffect(t) PROVE UsedNotFreed'
  BY <1>0, <1>10
  DEF Local, Located, Claims, LastPut, ObjectStates, CountsHold, UsedNotFreed,
         InUse, Referring, DecMapUnmapsEffect
<1>11. ASSUME NEW t \in Threads, MobjPutEffect(t) PROVE UsedNotFreed'
  BY <1>0, <1>11
  DEF Local, Located, Claims, LastPut, ObjectStates, CountsHold, UsedNotFreed,
         InUse, Referring, MobjPutEffect
<1>12. ASSUME NEW t \in Threads, FreeGuardedEffect(t) PROVE UsedNotFreed'
  BY <1>0, <1>12
  DEF Local, Located, Claims, LastPut, ObjectStates, CountsHold, UsedNotFreed,
         InUse, Referring, FreeGuardedEffect
<1>13. ASSUME NEW t \in Threads, FreeReleasedEffect(t) PROVE UsedNotFreed'
  BY <1>0, <1>13
  DEF Local, Located, Claims, LastPut, ObjectStates, CountsHold, UsedNotFreed,
         InUse, Referring, FreeReleasedEffect
<1>14. ASSUME NEW t \in Threads, TellWaitersEffect(t) PROVE UsedNotFreed'
  BY <1>0, <1>14
  DEF Local, Located, Claims, LastPut, ObjectStates, CountsHold, UsedNotFreed,
         InUse, Referring, TellWaitersEffect
<1>15. ASSUME NEW t \in Threads, ReleaseFreesEffect(t) PROVE UsedNotFreed'
  BY <1>0, <1>15
  DEF Local, Located, Claims, LastPut, ObjectStates, CountsHold, UsedNotFreed,
         InUse, Referring, ReleaseFreesEffect
<1>16. ASSUME NEW t \in Threads, ReleaseWaitsEffect(t) PROVE UsedNotFreed'
  BY <1>0, <1>16
  DEF Local, Located, Claims, LastPut, ObjectStates, CountsHold, UsedNotFreed,
         InUse, Referring, ReleaseWaitsEffect
<1>17. CASE Stays
  BY <1>17 DEF Local, Stays, Located, Claims, LastPut, ObjectStates,
     CountsHold, UsedNotFreed,
         InUse, Referring
<1>18. ASSUME NEW t \in Threads, LeavesEffect(t) PROVE UsedNotFreed'
  BY <1>0, <1>18
  DEF Local, Located, Claims, LastPut, ObjectStates, CountsHold, UsedNotFreed,
         InUse, Referring, LeavesEffect
<1> QED
  BY <1>1, <1>2, <1>3, <1>4, <1>5, <1>6, <1>7, <1>8, <1>9, <1>10, <1>11, <1>12,
     <1>13, <1>14, <1>15, <1>16, <1>17, <1>18
  DEF Effect, ThreadEffect

-----------------------------------------------------------------------------
(***************************************************************************)
(* The references to one object, counted, and what a step may do to them.  *)
(***************************************************************************)
Exact(o) ==
  shm[o].refc = Cardinality(Refs(o)) + (IF Registered(o) THEN 1 ELSE 0)
                  + (IF o \in left THEN 1 ELSE 0)

SameCount(p) ==
  /\ Refs(p)' = Refs(p)
  /\ SameRefc(p)
  /\ Registered(p)' <=> Registered(p)
  /\ p \in left' <=> p \in left

(***************************************************************************)
(* RefCountExact, one object at a time.                                    *)
(***************************************************************************)
LEMMA ExactCounts == RefCountExact <=> \A o \in Objs : Exact(o)
BY DEF RefCountExact, Exact, Refs, Registered

(***************************************************************************)
(* An object that a step does not touch stays counted.                     *)
(***************************************************************************)
LEMMA SameCountExact ==
  ASSUME NEW o, Exact(o), SameCount(o)
  PROVE  Exact(o)'
BY DEF Exact, SameCount, SameRefc

(***************************************************************************)
(* A thread that takes a reference is counted, once, and so is one that    *)
(* drops it.                                                               *)
(***************************************************************************)
LEMMA CountUp ==
  ASSUME NEW o \in Objs, NEW t \in Threads, t \notin Refs(o)
  PROVE  /\ Cardinality(Refs(o)) \in Nat
         /\ Cardinality(Refs(o) \cup {t}) = Cardinality(Refs(o)) + 1
<1>1. Refs(o) \in SUBSET Threads BY DEF Refs
<1> QED BY <1>1, ThreadCount

LEMMA CountDown ==
  ASSUME NEW o \in Objs, NEW t \in Refs(o)
  PROVE  /\ Cardinality(Refs(o)) \in Nat
         /\ Cardinality(Refs(o) \ {t}) = Cardinality(Refs(o)) - 1
<1>1. Refs(o) \in SUBSET Threads BY DEF Refs
<1> QED BY <1>1, ThreadCount

(***************************************************************************)
(* Every step keeps every count exact.                                     *)
(***************************************************************************)
LEMMA NextRefCount ==
  Local /\ CountsHold /\ RefCountExact /\ Effect => RefCountExact'
<1> SUFFICES ASSUME Local, CountsHold, RefCountExact, Effect
             PROVE  \A p \in Objs : Exact(p)'
  BY DEF RefCountExact, Exact, Refs, Registered
<1>a. \A p \in Objs : Exact(p) BY ExactCounts
<1>0. None \notin Objs BY RegShmAssumption DEF Objs
<1> USE DEF SameSt, SameRefc, SameMapcount, SameMm, SameGuarded, SameReleasing,
        SameReleaseFrees, SameMap, SameFlags, SameButAt, OthersStay, Moves,
        SameWaiters, SameJobs, Turns
<1>1. ASSUME NEW t \in Threads,
             NEW o \in Objs, NEW l \in {"unguard", "held"}, NEW j \in Jobs,
             AllocEffect(t, o, l, j)
      PROVE  \A p \in Objs : Exact(p)'
  <2>1. \A p \in Objs : p # o => SameCount(p)
    BY <1>0, <1>1
    DEF SameCount, Refs, Registered, Referring, Local, Located, AllocEffect
  <2>2. Refs(o)' = Refs(o) \cup {t} /\ t \notin Refs(o)
    BY <1>0, <1>1 DEF Refs, Referring, Local, Located, AllocEffect
  <2>3. Exact(o)'
    BY <1>1, <1>a, <2>2, CountUp
    DEF Exact, Registered, Local, ObjectStates, AllocEffect
  <2> QED BY <2>1, <2>3, <1>a, SameCountExact
<1>2. ASSUME NEW t \in Threads, NEW o \in Objs, GetByCookieEffect(t, o)
      PROVE  \A p \in Objs : Exact(p)'
  <2>1. \A p \in Objs : SameCount(p)
    BY <1>2 DEF SameCount, Refs, Registered, Referring, GetByCookieEffect
  <2> QED BY <2>1, <1>a, SameCountExact
<1>3. ASSUME NEW t \in Threads, NEW o \in Objs, ReleaseByCookieEffect(t, o)
      PROVE  \A p \in Objs : Exact(p)'
  <2>1. \A p \in Objs : p # o => SameCount(p)
    BY <1>0, <1>3
    DEF SameCount, Refs, Registered, Referring, Local, Located,
        ReleaseByCookieEffect
  <2>2. Refs(o)' = Refs(o) \cup {t} /\ t \notin Refs(o)
    BY <1>0, <1>3 DEF Refs, Referring, Local, Located, ReleaseByCookieEffect
  <2>3. Exact(o)'
    BY <1>3, <1>a, <2>2, CountUp
    DEF Exact, Registered, ReleaseByCookieEffect
  <2> QED BY <2>1, <2>3, <1>a, SameCountExact
<1>4. ASSUME NEW t \in Threads, UnguardEffect(t)
      PROVE  \A p \in Objs : Exact(p)'
  <2>0. PICK o \in Objs : o = r[t] BY <1>4 DEF UnguardEffect
  <2>1. \A p \in Objs : p # o => SameCount(p)
    BY <1>0, <1>4, <2>0
    DEF SameCount, Refs, Registered, Referring, Local, Located, UnguardEffect
  <2>2. Refs(o)' = Refs(o) \ {t} /\ t \in Refs(o)
    BY <1>0, <1>4, <2>0 DEF Refs, Referring, Local, Located, UnguardEffect
  <2>3. Exact(o)'
    BY <1>4, <2>0, <1>a, <2>2, CountDown
    DEF Exact, Registered, Local, ObjectStates, Guarding, UsedNotFreed, InUse,
        Referring, UnguardEffect
  <2> QED BY <2>1, <2>3, <1>a, SameCountExact
<1>5. ASSUME NEW t \in Threads, MobjGetEffect(t)
      PROVE  \A p \in Objs : Exact(p)'
  <2>0. PICK o \in Objs : o = r[t] BY <1>5 DEF MobjGetEffect
  <2>1. \A p \in Objs : p # o => SameCount(p)
    BY <1>0, <1>5, <2>0
    DEF SameCount, Refs, Registered, Referring, Local, Located, MobjGetEffect
  <2>2. Refs(o)' = Refs(o) \cup {t} /\ t \notin Refs(o)
    BY <1>0, <1>5, <2>0 DEF Refs, Referring, Local, Located, MobjGetEffect
  <2>3. Exact(o)'
    BY <1>5, <2>0, <1>a, <2>2, CountUp
    DEF Exact, Registered, MobjGetEffect
  <2> QED BY <2>1, <2>3, <1>a, SameCountExact
<1>6. ASSUME NEW t \in Threads, IncMapEffect(t)
      PROVE  \A p \in Objs : Exact(p)'
  <2>1. \A p \in Objs : SameCount(p)
    BY <1>6 DEF SameCount, Refs, Registered, Referring, IncMapEffect
  <2> QED BY <2>1, <1>a, SameCountExact
<1>7. ASSUME NEW t \in Threads, FindsMappedEffect(t)
      PROVE  \A p \in Objs : Exact(p)'
  <2>1. \A p \in Objs : SameCount(p)
    BY <1>7 DEF SameCount, Refs, Registered, Referring, FindsMappedEffect
  <2> QED BY <2>1, <1>a, SameCountExact
<1>8. ASSUME NEW t \in Threads, IncMapMapsEffect(t)
      PROVE  \A p \in Objs : Exact(p)'
  <2>1. \A p \in Objs : SameCount(p)
    BY <1>8 DEF SameCount, Refs, Registered, Referring, IncMapMapsEffect
  <2> QED BY <2>1, <1>a, SameCountExact
<1>9. ASSUME NEW t \in Threads, DecMapEffect(t)
      PROVE  \A p \in Objs : Exact(p)'
  <2>1. \A p \in Objs : SameCount(p)
    BY <1>9 DEF SameCount, Refs, Registered, Referring, DecMapEffect
  <2> QED BY <2>1, <1>a, SameCountExact
<1>10. ASSUME NEW t \in Threads, DecMapUnmapsEffect(t)
      PROVE  \A p \in Objs : Exact(p)'
  <2>1. \A p \in Objs : SameCount(p)
    BY <1>10 DEF SameCount, Refs, Registered, Referring, DecMapUnmapsEffect
  <2> QED BY <2>1, <1>a, SameCountExact
<1>11. ASSUME NEW t \in Threads, MobjPutEffect(t)
      PROVE  \A p \in Objs : Exact(p)'
  <2>0. PICK o \in Objs : o = r[t] BY <1>11 DEF MobjPutEffect
  <2>1. \A p \in Objs : p # o => SameCount(p)
    BY <1>0, <1>11, <2>0
    DEF SameCount, Refs, Registered, Referring, Local, Located, MobjPutEffect
  <2>2. Refs(o)' = Refs(o) \ {t} /\ t \in Refs(o)
    BY <1>0, <1>11, <2>0 DEF Refs, Referring, Local, Located, MobjPutEffect
  <2>3. /\ Registered(o)' <=> Registered(o)
        /\ o \in left' <=> o \in left
        /\ shm'[o].refc = shm[o].refc - 1
    BY <1>11, <2>0 DEF Registered, MobjPutEffect
  <2>4. Exact(o)' BY <1>a, <2>2, <2>3, CountDown DEF Exact
  <2> QED BY <2>1, <2>4, <1>a, SameCountExact
<1>12. ASSUME NEW t \in Threads, FreeGuardedEffect(t)
      PROVE  \A p \in Objs : Exact(p)'
  <2>1. \A p \in Objs : SameCount(p)
    BY <1>12 DEF SameCount, Refs, Registered, Referring, FreeGuardedEffect
  <2> QED BY <2>1, <1>a, SameCountExact
<1>13. ASSUME NEW t \in Threads, FreeReleasedEffect(t)
      PROVE  \A p \in Objs : Exact(p)'
  <2>1. \A p \in Objs : SameCount(p)
    BY <1>13 DEF SameCount, Refs, Registered, Referring, FreeReleasedEffect
  <2> QED BY <2>1, <1>a, SameCountExact
<1>14. ASSUME NEW t \in Threads, TellWaitersEffect(t)
      PROVE  \A p \in Objs : Exact(p)'
  <2>1. \A p \in Objs : SameCount(p)
    BY <1>14 DEF SameCount, Refs, Registered, Referring, TellWaitersEffect
  <2> QED BY <2>1, <1>a, SameCountExact
<1>15. ASSUME NEW t \in Threads, ReleaseFreesEffect(t)
      PROVE  \A p \in Objs : Exact(p)'
  <2>1. \A p \in Objs : SameCount(p)
    BY <1>15 DEF SameCount, Refs, Registered, Referring, Local, Claims,
       ReleaseFreesEffect
  <2> QED BY <2>1, <1>a, SameCountExact
<1>16. ASSUME NEW t \in Threads, ReleaseWaitsEffect(t)
      PROVE  \A p \in Objs : Exact(p)'
  <2>1. \A p \in Objs : SameCount(p)
    BY <1>16 DEF SameCount, Refs, Registered, Referring, ReleaseWaitsEffect
  <2> QED BY <2>1, <1>a, SameCountExact
<1>17. CASE Stays
  <2>1. \A p \in Objs : SameCount(p)
    BY <1>17 DEF Stays, SameCount, Refs, Registered
  <2> QED BY <2>1, <1>a, SameCountExact
<1>18. ASSUME NEW t \in Threads, LeavesEffect(t)
      PROVE  \A p \in Objs : Exact(p)'
  <2>0. PICK o \in Objs : o = r[t] BY <1>18 DEF LeavesEffect
  <2>1. \A p \in Objs : p # o => SameCount(p)
    BY <1>0, <1>18, <2>0
    DEF SameCount, Refs, Registered, Referring, Local, Located, LeavesEffect
  <2>2. Refs(o)' = Refs(o) \ {t} /\ t \in Refs(o)
    BY <1>0, <1>18, <2>0 DEF Refs, Referring, Local, Located, LeavesEffect
  <2>3. Exact(o)'
    BY <1>18, <2>0, <1>a, <2>2, CountDown
    DEF Exact, Registered, Local, Leaving, LeavesEffect
  <2> QED BY <2>1, <2>3, <1>a, SameCountExact
<1> QED
  BY <1>1, <1>2, <1>3, <1>4, <1>5, <1>6, <1>7, <1>8, <1>9, <1>10, <1>11, <1>12,
     <1>13, <1>14, <1>15, <1>16, <1>17, <1>18
  DEF Effect, ThreadEffect

(***************************************************************************)
(* The waiters that shm_release_waiters counts: a turn of the loop adds the *)
(* thread when it enters and takes it off when it returns.                 *)
(***************************************************************************)
LEMMA NextWaiters ==
  Local /\ CountsHold /\ WaitersCounted /\ Effect => WaitersCounted'
<1> SUFFICES ASSUME Local, CountsHold, WaitersCounted, Effect
             PROVE  WaitersCounted'
  OBVIOUS
<1>a. ASSUME Waiting' = Waiting, SameWaiters PROVE WaitersCounted'
  BY <1>a DEF WaitersCounted, SameWaiters
<1>b. Waiting \in SUBSET Threads /\ shm_release_waiters = Cardinality(Waiting)
  BY DEF Waiting, WaitersCounted
<1> USE DEF SameSt, SameRefc, SameMapcount, SameMm, SameGuarded, SameReleasing,
        SameReleaseFrees, SameMap, SameFlags, SameButAt, OthersStay, Moves,
        SameWaiters, SameJobs, Turns
<1>1. ASSUME NEW t \in Threads,
             NEW o \in Objs, NEW l \in {"unguard", "held"}, NEW j \in Jobs,
             AllocEffect(t, o, l, j)
      PROVE  WaitersCounted'
  <2>1. Waiting' = Waiting BY <1>1 DEF Waiting, AllocEffect
  <2> QED BY <1>1, <2>1, <1>a DEF AllocEffect
<1>2. ASSUME NEW t \in Threads, NEW o \in Objs, GetByCookieEffect(t, o)
      PROVE  WaitersCounted'
  <2>1. Waiting' = Waiting BY <1>2 DEF Waiting, GetByCookieEffect
  <2> QED BY <1>2, <2>1, <1>a DEF GetByCookieEffect
<1>3. ASSUME NEW t \in Threads, NEW o \in Objs, ReleaseByCookieEffect(t, o)
      PROVE  WaitersCounted'
  <2>1. Waiting' = Waiting BY <1>3 DEF Waiting, ReleaseByCookieEffect
  <2> QED BY <1>3, <2>1, <1>a DEF ReleaseByCookieEffect
<1>4. ASSUME NEW t \in Threads, UnguardEffect(t) PROVE WaitersCounted'
  <2>1. Waiting' = Waiting BY <1>4 DEF Waiting, UnguardEffect
  <2> QED BY <1>4, <2>1, <1>a DEF UnguardEffect
<1>5. ASSUME NEW t \in Threads, MobjGetEffect(t) PROVE WaitersCounted'
  <2>1. Waiting' = Waiting BY <1>5 DEF Waiting, MobjGetEffect
  <2> QED BY <1>5, <2>1, <1>a DEF MobjGetEffect
<1>6. ASSUME NEW t \in Threads, IncMapEffect(t) PROVE WaitersCounted'
  <2>1. Waiting' = Waiting BY <1>6 DEF Waiting, IncMapEffect
  <2> QED BY <1>6, <2>1, <1>a DEF IncMapEffect
<1>7. ASSUME NEW t \in Threads, FindsMappedEffect(t) PROVE WaitersCounted'
  <2>1. Waiting' = Waiting BY <1>7 DEF Waiting, FindsMappedEffect
  <2> QED BY <1>7, <2>1, <1>a DEF FindsMappedEffect
<1>8. ASSUME NEW t \in Threads, IncMapMapsEffect(t) PROVE WaitersCounted'
  <2>1. Waiting' = Waiting BY <1>8 DEF Waiting, IncMapMapsEffect
  <2> QED BY <1>8, <2>1, <1>a DEF IncMapMapsEffect
<1>9. ASSUME NEW t \in Threads, DecMapEffect(t) PROVE WaitersCounted'
  <2>1. Waiting' = Waiting BY <1>9 DEF Waiting, DecMapEffect
  <2> QED BY <1>9, <2>1, <1>a DEF DecMapEffect
<1>10. ASSUME NEW t \in Threads, DecMapUnmapsEffect(t) PROVE WaitersCounted'
  <2>1. Waiting' = Waiting BY <1>10 DEF Waiting, DecMapUnmapsEffect
  <2> QED BY <1>10, <2>1, <1>a DEF DecMapUnmapsEffect
<1>11. ASSUME NEW t \in Threads, MobjPutEffect(t) PROVE WaitersCounted'
  <2>1. Waiting' = Waiting BY <1>11 DEF Waiting, MobjPutEffect
  <2> QED BY <1>11, <2>1, <1>a DEF MobjPutEffect
<1>12. ASSUME NEW t \in Threads, FreeGuardedEffect(t) PROVE WaitersCounted'
  <2>1. Waiting' = Waiting BY <1>12 DEF Waiting, FreeGuardedEffect
  <2> QED BY <1>12, <2>1, <1>a DEF FreeGuardedEffect
<1>13. ASSUME NEW t \in Threads, FreeReleasedEffect(t) PROVE WaitersCounted'
  <2>1. Waiting' = Waiting BY <1>13 DEF Waiting, FreeReleasedEffect
  <2> QED BY <1>13, <2>1, <1>a DEF FreeReleasedEffect
<1>14. ASSUME NEW t \in Threads, TellWaitersEffect(t) PROVE WaitersCounted'
  <2>1. Waiting' = Waiting BY <1>14 DEF Waiting, TellWaitersEffect
  <2> QED BY <1>14, <2>1, <1>a DEF TellWaitersEffect
<1>15. ASSUME NEW t \in Threads, ReleaseFreesEffect(t) PROVE WaitersCounted'
  <2>1. CASE pc[t] = "check"
    <3>1. Waiting' = Waiting \ {t} /\ t \in Waiting
      BY <1>15, <2>1 DEF Waiting, ReleaseFreesEffect
    <3>2. Cardinality(Waiting \ {t}) = Cardinality(Waiting) - 1
      BY <1>b, <3>1, ThreadCount
    <3> QED BY <1>15, <2>1, <1>b, <3>1, <3>2 DEF WaitersCounted,
        ReleaseFreesEffect
  <2>2. CASE pc[t] = "enter"
    <3>1. Waiting' = Waiting BY <1>15, <2>2 DEF Waiting, ReleaseFreesEffect
    <3> QED BY <1>15, <2>2, <3>1, <1>a DEF ReleaseFreesEffect
  <2> QED BY <1>15, <2>1, <2>2 DEF ReleaseFreesEffect
<1>16. ASSUME NEW t \in Threads, ReleaseWaitsEffect(t) PROVE WaitersCounted'
  <2>1. CASE pc[t] = "check"
    <3>1. Waiting' = Waiting BY <1>16, <2>1 DEF Waiting, ReleaseWaitsEffect
    <3> QED BY <1>16, <2>1, <3>1, <1>a DEF ReleaseWaitsEffect
  <2>2. CASE pc[t] = "enter"
    <3>1. Waiting' = Waiting \cup {t} /\ t \notin Waiting
      BY <1>16, <2>2 DEF Waiting, ReleaseWaitsEffect
    <3>2. Cardinality(Waiting \cup {t}) = Cardinality(Waiting) + 1
      BY <1>b, <3>1, ThreadCount
    <3> QED BY <1>16, <2>2, <1>b, <3>1, <3>2 DEF WaitersCounted,
        ReleaseWaitsEffect
  <2> QED BY <1>16, <2>1, <2>2 DEF ReleaseWaitsEffect
<1>17. CASE Stays
  BY <1>17 DEF Stays, Waiting, WaitersCounted
<1>18. ASSUME NEW t \in Threads, LeavesEffect(t) PROVE WaitersCounted'
  <2>1. Waiting' = Waiting BY <1>18 DEF Waiting, LeavesEffect
  <2> QED BY <1>18, <2>1, <1>a DEF LeavesEffect
<1> QED
  BY <1>1, <1>2, <1>3, <1>4, <1>5, <1>6, <1>7, <1>8, <1>9, <1>10, <1>11, <1>12,
     <1>13, <1>14, <1>15, <1>16, <1>17, <1>18
  DEF Effect, ThreadEffect

(***************************************************************************)
(* The put that allows the release is still to tell: this and the count of *)
(* the waiters are ReleaseNotMissed.                                       *)
(***************************************************************************)
TellPending ==
  \A t \in Threads :
    pc[t] = "wait" /\ shm[r[t]].release_frees =>
      \E u \in Threads : pc[u] = "tell"

(***************************************************************************)
(* Whoever lets a waiting release go on has yet to tell it.                *)
(***************************************************************************)
LEMMA NextTellPending ==
  Local /\ CountsHold /\ TellPending /\ Effect => TellPending'
<1> SUFFICES ASSUME Local, CountsHold, TellPending, Effect
             PROVE  TellPending'
  OBVIOUS
<1> USE DEF SameSt, SameRefc, SameMapcount, SameMm, SameGuarded, SameReleasing,
        SameReleaseFrees, SameMap, SameFlags, SameButAt, OthersStay, Moves,
        SameWaiters, SameJobs, Turns
<1>1. ASSUME NEW t \in Threads,
             NEW o \in Objs, NEW l \in {"unguard", "held"}, NEW j \in Jobs,
             AllocEffect(t, o, l, j)
      PROVE  TellPending'
  BY <1>1 DEF Local, Located, TellPending, AllocEffect
<1>2. ASSUME NEW t \in Threads, NEW o \in Objs, GetByCookieEffect(t, o)
      PROVE  TellPending'
  BY <1>2 DEF Local, Located, TellPending, GetByCookieEffect
<1>3. ASSUME NEW t \in Threads, NEW o \in Objs, ReleaseByCookieEffect(t, o)
      PROVE  TellPending'
  BY <1>3 DEF Local, Located, TellPending, ReleaseByCookieEffect
<1>4. ASSUME NEW t \in Threads, UnguardEffect(t) PROVE TellPending'
  BY <1>4 DEF Local, Located, TellPending, UnguardEffect
<1>5. ASSUME NEW t \in Threads, MobjGetEffect(t) PROVE TellPending'
  BY <1>5 DEF Local, Located, TellPending, MobjGetEffect
<1>6. ASSUME NEW t \in Threads, IncMapEffect(t) PROVE TellPending'
  BY <1>6 DEF Local, Located, TellPending, IncMapEffect
<1>7. ASSUME NEW t \in Threads, FindsMappedEffect(t) PROVE TellPending'
  BY <1>7 DEF Local, Located, TellPending, FindsMappedEffect
<1>8. ASSUME NEW t \in Threads, IncMapMapsEffect(t) PROVE TellPending'
  BY <1>8 DEF Local, Located, TellPending, IncMapMapsEffect
<1>9. ASSUME NEW t \in Threads, DecMapEffect(t) PROVE TellPending'
  BY <1>9 DEF Local, Located, TellPending, DecMapEffect
<1>10. ASSUME NEW t \in Threads, DecMapUnmapsEffect(t) PROVE TellPending'
  BY <1>10 DEF Local, Located, TellPending, DecMapUnmapsEffect
<1>11. ASSUME NEW t \in Threads, MobjPutEffect(t) PROVE TellPending'
  BY <1>11 DEF Local, Located, TellPending, MobjPutEffect
<1>12. ASSUME NEW t \in Threads, FreeGuardedEffect(t) PROVE TellPending'
  BY <1>12 DEF Local, Located, TellPending, FreeGuardedEffect
<1>13. ASSUME NEW t \in Threads, FreeReleasedEffect(t) PROVE TellPending'
  BY <1>13 DEF Local, Located, TellPending, FreeReleasedEffect
<1>14. ASSUME NEW t \in Threads, TellWaitersEffect(t) PROVE TellPending'
  BY <1>14 DEF Local, Located, TellPending, TellWaitersEffect
<1>15. ASSUME NEW t \in Threads, ReleaseFreesEffect(t) PROVE TellPending'
  BY <1>15 DEF Local, Located, TellPending, ReleaseFreesEffect
<1>16. ASSUME NEW t \in Threads, ReleaseWaitsEffect(t) PROVE TellPending'
  BY <1>16 DEF Local, Located, TellPending, ReleaseWaitsEffect
<1>17. CASE Stays
  BY <1>17 DEF Stays, TellPending
<1>18. ASSUME NEW t \in Threads, LeavesEffect(t) PROVE TellPending'
  BY <1>18 DEF Local, Located, TellPending, LeavesEffect
<1> QED
  BY <1>1, <1>2, <1>3, <1>4, <1>5, <1>6, <1>7, <1>8, <1>9, <1>10, <1>11, <1>12,
     <1>13, <1>14, <1>15, <1>16, <1>17, <1>18
  DEF Effect, ThreadEffect

-----------------------------------------------------------------------------
(***************************************************************************)
(* Mapping.  Only the threads in mappers map, and not while they release.  *)
(* If there is one such thread, an object is mapped exactly while it is    *)
(* counted as mapped, but for the moment before that thread unmaps it.  An *)
(* RPC buffer that somebody else refers to stays mapped after its put.     *)
(***************************************************************************)
Mapping ==
  \A t \in Threads : pc[t] \in {"inc", "mapped", "dec"} => t \in mappers

SoleAt(m) ==
  \A o \in Objs :
    /\ pc[m] = "mapped" /\ r[m] = o => shm[o].mapcount # 0
    /\ IF pc[m] = "dec" /\ r[m] = o
         THEN shm[o].mapcount = 0 /\ shm[o].mm
         ELSE shm[o].st = "listed" => (shm[o].mm <=> shm[o].mapcount # 0)

SoleMapper == \A m \in Threads : mappers = {m} => SoleAt(m)

(***************************************************************************)
(* A mapping that is not counted is about to be undone.                    *)
(***************************************************************************)
LEMMA NextMappingNotLeaked ==
  Local /\ CountsHold /\ MappingNotLeaked /\ Effect => MappingNotLeaked'
<1> SUFFICES ASSUME Local, CountsHold, MappingNotLeaked, Effect
             PROVE  MappingNotLeaked'
  OBVIOUS
<1> USE DEF SameSt, SameRefc, SameMapcount, SameMm, SameGuarded, SameReleasing,
        SameReleaseFrees, SameMap, SameFlags, SameButAt, OthersStay, Moves,
        SameWaiters, SameJobs, Turns
<1>1. ASSUME NEW t \in Threads,
             NEW o \in Objs, NEW l \in {"unguard", "held"}, NEW j \in Jobs,
             AllocEffect(t, o, l, j)
      PROVE  MappingNotLeaked'
  BY <1>1 DEF Local, Located, ObjectStates, MappingNotLeaked, AllocEffect
<1>2. ASSUME NEW t \in Threads, NEW o \in Objs, GetByCookieEffect(t, o)
      PROVE  MappingNotLeaked'
  BY <1>2 DEF Local, Located, ObjectStates, MappingNotLeaked, GetByCookieEffect
<1>3. ASSUME NEW t \in Threads, NEW o \in Objs, ReleaseByCookieEffect(t, o)
      PROVE  MappingNotLeaked'
  BY <1>3 DEF Local, Located, ObjectStates, MappingNotLeaked,
     ReleaseByCookieEffect
<1>4. ASSUME NEW t \in Threads, UnguardEffect(t) PROVE MappingNotLeaked'
  BY <1>4 DEF Local, Located, ObjectStates, MappingNotLeaked, UnguardEffect
<1>5. ASSUME NEW t \in Threads, MobjGetEffect(t) PROVE MappingNotLeaked'
  BY <1>5 DEF Local, Located, ObjectStates, MappingNotLeaked, MobjGetEffect
<1>6. ASSUME NEW t \in Threads, IncMapEffect(t) PROVE MappingNotLeaked'
  BY <1>6 DEF Local, Located, ObjectStates, MappingNotLeaked, IncMapEffect
<1>7. ASSUME NEW t \in Threads, FindsMappedEffect(t) PROVE MappingNotLeaked'
  BY <1>7 DEF Local, Located, ObjectStates, MappingNotLeaked, FindsMappedEffect
<1>8. ASSUME NEW t \in Threads, IncMapMapsEffect(t) PROVE MappingNotLeaked'
  BY <1>8 DEF Local, Located, ObjectStates, MappingNotLeaked, IncMapMapsEffect
<1>9. ASSUME NEW t \in Threads, DecMapEffect(t) PROVE MappingNotLeaked'
  BY <1>9 DEF Local, Located, ObjectStates, MappingNotLeaked, DecMapEffect
<1>10. ASSUME NEW t \in Threads, DecMapUnmapsEffect(t) PROVE MappingNotLeaked'
  BY <1>10 DEF Local, Located, ObjectStates, MappingNotLeaked,
     DecMapUnmapsEffect
<1>11. ASSUME NEW t \in Threads, MobjPutEffect(t) PROVE MappingNotLeaked'
  BY <1>11 DEF Local, Located, ObjectStates, MappingNotLeaked, MobjPutEffect
<1>12. ASSUME NEW t \in Threads, FreeGuardedEffect(t) PROVE MappingNotLeaked'
  BY <1>12 DEF Local, Located, ObjectStates, MappingNotLeaked,
     FreeGuardedEffect
<1>13. ASSUME NEW t \in Threads, FreeReleasedEffect(t) PROVE MappingNotLeaked'
  BY <1>13 DEF Local, Located, ObjectStates, MappingNotLeaked,
     FreeReleasedEffect
<1>14. ASSUME NEW t \in Threads, TellWaitersEffect(t) PROVE MappingNotLeaked'
  BY <1>14 DEF Local, Located, ObjectStates, MappingNotLeaked,
     TellWaitersEffect
<1>15. ASSUME NEW t \in Threads, ReleaseFreesEffect(t) PROVE MappingNotLeaked'
  BY <1>15 DEF Local, Located, ObjectStates, MappingNotLeaked,
     ReleaseFreesEffect
<1>16. ASSUME NEW t \in Threads, ReleaseWaitsEffect(t) PROVE MappingNotLeaked'
  BY <1>16 DEF Local, Located, ObjectStates, MappingNotLeaked,
     ReleaseWaitsEffect
<1>17. CASE Stays
  BY <1>17 DEF Stays, MappingNotLeaked
<1>18. ASSUME NEW t \in Threads, LeavesEffect(t) PROVE MappingNotLeaked'
  BY <1>18 DEF Local, Located, ObjectStates, MappingNotLeaked, LeavesEffect
<1> QED
  BY <1>1, <1>2, <1>3, <1>4, <1>5, <1>6, <1>7, <1>8, <1>9, <1>10, <1>11, <1>12,
     <1>13, <1>14, <1>15, <1>16, <1>17, <1>18
  DEF Effect, ThreadEffect

(***************************************************************************)
(* No other thread gets into mobj_reg_shm_inc_map().                       *)
(***************************************************************************)
LEMMA NextMapping == Mapping /\ Effect => Mapping'
<1> SUFFICES ASSUME Mapping, Effect PROVE Mapping'
  OBVIOUS
<1>0. mappers' = mappers BY DEF Effect
<1> USE DEF SameSt, SameRefc, SameMapcount, SameMm, SameGuarded, SameReleasing,
        SameReleaseFrees, SameMap, SameFlags, SameButAt, OthersStay, Moves,
        SameWaiters, SameJobs, Turns
<1>1. ASSUME NEW t \in Threads,
             NEW o \in Objs, NEW l \in {"unguard", "held"}, NEW j \in Jobs,
             AllocEffect(t, o, l, j)
      PROVE  Mapping'
  BY <1>0, <1>1 DEF Mapping, AllocEffect
<1>2. ASSUME NEW t \in Threads, NEW o \in Objs, GetByCookieEffect(t, o)
      PROVE  Mapping'
  BY <1>0, <1>2 DEF Mapping, GetByCookieEffect
<1>3. ASSUME NEW t \in Threads, NEW o \in Objs, ReleaseByCookieEffect(t, o)
      PROVE  Mapping'
  BY <1>0, <1>3 DEF Mapping, ReleaseByCookieEffect
<1>4. ASSUME NEW t \in Threads, UnguardEffect(t) PROVE Mapping'
  BY <1>0, <1>4 DEF Mapping, UnguardEffect
<1>5. ASSUME NEW t \in Threads, MobjGetEffect(t) PROVE Mapping'
  BY <1>0, <1>5 DEF Mapping, MobjGetEffect
<1>6. ASSUME NEW t \in Threads, IncMapEffect(t) PROVE Mapping'
  BY <1>0, <1>6 DEF Mapping, IncMapEffect
<1>7. ASSUME NEW t \in Threads, FindsMappedEffect(t) PROVE Mapping'
  BY <1>0, <1>7 DEF Mapping, FindsMappedEffect
<1>8. ASSUME NEW t \in Threads, IncMapMapsEffect(t) PROVE Mapping'
  BY <1>0, <1>8 DEF Mapping, IncMapMapsEffect
<1>9. ASSUME NEW t \in Threads, DecMapEffect(t) PROVE Mapping'
  BY <1>0, <1>9 DEF Mapping, DecMapEffect
<1>10. ASSUME NEW t \in Threads, DecMapUnmapsEffect(t) PROVE Mapping'
  BY <1>0, <1>10 DEF Mapping, DecMapUnmapsEffect
<1>11. ASSUME NEW t \in Threads, MobjPutEffect(t) PROVE Mapping'
  BY <1>0, <1>11 DEF Mapping, MobjPutEffect
<1>12. ASSUME NEW t \in Threads, FreeGuardedEffect(t) PROVE Mapping'
  BY <1>0, <1>12 DEF Mapping, FreeGuardedEffect
<1>13. ASSUME NEW t \in Threads, FreeReleasedEffect(t) PROVE Mapping'
  BY <1>0, <1>13 DEF Mapping, FreeReleasedEffect
<1>14. ASSUME NEW t \in Threads, TellWaitersEffect(t) PROVE Mapping'
  BY <1>0, <1>14 DEF Mapping, TellWaitersEffect
<1>15. ASSUME NEW t \in Threads, ReleaseFreesEffect(t) PROVE Mapping'
  BY <1>0, <1>15 DEF Mapping, ReleaseFreesEffect
<1>16. ASSUME NEW t \in Threads, ReleaseWaitsEffect(t) PROVE Mapping'
  BY <1>0, <1>16 DEF Mapping, ReleaseWaitsEffect
<1>17. CASE Stays
  BY <1>0, <1>17 DEF Stays, Mapping
<1>18. ASSUME NEW t \in Threads, LeavesEffect(t) PROVE Mapping'
  BY <1>0, <1>18 DEF Mapping, LeavesEffect
<1> QED
  BY <1>1, <1>2, <1>3, <1>4, <1>5, <1>6, <1>7, <1>8, <1>9, <1>10, <1>11, <1>12,
     <1>13, <1>14, <1>15, <1>16, <1>17, <1>18
  DEF Effect, ThreadEffect

(***************************************************************************)
(* The count and the mapping follow the only thread that maps.             *)
(***************************************************************************)
LEMMA NextSoleMapper ==
  Local /\ CountsHold /\ Mapping /\ SoleMapper /\ Effect => SoleMapper'
<1> SUFFICES ASSUME Local, CountsHold, Mapping, Effect,
                    NEW m \in Threads, mappers = {m}, SoleAt(m)
             PROVE  SoleAt(m)'
  BY DEF SoleMapper, Effect
<1>0. \A t \in Threads : pc[t] \in {"inc", "mapped", "dec"} => t = m
  BY DEF Mapping
<1> USE DEF SameSt, SameRefc, SameMapcount, SameMm, SameGuarded, SameReleasing,
        SameReleaseFrees, SameMap, SameFlags, SameButAt, OthersStay, Moves,
        SameWaiters, SameJobs, Turns
<1>1. ASSUME NEW t \in Threads,
             NEW o \in Objs, NEW l \in {"unguard", "held"}, NEW j \in Jobs,
             AllocEffect(t, o, l, j)
      PROVE  SoleAt(m)'
  BY <1>0, <1>1
  DEF Local, Located, ObjectStates, LastPut, CountsHold, UsedNotFreed, InUse,
      Referring, SoleAt,
      AllocEffect
<1>2. ASSUME NEW t \in Threads, NEW o \in Objs, GetByCookieEffect(t, o)
      PROVE  SoleAt(m)'
  BY <1>0, <1>2
  DEF Local, Located, ObjectStates, LastPut, CountsHold, UsedNotFreed, InUse,
      Referring, SoleAt,
      GetByCookieEffect
<1>3. ASSUME NEW t \in Threads, NEW o \in Objs, ReleaseByCookieEffect(t, o)
      PROVE  SoleAt(m)'
  BY <1>0, <1>3
  DEF Local, Located, ObjectStates, LastPut, CountsHold, UsedNotFreed, InUse,
      Referring, SoleAt,
      ReleaseByCookieEffect
<1>4. ASSUME NEW t \in Threads, UnguardEffect(t) PROVE SoleAt(m)'
  BY <1>0, <1>4
  DEF Local, Located, ObjectStates, LastPut, CountsHold, UsedNotFreed, InUse,
      Referring, SoleAt,
      UnguardEffect
<1>5. ASSUME NEW t \in Threads, MobjGetEffect(t) PROVE SoleAt(m)'
  BY <1>0, <1>5
  DEF Local, Located, ObjectStates, LastPut, CountsHold, UsedNotFreed, InUse,
      Referring, SoleAt,
      MobjGetEffect
<1>6. ASSUME NEW t \in Threads, IncMapEffect(t) PROVE SoleAt(m)'
  BY <1>0, <1>6
  DEF Local, Located, ObjectStates, LastPut, CountsHold, UsedNotFreed, InUse,
      Referring, SoleAt,
      IncMapEffect
<1>7. ASSUME NEW t \in Threads, FindsMappedEffect(t) PROVE SoleAt(m)'
  BY <1>0, <1>7
  DEF Local, Located, ObjectStates, LastPut, CountsHold, UsedNotFreed, InUse,
      Referring, SoleAt,
      FindsMappedEffect
<1>8. ASSUME NEW t \in Threads, IncMapMapsEffect(t) PROVE SoleAt(m)'
  BY <1>0, <1>8
  DEF Local, Located, ObjectStates, LastPut, CountsHold, UsedNotFreed, InUse,
      Referring, SoleAt,
      IncMapMapsEffect
<1>9. ASSUME NEW t \in Threads, DecMapEffect(t) PROVE SoleAt(m)'
  BY <1>0, <1>9
  DEF Local, Located, ObjectStates, LastPut, CountsHold, UsedNotFreed, InUse,
      Referring, SoleAt,
      DecMapEffect
<1>10. ASSUME NEW t \in Threads, DecMapUnmapsEffect(t) PROVE SoleAt(m)'
  BY <1>0, <1>10
  DEF Local, Located, ObjectStates, LastPut, CountsHold, UsedNotFreed, InUse,
      Referring, SoleAt,
      DecMapUnmapsEffect
<1>11. ASSUME NEW t \in Threads, MobjPutEffect(t) PROVE SoleAt(m)'
  BY <1>0, <1>11
  DEF Local, Located, ObjectStates, LastPut, CountsHold, UsedNotFreed, InUse,
      Referring, SoleAt,
      MobjPutEffect
<1>12. ASSUME NEW t \in Threads, FreeGuardedEffect(t) PROVE SoleAt(m)'
  BY <1>0, <1>12
  DEF Local, Located, ObjectStates, LastPut, CountsHold, UsedNotFreed, InUse,
      Referring, SoleAt,
      FreeGuardedEffect
<1>13. ASSUME NEW t \in Threads, FreeReleasedEffect(t) PROVE SoleAt(m)'
  BY <1>0, <1>13
  DEF Local, Located, ObjectStates, LastPut, CountsHold, UsedNotFreed, InUse,
      Referring, SoleAt,
      FreeReleasedEffect
<1>14. ASSUME NEW t \in Threads, TellWaitersEffect(t) PROVE SoleAt(m)'
  BY <1>0, <1>14
  DEF Local, Located, ObjectStates, LastPut, CountsHold, UsedNotFreed, InUse,
      Referring, SoleAt,
      TellWaitersEffect
<1>15. ASSUME NEW t \in Threads, ReleaseFreesEffect(t) PROVE SoleAt(m)'
  BY <1>0, <1>15
  DEF Local, Located, ObjectStates, LastPut, CountsHold, UsedNotFreed, InUse,
      Referring, SoleAt,
      ReleaseFreesEffect
<1>16. ASSUME NEW t \in Threads, ReleaseWaitsEffect(t) PROVE SoleAt(m)'
  BY <1>0, <1>16
  DEF Local, Located, ObjectStates, LastPut, CountsHold, UsedNotFreed, InUse,
      Referring, SoleAt,
      ReleaseWaitsEffect
<1>17. CASE Stays
  BY <1>17 DEF Stays, SoleAt
<1>18. ASSUME NEW t \in Threads, LeavesEffect(t) PROVE SoleAt(m)'
  BY <1>0, <1>18
  DEF Local, Located, ObjectStates, LastPut, CountsHold, UsedNotFreed, InUse,
      Referring, SoleAt,
      LeavesEffect
<1> QED
  BY <1>1, <1>2, <1>3, <1>4, <1>5, <1>6, <1>7, <1>8, <1>9, <1>10, <1>11, <1>12,
     <1>13, <1>14, <1>15, <1>16, <1>17, <1>18
  DEF Effect, ThreadEffect

-----------------------------------------------------------------------------
(***************************************************************************)
(* The invariant.  TypeOK alone is not kept by a put, which could take the *)
(* count below 0: that needs RefCountExact, which in turn needs to know who *)
(* works on what.                                                          *)
(***************************************************************************)
Inv ==
  /\ Local /\ Counted /\ TellPending
  /\ MappingNotLeaked /\ Mapping /\ SoleMapper

(***************************************************************************)
(* It holds at boot,                                                       *)
(***************************************************************************)
LEMMA InitInv == Init => Inv
<1> SUFFICES ASSUME Init PROVE Inv
  OBVIOUS
<1>1. TypeOK
  <2>1. [st |-> "none", cookie |-> None, refc |-> 0, mapcount |-> 0,
         mm |-> FALSE, guarded |-> FALSE, releasing |-> FALSE,
         release_frees |-> FALSE] \in Object
    BY DEF Object
  <2>2. shm \in [Objs -> Object] BY <2>1 DEF Init
  <2> QED BY <2>2 DEF Init, TypeOK, Object, Jobs
<1>2. Local
  BY <1>1 DEF Init, Local, Located, Claims, LastPut, ObjectStates, Guarding,
              Leaving,
              UsedNotFreed, InUse, Referring
<1>3. RefCountExact
  <2>1. ASSUME NEW o \in Objs PROVE Exact(o)
    <3>1. Refs(o) = {} BY DEF Init, Refs, Referring
    <3>2. Cardinality(Refs(o)) = 0 BY <3>1, FS_EmptySet
    <3> QED BY <3>2 DEF Init, Exact, Registered
  <2> QED BY <2>1, ExactCounts
<1>4. WaitersCounted
  <2>1. Waiting = {} BY DEF Init, Waiting
  <2> QED BY <2>1, FS_EmptySet DEF Init, WaitersCounted
<1>5. TellPending /\ Mapping BY DEF Init, TellPending, Mapping
<1>6. MappingNotLeaked /\ SoleMapper
  BY DEF Init, MappingNotLeaked, SoleMapper, SoleAt
<1> QED BY <1>2, <1>3, <1>4, <1>5, <1>6 DEF Inv, Counted

(***************************************************************************)
(* and every step keeps it.                                                *)
(***************************************************************************)
LEMMA NextInv == Inv /\ [Next]_vars => Inv'
<1> SUFFICES ASSUME Inv, [Next]_vars PROVE Inv'
  OBVIOUS
<1> USE DEF Inv
<1>1. CountsHold BY CountsUsable
<1>2. Effect BY <1>1, NextEffect
<1>3. Local'
  BY <1>1, <1>2, NextTypeOK, NextLocated, NextClaims, NextLastPut,
     NextObjectStates, NextGuarding, NextLeaving, NextUsedNotFreed
  DEF Local
<1>4. Counted' BY <1>1, <1>2, NextRefCount, NextWaiters DEF Counted
<1>5. TellPending' BY <1>1, <1>2, NextTellPending
<1>6. MappingNotLeaked' BY <1>1, <1>2, NextMappingNotLeaked
<1>7. Mapping' BY <1>2, NextMapping
<1>8. SoleMapper' BY <1>1, <1>2, NextSoleMapper
<1> QED BY <1>3, <1>4, <1>5, <1>6, <1>7, <1>8

(***************************************************************************)
(* Inv holds throughout.                                                   *)
(***************************************************************************)
LEMMA Invariant == Spec => []Inv
BY InitInv, NextInv, PTL DEF Spec

(***************************************************************************)
(* Type correctness: no reference count, map count or count of waiters ever *)
(* goes below 0, whatever the threads do.                                  *)
(***************************************************************************)
THEOREM TypeCorrect == Spec => []TypeOK
<1>1. Inv => TypeOK BY DEF Inv, Local
<1> QED BY <1>1, Invariant, PTL

(***************************************************************************)
(* mobj_get() and mobj_put() keep the count of every object equal to its   *)
(* references, for any number of threads and objects.                      *)
(***************************************************************************)
THEOREM RefCountCorrect == Spec => []RefCountExact
<1>1. Inv => RefCountExact BY DEF Inv, Counted
<1> QED BY <1>1, Invariant, PTL

(***************************************************************************)
(* No object is freed, by the last put or by                               *)
(* mobj_reg_shm_release_by_cookie(), while a thread uses it, and none is   *)
(* freed twice.                                                            *)
(***************************************************************************)
THEOREM UsedStays == Spec => []UsedNotFreed
<1>1. Inv => UsedNotFreed BY DEF Inv, Local
<1> QED BY <1>1, Invariant, PTL

(***************************************************************************)
(* A release that waits is told: mobj_reg_shm_free() sees it in            *)
(* shm_release_waiters and has yet to broadcast shm_cv.                    *)
(***************************************************************************)
THEOREM ReleaseTold == Spec => []ReleaseNotMissed
<1>1. Inv => ReleaseNotMissed
  <2> SUFFICES ASSUME Inv PROVE ReleaseNotMissed
    OBVIOUS
  <2>1. CountsHold BY CountsUsable DEF Inv
  <2>2. shm_release_waiters \in Nat BY DEF Inv, Local, TypeOK
  <2> QED BY <2>1, <2>2 DEF Inv, TellPending, CountsHold, ReleaseNotMissed
<1> QED BY <1>1, Invariant, PTL

(***************************************************************************)
(* mobj_reg_shm_dec_map() leaves no mapping behind.                        *)
(***************************************************************************)
THEOREM MappingUndone == Spec => []MappingNotLeaked
<1>1. Inv => MappingNotLeaked BY DEF Inv
<1> QED BY <1>1, Invariant, PTL

(***************************************************************************)
(* A single thread that maps keeps its mapping until it undoes it, whatever *)
(* the other threads do to the same object.                                *)
(***************************************************************************)
THEOREM SoleMappingKept == Spec => []SoleMappingStays
<1>1. Inv => SoleMappingStays
  <2> SUFFICES ASSUME Inv, Cardinality(mappers) = 1, NEW t \in Threads,
                      pc[t] = "mapped"
               PROVE  shm[r[t]].mm /\ shm[r[t]].mapcount > 0
    BY DEF SoleMappingStays, MappedWhileUsed
  <2>1. mappers \in SUBSET Threads
    BY RegShmAssumption DEF Inv, Local, TypeOK
  <2>2. t \in mappers BY DEF Inv, Mapping
  <2>3. mappers = {t} BY <2>1, <2>2, ThreadCount
  <2>4. /\ r[t] \in Objs /\ shm[r[t]].mapcount \in Nat
        /\ shm[r[t]].st = "listed"
    BY DEF Inv, Local, Located, TypeOK, UsedNotFreed, InUse, Referring
  <2> QED BY <2>3, <2>4 DEF Inv, SoleMapper, SoleAt
<1> QED BY <1>1, Invariant, PTL
=============================================================================
