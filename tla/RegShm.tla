------------------------------- MODULE RegShm -------------------------------
(***************************************************************************)
(* Registered shared memory, core/arch/arm/mm/mobj_dyn_shm.c, as used by   *)
(* the standard calls in core/tee/entry_std.c: memory objects found by the *)
(* normal world's cookie, counted references, mappings that are shared,    *)
(* and a release by cookie that waits for the last reference.              *)
(*                                                                         *)
(* A step is one atomic counter operation or one critical section of a     *)
(* spin lock or of shm_mu (that a mutex makes its critical sections one    *)
(* step is what Mutex and MutexProofs establish).                          *)
(***************************************************************************)
EXTENDS Integers, FiniteSets

CONSTANTS Threads,      \* the threads that run standard calls
          MapperSets,   \* the sets of threads considered for mappers
          Cookies,      \* the names the normal world gives shared memory
          MaxObjs,      \* bound on the number of objects ever allocated
          None

ASSUME RegShmAssumption ==
  /\ IsFiniteSet(Threads)
  /\ MapperSets \subseteq SUBSET Threads
  /\ MaxObjs \in Nat
  /\ None \notin 1 .. MaxObjs

VARIABLES
  mappers,              \* the threads whose calls map memory: they enter a
                        \* pseudo TA or use RPC buffers; never changes
  shm,                  \* struct mobj_reg_shm, one per object
  shm_release_waiters,  \* the number of threads in the release loop
  pc,                   \* where each thread is
  r,                    \* the object it works on, or None
  rel,                  \* it is in mobj_reg_shm_release_by_cookie()
  job,                  \* what it has its reference for, see Jobs
  left,                 \* the objects of which a call has left its reference
  halted                \* the core has panicked, failed an assertion or used
                        \* freed memory: it takes no further step

vars ==
  <<mappers, shm, shm_release_waiters, pc, r, rel, job, left, halted>>

(***************************************************************************)
(* Objects are numbered in the order of their allocation and are not       *)
(* recycled, so that a pointer to a freed one can be told.  reg_shm_list   *)
(* is the listed ones, the newest first.                                   *)
(***************************************************************************)
Objs == 1 .. MaxObjs

(***************************************************************************)
(* A reference is that of a "call" with registered memory, a registration  *)
(* or a release, that of a temporary memory parameter, or that of a buffer *)
(* the thread got by RPC.                                                  *)
(***************************************************************************)
Jobs == {"call", "tmem", "payload"}

Init ==
  /\ mappers \in MapperSets
  /\ shm = [o \in Objs |->
              [st |-> "none", cookie |-> None, refc |-> 0, mapcount |-> 0,
               mm |-> FALSE, guarded |-> FALSE, releasing |-> FALSE,
               release_frees |-> FALSE]]
  /\ shm_release_waiters = 0
  /\ pc = [t \in Threads |-> "idle"]
  /\ r = [t \in Threads |-> None]
  /\ rel = [t \in Threads |-> FALSE]
  /\ job = [t \in Threads |-> "call"]
  /\ left = {}
  /\ halted = FALSE

(***************************************************************************)
(* reg_shm_find_unlocked(): at most one object, the newest of that name.   *)
(***************************************************************************)
Find(c) ==
  {o \in Objs : /\ shm[o].st = "listed" /\ shm[o].cookie = c
                /\ \A p \in Objs : shm[p].st = "listed" /\ shm[p].cookie = c
                                     => p <= o}

At(t, l) == ~halted /\ pc[t] = l

Goto(t, l) == pc' = [pc EXCEPT ![t] = l]

Halt ==
  /\ halted' = TRUE
  /\ UNCHANGED <<shm, shm_release_waiters, pc, r, rel, job, left>>

-----------------------------------------------------------------------------
(***************************************************************************)
(* mobj_reg_shm_alloc() is called by register_shm(), which goes on to      *)
(* mobj_reg_shm_unguard(); for a non-contiguous temporary memory parameter *)
(* of a call; and by mobj_mapped_shm_alloc() for a buffer that the thread  *)
(* allocates by RPC, maps and frees again.  The last two stay guarded.     *)
(***************************************************************************)
Alloc(t, c, l, j) ==
  \E o \in Objs :
    /\ At(t, "idle")
    /\ shm[o].st = "none"
    /\ \A p \in Objs : p < o => shm[p].st # "none"
    /\ shm' = [shm EXCEPT ![o].st = "listed", ![o].cookie = c,
                          ![o].refc = 1, ![o].guarded = TRUE]
    /\ r' = [r EXCEPT ![t] = o]
    /\ job' = [job EXCEPT ![t] = j]
    /\ Goto(t, l)
    /\ UNCHANGED <<shm_release_waiters, rel, left, halted>>

RegisterShm(t, c) == Alloc(t, c, "unguard", "call")

SetTmemParam(t, c) == Alloc(t, c, "held", "tmem")

RpcAlloc(t, c) == t \in mappers /\ Alloc(t, c, "held", "payload")

Unguard(t) ==
  /\ At(t, "unguard")
  /\ shm' = [shm EXCEPT ![r[t]].guarded = FALSE]
  /\ r' = [r EXCEPT ![t] = None]
  /\ Goto(t, "idle")
  /\ UNCHANGED <<shm_release_waiters, rel, job, left, halted>>

(***************************************************************************)
(* set_rmem_param(): mobj_reg_shm_get_by_cookie() finds the object under   *)
(* reg_shm_slist_lock and takes the reference after it has released that.  *)
(***************************************************************************)
GetByCookie(t, c) ==
  /\ At(t, "idle")
  /\ \E o \in Find(c) : r' = [r EXCEPT ![t] = o]
  /\ Goto(t, "found")
  /\ UNCHANGED <<shm, shm_release_waiters, rel, job, left, halted>>

Stale(o) == shm[o].st = "freed" \/ shm[o].refc = 0

(***************************************************************************)
(* mobj_get() panics if the count has reached 0; the object may even have  *)
(* been freed.                                                             *)
(***************************************************************************)
MobjGet(t) ==
  /\ At(t, "found")
  /\ ~Stale(r[t])
  /\ shm' = [shm EXCEPT ![r[t]].refc = @ + 1]
  /\ Goto(t, "held")
  /\ UNCHANGED <<shm_release_waiters, r, rel, job, left, halted>>

MobjGetPanics(t) ==
  /\ At(t, "found")
  /\ Stale(r[t])
  /\ Halt

-----------------------------------------------------------------------------
(***************************************************************************)
(* Mapping for the time of a pseudo TA's call.  mobj_reg_shm_inc_map():    *)
(* the count goes up if it is not 0, else reg_shm_map_lock is taken.       *)
(***************************************************************************)
IncMap(t) ==
  /\ At(t, "held")
  /\ t \in mappers
  /\ ~rel[t]
  /\ IF shm[r[t]].mapcount > 0
       THEN /\ shm' = [shm EXCEPT ![r[t]].mapcount = @ + 1]
            /\ Goto(t, "mapped")
       ELSE Goto(t, "inc") /\ UNCHANGED shm
  /\ UNCHANGED <<shm_release_waiters, r, rel, job, left, halted>>

(***************************************************************************)
(* Under the lock: another thread may have mapped the object meanwhile.    *)
(***************************************************************************)
IncMapFindsMapped(t) ==
  /\ At(t, "inc")
  /\ shm[r[t]].mapcount # 0
  /\ Goto(t, "mapped")
  /\ UNCHANGED <<shm, shm_release_waiters, r, rel, job, left, halted>>

(***************************************************************************)
(* Mutant: the failure to map is not reported.                             *)
(***************************************************************************)
MutantIncMapMaps(t) ==
  /\ At(t, "inc")
  /\ shm[r[t]].mapcount = 0
  /\ ~shm[r[t]].mm
  /\ \/ shm' = [shm EXCEPT ![r[t]].mm = TRUE, ![r[t]].mapcount = 1]
     \/ shm' = [shm EXCEPT ![r[t]].mapcount = 1]
  /\ Goto(t, "mapped")
  /\ UNCHANGED <<shm_release_waiters, r, rel, job, left, halted>>

IncMapMaps(t) ==
  /\ At(t, "inc")
  /\ shm[r[t]].mapcount = 0
  /\ ~shm[r[t]].mm
  /\ \/ /\ shm' = [shm EXCEPT ![r[t]].mm = TRUE, ![r[t]].mapcount = 1]
        /\ Goto(t, "mapped")
     \/ Goto(t, "held") /\ UNCHANGED shm    \* no room, or the pages do not map
  /\ UNCHANGED <<shm_release_waiters, r, rel, job, left, halted>>

(***************************************************************************)
(* assert(!r->mm) fails.                                                   *)
(***************************************************************************)
AssertFails(t) ==
  /\ At(t, "inc")
  /\ shm[r[t]].mapcount = 0
  /\ shm[r[t]].mm

IncMapAsserts(t) == AssertFails(t) /\ Halt

(***************************************************************************)
(* Mutant: the assertion on the counter is compiled out.                   *)
(***************************************************************************)
MutantDecMap(t) ==
  /\ At(t, "mapped") /\ job[t] # "payload"
  /\ shm' = [shm EXCEPT ![r[t]].mapcount = @ - 1]
  /\ Goto(t, IF shm[r[t]].mapcount = 1 THEN "dec" ELSE "held")
  /\ UNCHANGED <<shm_release_waiters, r, rel, job, left, halted>>

(***************************************************************************)
(* mobj_reg_shm_dec_map(): the thread whose decrement reaches 0 unmaps,    *)
(* under the lock, unless the count is no longer 0.  The mapping of an RPC *)
(* buffer goes with the object.                                            *)
(***************************************************************************)
DecMap(t) ==
  /\ At(t, "mapped") /\ job[t] # "payload"
  /\ shm[r[t]].mapcount > 0
  /\ shm' = [shm EXCEPT ![r[t]].mapcount = @ - 1]
  /\ Goto(t, IF shm[r[t]].mapcount = 1 THEN "dec" ELSE "held")
  /\ UNCHANGED <<shm_release_waiters, r, rel, job, left, halted>>

(***************************************************************************)
(* Mutant: the mapping is left in place.                                   *)
(***************************************************************************)
MutantUnmap(o) == shm[o]

Unmap(o) ==
  IF shm[o].mapcount = 0 THEN [shm[o] EXCEPT !.mm = FALSE] ELSE shm[o]

DecMapUnmaps(t) ==
  /\ At(t, "dec")
  /\ shm[r[t]].mapcount = 0 => shm[r[t]].mm
  /\ shm' = [shm EXCEPT ![r[t]] = Unmap(r[t])]
  /\ Goto(t, "held")
  /\ UNCHANGED <<shm_release_waiters, r, rel, job, left, halted>>

(***************************************************************************)
(* The decrement of a count of 0, and the unmapping of what another thread *)
(* has unmapped.                                                           *)
(***************************************************************************)
DecMapFaults(t) ==
  /\ \/ At(t, "mapped") /\ job[t] # "payload" /\ shm[r[t]].mapcount = 0
     \/ At(t, "dec") /\ shm[r[t]].mapcount = 0 /\ ~shm[r[t]].mm
  /\ Halt

-----------------------------------------------------------------------------
(***************************************************************************)
(* mobj_put(): by cleanup_shm_refs() at the end of a call, by              *)
(* thread_rpc_free() or, where it could not be mapped,                     *)
(* mobj_mapped_shm_alloc() of a buffer, or on behalf of the registration   *)
(* by a release.  A releasing thread goes on to wait.                      *)
(***************************************************************************)
Return(t) ==
  /\ Goto(t, IF rel[t] THEN "enter" ELSE "idle")
  /\ r' = IF rel[t] THEN r ELSE [r EXCEPT ![t] = None]

MobjPut(t) ==
  /\ \/ At(t, "held") /\ job[t] # "tmem"
     \/ At(t, "mapped") /\ job[t] = "payload"
  /\ shm' = [shm EXCEPT ![r[t]].refc = @ - 1]
  /\ IF shm[r[t]].refc = 1 THEN Goto(t, "free") /\ UNCHANGED r ELSE Return(t)
  /\ job' = [job EXCEPT ![t] = "call"]
  /\ UNCHANGED <<shm_release_waiters, rel, left, halted>>

(***************************************************************************)
(* cleanup_shm_refs() compares the whole attribute, in which a             *)
(* non-contiguous parameter has OPTEE_MSG_ATTR_NONCONTIG set, with the     *)
(* types: it does not put that object, and the call returns.               *)
(***************************************************************************)
CleanupLeaves(t) ==
  /\ At(t, "held") /\ job[t] = "tmem"
  /\ left' = left \cup {r[t]}
  /\ job' = [job EXCEPT ![t] = "call"]
  /\ r' = [r EXCEPT ![t] = None]
  /\ Goto(t, "idle")
  /\ UNCHANGED <<shm, shm_release_waiters, rel, halted>>

(***************************************************************************)
(* reg_shm_free_helper()                                                   *)
(***************************************************************************)
Freed(o) == [shm EXCEPT ![o].st = "freed", ![o].mm = FALSE]

(***************************************************************************)
(* mobj_reg_shm_free(): what is guarded is freed here, the rest is left to *)
(* the releasing thread, which is then told.                               *)
(***************************************************************************)
FreeGuarded(t) ==
  /\ At(t, "free")
  /\ shm[r[t]].guarded /\ ~shm[r[t]].releasing
  /\ shm' = Freed(r[t])
  /\ Return(t)
  /\ UNCHANGED <<shm_release_waiters, rel, job, left, halted>>

(***************************************************************************)
(* Mutant: an object that is not guarded is freed by the last put, too.    *)
(***************************************************************************)
MutantFreeReleased(t) ==
  /\ At(t, "free")
  /\ ~(shm[r[t]].guarded /\ ~shm[r[t]].releasing)
  /\ shm' = Freed(r[t])
  /\ Goto(t, "tell")
  /\ UNCHANGED <<shm_release_waiters, r, rel, job, left, halted>>

FreeReleased(t) ==
  /\ At(t, "free")
  /\ ~(shm[r[t]].guarded /\ ~shm[r[t]].releasing)
  /\ shm' = [shm EXCEPT ![r[t]].release_frees = TRUE]
  /\ Goto(t, "tell")
  /\ UNCHANGED <<shm_release_waiters, r, rel, job, left, halted>>

TellWaiters(t) ==
  /\ At(t, "tell")
  /\ pc' = [u \in Threads |->
              IF u = t THEN IF rel[t] THEN "enter" ELSE "idle"
              ELSE IF shm_release_waiters > 0 /\ pc[u] = "wait" THEN "check"
              ELSE pc[u]]
  /\ r' = IF rel[t] THEN r ELSE [r EXCEPT ![t] = None]
  /\ UNCHANGED <<shm, shm_release_waiters, rel, job, left, halted>>

-----------------------------------------------------------------------------
(***************************************************************************)
(* mobj_reg_shm_release_by_cookie() by unregister_shm(): the claim, under  *)
(* reg_shm_slist_lock, then the put.                                       *)
(*                                                                         *)
(* Mutant: an object can be claimed twice.                                 *)
(***************************************************************************)
MutantMayRelease(o) == ~shm[o].guarded

MayRelease(o) == ~shm[o].guarded /\ ~shm[o].releasing

ReleaseByCookie(t, c) ==
  /\ At(t, "idle")
  /\ \E o \in Find(c) :
       /\ MayRelease(o)
       /\ shm' = [shm EXCEPT ![o].releasing = TRUE]
       /\ r' = [r EXCEPT ![t] = o]
  /\ rel' = [rel EXCEPT ![t] = TRUE]
  /\ Goto(t, "held")
  /\ UNCHANGED <<shm_release_waiters, job, left, halted>>

(***************************************************************************)
(* One turn of the loop, under shm_mu: free the object or wait on shm_cv.  *)
(* The thread counts among the waiters from the first turn to the return.  *)
(***************************************************************************)
ReleaseTurn(t, n) ==
  IF shm[r[t]].release_frees
    THEN /\ shm' = Freed(r[t])
         /\ shm_release_waiters' = shm_release_waiters + n - 1
         /\ r' = [r EXCEPT ![t] = None]
         /\ rel' = [rel EXCEPT ![t] = FALSE]
         /\ Goto(t, "idle")
    ELSE /\ shm_release_waiters' = shm_release_waiters + n
         /\ Goto(t, "wait")
         /\ UNCHANGED <<shm, r, rel>>

(***************************************************************************)
(* Mutant: the thread does not count itself.                               *)
(***************************************************************************)
MutantReleaseEnters(t) ==
  /\ At(t, "enter")
  /\ ~shm[r[t]].release_frees
  /\ ReleaseTurn(t, 0)
  /\ UNCHANGED <<job, left, halted>>

ReleaseEnters(t) == At(t, "enter") /\ ReleaseTurn(t, 1) /\ UNCHANGED <<job, left, halted>>

ReleaseRechecks(t) == At(t, "check") /\ ReleaseTurn(t, 0) /\ UNCHANGED <<job, left, halted>>

-----------------------------------------------------------------------------
Start(t) ==
  \E c \in Cookies :
    \/ RegisterShm(t, c)
    \/ SetTmemParam(t, c)
    \/ RpcAlloc(t, c)
    \/ GetByCookie(t, c)
    \/ ReleaseByCookie(t, c)

Step(t) ==
  \/ Unguard(t)
  \/ MobjGet(t) \/ MobjGetPanics(t)
  \/ IncMapFindsMapped(t) \/ IncMapMaps(t) \/ IncMapAsserts(t)
  \/ DecMap(t) \/ DecMapUnmaps(t) \/ DecMapFaults(t)
  \/ MobjPut(t) \/ CleanupLeaves(t) \/ FreeGuarded(t)
  \/ FreeReleased(t) \/ TellWaiters(t)
  \/ ReleaseEnters(t) \/ ReleaseRechecks(t)

Next ==
  /\ \E t \in Threads : Start(t) \/ IncMap(t) \/ Step(t)
  /\ UNCHANGED mappers

Spec == Init /\ [][Next]_vars

-----------------------------------------------------------------------------
(***************************************************************************)
(* Properties                                                              *)
(***************************************************************************)
TypeOK ==
  /\ mappers \in MapperSets
  /\ shm \in [Objs -> [st : {"none", "listed", "freed"},
                       cookie : Cookies \cup {None},
                       refc : Nat, mapcount : Nat, mm : BOOLEAN,
                       guarded : BOOLEAN, releasing : BOOLEAN,
                       release_frees : BOOLEAN]]
  /\ shm_release_waiters \in Nat
  /\ pc \in [Threads -> {"idle", "unguard", "found", "held", "inc", "mapped",
                         "dec", "free", "tell", "enter", "wait", "check"}]
  /\ r \in [Threads -> Objs \cup {None}]
  /\ rel \in [Threads -> BOOLEAN]
  /\ job \in [Threads -> Jobs]
  /\ left \in SUBSET Objs
  /\ halted \in BOOLEAN

Referring == {"unguard", "held", "inc", "mapped", "dec"}

(***************************************************************************)
(* Every reference is counted and every count has its reference: a thread  *)
(* that has one, the registration, until a release has claimed it, or one  *)
(* that cleanup_shm_refs() has left, once.  Nobody else's put can drop a   *)
(* count somebody relies on, and nothing but a temporary memory parameter  *)
(* keeps an object that nobody uses any more.                              *)
(***************************************************************************)
RefCountExact ==
  \A o \in Objs :
    shm[o].refc =
      Cardinality({t \in Threads : r[t] = o /\ pc[t] \in Referring})
        + (IF shm[o].st = "listed" /\ ~shm[o].guarded /\ ~shm[o].releasing
             THEN 1 ELSE 0)
        + (IF o \in left THEN 1 ELSE 0)

(***************************************************************************)
(* The object that a thread has a reference to, is about to dispose of, or *)
(* waits to release is in memory: neither the last put nor a release frees *)
(* it behind that thread's back, and it is freed once.                     *)
(***************************************************************************)
InUse(t) == pc[t] \in Referring \cup {"free", "enter", "wait", "check"}

UsedNotFreed == \A t \in Threads : InUse(t) => shm[r[t]].st = "listed"

(***************************************************************************)
(* A release that waits for an object that may now be freed is about to be *)
(* told: the put that set release_frees either came before the release     *)
(* looked, or will find shm_release_waiters counting it.                   *)
(***************************************************************************)
ReleaseNotMissed ==
  \A t \in Threads :
    pc[t] = "wait" /\ shm[r[t]].release_frees =>
      /\ shm_release_waiters > 0
      /\ \E u \in Threads : pc[u] = "tell"

(***************************************************************************)
(* An object stays mapped only while it is counted as mapped, or while the *)
(* thread that is to unmap it has yet to get the lock.                     *)
(***************************************************************************)
MappingNotLeaked ==
  \A o \in Objs :
    shm[o].mm => \/ shm[o].mapcount > 0
                 \/ \E t \in Threads : r[t] = o /\ pc[t] = "dec"

(***************************************************************************)
(* From the return of mobj_inc_map() to the matching mobj_dec_map() the    *)
(* object is mapped (mobj.h: mobj_inc_map() maps it and increases the map  *)
(* count), so the pseudo TA's pointer stays good.                          *)
(***************************************************************************)
MappedWhileUsed ==
  \A t \in Threads :
    pc[t] = "mapped" => shm[r[t]].mm /\ shm[r[t]].mapcount > 0

(***************************************************************************)
(* With a single thread that maps, its mapping stays, whatever the others  *)
(* register, put and release meanwhile.                                    *)
(***************************************************************************)
SoleMappingStays == Cardinality(mappers) = 1 => MappedWhileUsed

(***************************************************************************)
(* assert(!r->mm) in mobj_reg_shm_inc_map(): a map count of 0 means that   *)
(* the object is not mapped.                                               *)
(***************************************************************************)
NotMappedTwice == \A t \in Threads : ~AssertFails(t)

(***************************************************************************)
(* The object that mobj_reg_shm_get_by_cookie() found is still there when  *)
(* it takes the reference (mobj.h: a valid pointer, or NULL).              *)
(***************************************************************************)
FoundNotStale == \A t \in Threads : pc[t] = "found" => ~Stale(r[t])
=============================================================================
