# A TLA+ model of OP-TEE OS (RZ/G fork)

This directory holds TLA+ specifications of the concurrent and the
crash-tolerant parts of the trusted OS in this repository, TLC runs that check
them on small instances, and TLAPS proofs that most of the safety properties
hold for every number of threads, objects, nodes and calls. `PROJECT.json`
lists components, runs, mutants, the map from definitions to source lines,
hazards, findings and theorems.

## 1. The system

OP-TEE OS runs in the secure world. The normal world enters it by an SMC, which
starts a *thread* of the core (one of `CFG_NUM_THREADS`). A thread serves one
*standard call* (open a session, invoke a command, close, register shared
memory ...) and has no scheduler of its own: it sleeps, is woken up, reads
storage and waits for everything else by an RPC to the normal world, which
resumes it. Hence between any two RPCs or critical sections another thread may
run, and a stop of the device may come between any two storage accesses.

| Part | Its state | Operations | Interacts with | What makes it correct |
|---|---|---|---|---|
| mutex, condvar, wait queue (`core/kernel/mutex.c`, `wait_queue.c`) | lock word, list of wait elements on the waiters' stacks | lock, try-lock, unlock, read variants, wait, signal, broadcast | sleeps and wakes by RPC; under everything below | exclusion of writers and readers, no lost wake-up, no element outlives its stack frame, calls return |
| hash tree (`core/tee/fs_htree.c`) | tree in memory; two versions of header, nodes and blocks in storage | create, open, read/write block, truncate, sync, close | storage by RPC, called by the REE file system | an update happens as a whole or not at all, whatever the last write was |
| REE file system, directory file (`tee_ree_fs.c`, `fs_dirfile.c`) | open files, the shared directory handle and its count | create, open, write, truncate, rename, remove, opendir | hash tree; the directory file keeps each file's root hash | a file and its hash change together, what failed is not committed later |
| registered shared memory (`mobj_dyn_shm.c`) | memory objects by cookie, reference and map counts | register, look up, get/put, map/unmap, release by cookie | standard calls, pseudo TAs, `mutex`/`condvar` | freed once, not while used, mapped while used, a release is told |
| TA manager (`tee_ta_manager.c`, `user_ta.c`) | sessions, contexts, busy flag, single-instance lock | open, invoke, close, load, panic | standard calls, user mode, `tee_ta_mutex` | one call per TA, exclusive sessions, exact references, no sleeper forgotten |
| standard call entry (`entry_std.c`) | none of its own | dispatch | all of the above | pairs what it gets and puts |
| threads and RPC (`thread.c`, `thread_optee_smc.c`) | thread table, RPC buffers | alloc, suspend, resume, free | normal world | a thread is resumed by its owner, once |
| persistent objects (`tee_svc_storage.c`, `tee_pobj.c`, `tee_obj.c`) | table of open objects, handles, enumerations | open, create, read, write, truncate, rename, delete, close, enumerate | file systems | sharing rules, exact references, a handle means its object |
| RPMB device access (lower half of `tee_rpmb_fs.c`) | key, write counter, `rpmb_dead` | init, read, write with retries, start-up | RPMB device by RPC | an acknowledged write stays, a failed one never shows up |
| RPMB file system (upper half of `tee_rpmb_fs.c`) | table of files (FAT), its cache | create, open, read, write, truncate, rename, remove | the blocks below | files and table apart, an update is one change |
| page table cache (`pgt_cache.c`) | free and used tables | alloc (waits), free, flush | user-mode VM | no deadlock, no table in two contexts |
| SCE crypto engine and its pseudo TAs (`plat-rz/g2l`) | one live handle id per algorithm, one engine | Init, Update, Final | pseudo TAs | an operation in progress is finished or refused |
| handle database, lockdep, refcount, pseudo TAs, pager, VM, FF-A, SPs, virtualization, loader, cryptography, user TAs, drivers, boot, libraries | | | | see `PROJECT.json` |

The hard behaviours are: threads interleaving around a lock that is given up
in the middle of an operation (`condvar_wait()`, loading a TA, running it); a
check made before such a wait and relied on after it; reference counts changed
outside the lock that protects the object; RPCs that fail or return early; and
a stop of the device between two writes. `PROJECT.json` lists them as hazards,
each at its line.

## 2. Modules

| Module | Models | Lines of code it stands for |
|---|---|---|
| `Mutex` | one mutex, its wait queue and condvars | `mutex.c`, `wait_queue.c` |
| `Monitor` | abstract: a reader/writer monitor with condition variables | promise of `mutex.c` |
| `MutexProofs` | theorems about `Mutex` | |
| `MCMutex` | instance for TLC: fairness, a bound on calls, lost wake-ups | |
| `FsHtree` | one file: its tree in memory, its storage, its caller | `fs_htree.c`, parts of `tee_ree_fs.c` |
| `FsHtreeProofs` | theorems about `FsHtree` | |
| `AtomicFile` | abstract: a file that is committed in one step | promise of `fs_htree.h` |
| `MCFsHtree` | the uses of a file that are considered | |
| `Storage` | persistent objects: system calls, table of open objects, REE file operations, directory file | `tee_svc_storage.c`, `tee_pobj.c`, `tee_obj.c`, `tee_ree_fs.c`, `fs_dirfile.c` |
| `StorageProofs` | theorems about `Storage` | |
| `ObjectStore` | abstract: objects by name, each change one step | promise of the storage API |
| `MCStorage` | instances, symmetry and view | |
| `Rpmb` | RPMB device and the protocol to reach it | `tee_rpmb_fs.c` up to `tee_rpmb_write()`, `rpmb_fs_setup()` |
| `RpmbProofs` | theorems about `Rpmb` | |
| `BlockStore` | abstract: blocks written one at a time, nothing left in doubt while in use | promise of the comments in `write_req()` and `rpmb_fs_setup()` |
| `RpmbFs` | table of files, its cache, the space, the file operations | the rest of `tee_rpmb_fs.c` |
| `RpmbFsProofs` | theorems about `RpmbFs` | |
| `FileStore` | abstract: files by name, each operation one step | promise of `tee_file_operations` |
| `MCRpmbFs` | instance, symmetry and view | |
| `RegShm` | memory objects, their counts and mappings, threads in standard calls | `mobj_dyn_shm.c`, `refcount.c`, parts of `entry_std.c`, `mobj.h` |
| `RegShmProofs` | theorems about `RegShm` | |
| `MCRegShm` | fairness and a bound on calls | |
| `TaManager` | sessions and contexts of one user TA, threads in open, invoke and close | `tee_ta_manager.c`, parts of `user_ta.c`, `entry_std.c` |
| `TaManagerProofs`, `TaCalmProofs` | theorems about `TaManager`: with panics, and without | |
| `MCTaManager`, `MCTaLive` | instances for TLC; the latter with fairness | |

The modules build on each other's promises. `RegShm`, `TaManager` and
`Storage` take a critical section of a mutex as one step, and a `condvar_wait()`
as one that misses no signal: that is what `Mutex` is shown to give. `Storage`
takes a sync of a file and a commit of the directory file as one step with two
outcomes: that is `AtomicFile`, which `FsHtree` implements. `RpmbFs` takes the
write of a block as one step that happens or does not: that is `BlockStore`,
which `Rpmb` implements.

### Mutex

A step is one critical section of `m->spin_lock` or `wq_spin_lock`, or one RPC.
`state` is `m->state`; `wq` is the list of linked elements (an element is named
by the thread whose stack it is on); `done`, `wait_read`, `cv` are the
element's fields; `woken` are the wake-ups the normal world has received and
not yet delivered. A sleep may return without a wake-up (`SleepFails`) and,
with `LossyWake`, a wake-up RPC may be lost, as `__wq_rpc()` only logs it.
`mutex_lock()` is `CallLock` and as many `LockTurn`s as it takes; `unlock` and
`condvar_wait` go on into `wq_wake_next()`, one `WakeScan` and `WakeRpc` per
woken thread. Failed try-locks change nothing and are left out, as are
recursive mutexes, destruction and the lockdep hooks.

### FsHtree

Node `b` of the tree belongs to block `b - 1`. `disk` has two versions of the
header, of each node and of each block. Hashes are the tuples hashed (no
collisions), a block's tag is the number of the write that made it. A step is
one storage RPC; `Close` may come at any time after the file is known to
somebody and stands for a close, a failed RPC (the tree is then freed) and a
stop of the device. `known` is the root hash in the directory file, committed
by `CommitHash`. `use` says whose file it is and what is done with it: a
user's file (`"user"`: opened by hash) or the directory file (`"dir"`: opened
without one, by the header's counter), whether it is also truncated, and the
bounds on nodes and writes. `GoesOn` lets the caller go on with the handle
after a failed commit or truncation, as the code allows. Lengths are
whole blocks; a partial last block (where the tree is cut at the rounded-down
and the storage at the rounded-up block) is not modelled. Siblings may be
written in either order, a superset of the code's post order: `SyncNode` asks
only that a set of clean nodes, closed under children, lies below the node
(`CleanBelow`). Before anybody can look for the file there is no `Close`
(`Referenced`). For a user's file nothing is lost by that: until its hash is in
the directory file nobody opens it. For the directory file it leaves out a stop
or a failure during its very first creation (`open_dirh()`,
`tee_ree_fs.c:548-557`; the two headers, `fs_htree.c:644-648`): the file is then
there without a complete header, and what `open_dirh()` makes of that is not
modelled.

### Storage

A step is one critical section of `pobjs_mutex` or of `ree_fs_mutex`: a file
operation is one step, with the outcomes its RPCs may have. `dents` is the
directory file as committed and `dirh` what is in memory of it (`None` when
closed), with the bit string of file numbers in use; `refs` is
`ree_fs_dirh_refcount`. A file in `files` has two versions of its contents (as
`FsHtree` shows), a handle `fh` the one its tree leads to. `pobjs` is the table
of `tee_pobj.c`; its entries are numbered in the order of the list, as
`tee_pobj_get()` takes the last one that matches. A thread is an instance of
one TA that has one object open at a time, or an enumeration and one object.
`use` is what the TA does: the flags it opens and creates with, whether it
enumerates or renames, and how the storage may fail. With `faults` every
operation may fail, the commit of a write or a removal also after it took
effect, and files may be lost (`Lose`); with `late` the commit of a create or a
rename, too, may report an error after it took effect (`CreateLate`,
`RenameFile`); with `misread` a good file may be answered short or not at all,
which the code takes for a corrupt object, so that the open or the read removes
it. That a mismatching hash is reported as `TEE_ERROR_SECURITY`, which removes
nothing, is not told apart: a lost file is always removed by the open or read
that finds it. `Stop` is a stop of the device at any time. A caller whose write
failed closes the handle (`failed`): what it could read through the handle is
the subject of `GoesOn` in `FsHtree`.

### Rpmb

`dev` is the device: its key, counter and blocks; it and the normal world
between are external. A request that fails joins `late`: it may be carried out
at any later time at which the device has its counter, also after `Restart`, or
in the place of another request for the same block (`WriteDone`). Answers to
writes carry no nonce. In a run that is `paired` each is the one to the request
just sent; in one that is not, an answer that the device gave earlier (`given`)
may be the one that comes (`WriteAnsweredBefore`), and one with another counter
or a wrong MAC is refused after `tee_rpmb_resp_unpack_verify()` has put its
counter into `wr_cnt` and perhaps counted in the context (`WriteMismatch`).
`pc` and `stage` say which access of which call is under way, `init` being
`tee_rpmb_init()`, with which every access begins. The blocks are the partition
block 0, the first table entry and others. `Call...` are the entry points,
under `rpmb_mutex`, so one at a time; writes of several blocks are requests of
one block each (`rel_wr_blkcnt` is 1, the least the device may offer).

### RpmbFs

Addresses and sizes are in blocks, and a table entry takes one. `mem` is the
partition without its first block, `cache` is `fat_entry_dir` between two
traversals. Each file operation reads what it needs and lists in `todo` the
writes that are to follow, in the code's order; `WriteBlock` makes them one by
one and `Stop` may come between any two. An access may also fail and leave the
file system running (`AccessFails`: no memory for the buffers, no answer to a
read of the counter); the operation then goes on to its cleanup, or returns.
`rpmb_fs_create()` goes through the stages `open`, `head`, `data`, `rename`, or
`fail` and `undo`; where the table cannot be expanded, because it is full or the
write of its new last entry fails, it goes through `full` and `cut`. After
`cut` the table has no end (section 4): `Cut` says so, and nothing but restarts
follows. `Allow` admits two situations in which the file system does not keep
its promise (section 4).

### RegShm

A step is one atomic counter operation or one critical section of
`reg_shm_slist_lock`, `reg_shm_map_lock` or `shm_mu`. Objects are numbered and
not recycled, so that use of a freed one is seen: it sets `halted`, as panics
and failed assertions do. `mappers` are the threads whose calls map memory,
because they enter a pseudo TA or use buffers allocated by RPC (`RpcAlloc`);
they are chosen at the start. `job` says what a thread has its reference for:
registered memory, a temporary memory parameter or an RPC buffer. `left` are
the objects of temporary memory parameters whose reference
`cleanup_shm_refs()` has left behind (`CleanupLeaves`). The build is the one
without `CFG_CORE_FFA`.

### TaManager

A step is one critical section of `tee_ta_mutex`, up to its end or to a
`condvar_wait()`, or the code between two of them; that a critical section may
be one step, and that a wait does not miss its signal, is what is shown of
`Mutex`. `sess` and `ctxs` are the structures; `sil` is the owner of the
single-instance lock; `ta` holds the TA's flags, whether the build has
`CFG_CONCURRENT_SINGLE_INSTANCE_TA`, and whether the TA may panic. `op` is the call a thread is in, and
`"abort"` an open that closes its own session. The TA is user mode, not
`TA_FLAG_CONCURRENT`, is called by the normal world only and calls no TA;
`CFG_SECURE_DATA_PATH` is off, so `check_params()` succeeds. A TA's normal
return stores the exit status over `panicked`, as `thread_unwind_user_mode()`
does. `known` is what the client knows of; it closes each session once, but its
other threads may still be invoking it.

## 3. Runs

Every property has a mutant: a plausible bug in the mapped code under which
TLC finds the property violated in the same run.

| Run | Instance | Shows |
|---|---|---|
| `mutex` | 3 threads, 1 condvar, 5 calls, lost wake-ups | type, `StateMatchesHolders`, `NoLostWakeup`, `WqeLinkedWhileWaiting`, `LockReturns`, and that `Mutex` implements `Monitor` |
| `htree` | growing: a user's file of 5 nodes, the directory file of 3, 6 writes; shrinking: both, 3 nodes, 5 writes or truncations | type, `SyncedFileOpens`, and that `FsHtree` implements `AtomicFile` |
| `htree_shrink_deep` | 4 nodes, truncations | `SyncedFileOpens` is violated |
| `storage` | 2 threads, 2 names, 3 file numbers; a TA that enumerates on storage that works; one that renames on storage that fails, on storage whose commits fail after they took effect, and on storage that gives corrupt answers for good files | `PobjRefs`, `DirhRefs`, `DirhCommitted`, `HandleIsObject`, `SharingAgreed`, `EnumDirhValid`, and that `Storage` implements `ObjectStore` |
| `storage_enum_closed` | the same, with creates that may be refused during an enumeration | `EnumDirhValid` is violated |
| `rpmb_dev` | 2 blocks, 2 values, 3 attempts, with or without a key; counter up to 9 with paired answers, up to 4 without | type, `StaleRefused`, and that `Rpmb` implements `BlockStore` |
| `rpmb_fs` | 2 names, 6 blocks, files of up to 2, cache of 2 entries | `LayoutSound`, `CacheFresh`, `CreateExact`, and that `RpmbFs` implements `FileStore` |
| `reg_shm` | 3 threads, 1 or 2 of them mapping, 2 objects of one cookie, 7 calls | type, `RefCountExact`, `UsedNotFreed`, `ReleaseNotMissed`, `MappingNotLeaked`, `SoleMappingStays`, `ReleaseReturns` |
| `reg_shm_map_race` | 2 mapping threads | `MappedWhileUsed` is violated |
| `ta` | 3 threads, 2 sessions, 2 contexts, every two flags in every combination without panics, a shared TA with | type, `OneCallInTa`, `SessionExclusive`, `ContextRefs`, `NoLostSignal`, `OneSession`, and without a panic `UnlinkWaitsUnlessPanic`, `ContextOutlivesUnlessPanic`, `SessionsExistUnlessPanic` |
| `ta_progress` | 3 threads, 2 sessions, 4 calls, no panic | `CallsReturn` |
| `ta_panic_hang` | 2 threads, panics | `UnlinkWaitsForOthers` is violated |

*Bounds.* Three threads give a holder, a waiter and a third that overtakes or
signals; two of each role for readers and writers come from the same three.
Five nodes give a tree of depth three with a node that has two children, and
six writes fill it and rewrite one block between any two syncs. Two sessions
and two contexts give a session that is shared, one that is closed while the
other opens, and a context that is loaded while another goes. Objects,
sessions and contexts are numbered up to a bound and not reused: what is
bounded is how many are ever made, and each has its whole life in the run.
In `storage` two threads are two instances of the TA; two names give a rename
and an object in its way, and three file numbers a replacement while the other
object is there. `Vers` is large enough never to run out, and `Pobjs` bounds how
many table entries are linked before the table is empty again. In
`rpmb_dev` the counter leaves room for a start-up that formats the device, a
restart with requests left over, another start-up and writes; where answers are
not paired, which only `TypeOK` is about, one start-up. In `reg_shm` two objects
are one that is released and one registered meanwhile under the same cookie. In
`rpmb_fs` the
table grows until it meets the files in six blocks, so that space runs out in
every operation that needs some, the expansion of the table included; the third and later entries are outside the
cache.

*Symmetry* among threads, or object names, is used with invariants and with
refinements whose mapping treats them alike, never with liveness. *Views* leave
out what no later step and no property depends on: in `rpmb_fs` blocks that
belong to nothing, in `storage` contents that nothing names and what contents
are, apart from whether they can be read.

*Deadlock* is checked in the RPMB runs, where the system can always go on;
elsewhere the bounds on calls, objects or writes end a behaviour, or the core
has halted.

*Fairness* is weak fairness of each thread's steps: the normal world resumes
every thread it has a wake-up or an answer for, and a thread that holds a lock
or is in a TA goes on to leave it. The number of calls is bounded because the
code does not promise more: readers that overlap for ever starve a writer
(`__mutex_read_lock()` looks only at the lock word), and lookups by cookie can
keep a releasing thread waiting. `LockReturns` promises no more once a wake-up
RPC was lost (`lost`): `wq_wake_next()` never repeats one. The storage modules
have no liveness property: each of their operations runs to its end or fails.

## 4. Disagreements between the code and what it says of itself

Kept as runs and listed under `findings`:

1. `tee_fs_htree_truncate()` frees nodes and leaves their parents clean. From
   four blocks on, a truncated file that was synced and committed without
   error does not verify when opened (`htree_shrink_deep`).
2. `mobj_reg_shm_inc_map()` does not count when another thread has just mapped
   the object, so the first `mobj_dec_map()` unmaps it for both
   (`reg_shm_map_race`).
3. `tee_ta_open_session()` that finds the TA panicked closes the session with
   its own reference still held and waits for it for ever (`ta_panic_hang`).
4. An operation of the REE file system that fails closes the shared directory
   file, which an enumeration of another instance still points to; a create of
   an object that exists is enough (`storage_enum_closed`).

### Further disagreements

The modules also state these properties; TLC refutes each in the instance
given (a configuration with these constants and the property as INVARIANT, or
PROPERTY for action properties and refinements, reproduces it in seconds to
minutes; "without" names the part of a property that
excludes the case and is to be taken out first).

| Property | Instance | What happens |
|---|---|---|
| `CommittedVerifies` | `FsHtree`, 3 nodes, `truncates` | a truncation to the present length writes a root with the hash it had into the other copy; after a stop before the header, `init_head_from_data()` takes copy 0 by its hash, with the wrong header |
| `CommittedBlocksPresent` | the same | `ree_fs_ftruncate_internal()` shortens the storage file before the commit: the committed file has lost blocks |
| `CommittedVerifies` | `FsHtree`, `GoesOn`, no truncation | after a failed `commit_dirh_writes()` the next sync overwrites the version that the directory file still names |
| `SyncedFileOpens` | `FsHtree`, `GoesOn` and `truncates` | after a failed truncate RPC the next sync writes a tree that is cut off |
| `NotMappedTwice` | `RegShm`, 2 mapping threads | a map between another's decrement to zero and its unmap fails `assert(!r->mm)` |
| `FoundNotStale` | `RegShm`, 2 threads | `mobj_reg_shm_get_by_cookie()` takes its reference after the lock is released, on an object that may be gone |
| `OneInstance` | `TaManager`, 2 contexts | two first opens of a single-instance TA each load it |
| `RefsAreCounted` | `TaManager`, panics | `assert(count == ctx->ref_count)` fails while a close is between its session and its context |
| `ContextOutlivesCalls` | `TaManager`, panics | the context of a panicked TA is freed under a thread that holds it in a local variable |
| `ToldSessionsExist` | `TaManager`, panics | an open that succeeded closes its session because another call panicked, and returns success |
| `PanicRemembered` | `TaManager`, panics | a thread that waited enters the panicked TA, and its return clears the flag |
| `NoneStale` | `Rpmb`, `Pairing = {FALSE}` | `tee_rpmb_resp_unpack_verify()` stores the counter of an answer in `write_req()`'s `wr_cnt` (line 825) and may count in the context (833) before it has checked counter and MAC; the next attempt is made with that counter, and an earlier answer that fits it ends the write with success while a request with the device's counter is still about, where the comment of `rpmb_fs_setup()` says "there are no other possible stale blocks with valid write counters available" |
| `FormatLasts` | `Rpmb` | `rpmb_fs_setup()` sets `fs_par` although its last write, of the partition data, failed: the files written from then on are gone after a restart, when it formats again |
| `ImplementsFileStore` | `RpmbFs`, `Allow = {"overwrite"}`, files of 3 blocks | `update_write_helper()` reads old data only for blocks that begin before the position written; what lies behind the written part becomes zero, where the comment says "allocate, read, update, write" |
| `CreateExact` | `RpmbFs`, `Allow = {"leftover"}` | a temporary file left by a stop is opened as it is, and its old tail becomes part of the new object |
| `LayoutSound` without its `~Cut` | `RpmbFs` | with no room for the next entry, or a failed write of it (`tee_rpmb_fs.c:2235`), the entry that the handle has is the last of the table; the cleanup of the create (`rpmb_fs_remove_internal()`, 2986-2988) clears it and with it the last-entry flag |
| `RefCountExact` without `left` | `RegShm`, 1 thread | `cleanup_shm_refs()` switches on the attribute without masking the type (`entry_std.c:257`); with `OPTEE_MSG_ATTR_NONCONTIG` set it comes to `default`, and the object that `set_tmem_param()` allocated is never put |
| `HandleIsObject`, `SharingAgreed`, `OnlyCorruptRemoved`, `ImplementsObjectStore` | `Storage`, enumerations and renames | `tee_pobj_rename()` refuses because an enumeration holds a reference, after the file was renamed: handle and object differ in name, so that a later open of the new name is not checked against the handle |
| the same | `Storage`, handles opened with `{"r", "w", "sr", "sw"}` | each handle has its own tree; a write through one makes the other's stale, and what that cannot read is removed as corrupt, though it is good |
| `OnlyCorruptRemoved` | `Storage`, creates with `{"r", "sr"}` and overwrite | a create replaces the file under an open handle; a read through that handle finds it gone and removes the new object |
| `ImplementsObjectStore` without `use.late` in `Stored` | `Storage`, the use `FailsLate` | the commit in `set_name()` (`tee_ree_fs.c:683-685`) takes effect and reports an error: the directory file names the new file, which `ree_fs_create()` removes (763-764), and has forgotten the old one: neither object is left |
| `SharingAgreed`, `HandleIsObject` without `~use.late` | the same | the commit in `ree_fs_rename()` (843-851) takes effect and reports an error: the file has the new name, the table the old one, and an open of the new name is not checked against the exclusive handle |
| `HandleIsObject` without `~use.misread` | `Storage`, the use `Misreads` with `faults` | a short answer for a good file (`fs_htree.c:124-125`, 889-891; `tee_ree_fs.c:636-641`) counts as a corrupt object: it is removed, while another handle that shares it goes on reading where the removal of the file failed |

Also: `fs_htree.h` says of `tee_fs_htree_truncate()` that `@block_num` is "the
number of nodes to truncate to"; the code keeps `block_num + 1`.

Seen in the code and not modelled: an overwriting rename or create in the RPMB
file system is two writes of the table, and a stop between them leaves neither
object (the model has the two steps, and `FileStore` a removal and a rename);
`rpmb_fs_dir_populate()` and `tee_rpmb_fs_raw_open()` go on with the table
after they released `rpmb_mutex`; after a failed write `fdp->ht` is NULL and
the next write of the handle uses it; an enumeration whose `opendir()` failed has
`e->fops` set and `e->dir` NULL, and the next call reads through it;
`set_invoke_timeout()` drops the seconds of the timeout when milliseconds carry.

## 5. Proofs

Each proof module EXTENDS the module it is about. A theorem holds for every
value of the constants that the module's named assumptions admit, so for any
number of threads, objects, nodes, names and calls; the assumptions are that
sets which are counted are finite, that bounds are natural numbers, and that
`None` is none of the values it is to be told apart from. Hypotheses beyond
these stand in the theorem and are given below. All proofs go the same way: an
inductive invariant, a conjunction of named parts that says what the code
relies on without testing it; for each action a lemma that says what it does,
field by field; and one lemma per action that the invariant survives it. The
invariants were checked with TLC before they were proved.

### MutexProofs

| Theorem | States | Rests on |
|---|---|---|
| `TypeCorrect` | `TypeOK` | induction, one step per action |
| `WqeSafe` | `WqeLinkedWhileWaiting` | `QInv`: with `LocalsInv`, which says that a thread outside `wq_wake_next()` has no wake type yet, and that `done` and `cv` are set only while the element is queued |
| `MutualExclusion` | `StateMatchesHolders` | the count of readers, by cardinality: a step adds or removes one holder |
| `WakeupsNotLost` | `NoLostWakeup` | `QInv` and `StateMatchesHolders`: of a thread that scans the queue with a wake type it is known what is left to wake |
| `RefinesMonitor` | `ImplementsMonitor` | the invariants above, and for each action the abstract step or stuttering step it is |

None of the invariants is inductive alone: exclusion needs types, and the
wake-up invariant needs to know where each waiter stands in the queue.
`LossyWake` may be either, so a lost wake-up RPC breaks none of these.

### FsHtreeProofs

| Theorem | States | Rests on |
|---|---|---|
| `TypeCorrect` | `TypeOK`, for every use of a file and whatever the caller goes on to do | `Shape`; loading is a recursive function, shown to have exactly one solution (`LoadedIs`) by a least counterexample |
| `SyncedFileCorrect` | `SyncedFileOpens` while `~use.truncates` | `Inv` |
| `CommittedFileStands` | `CommittedVerifies` and `CommittedBlocksPresent` while `~use.truncates` | `Inv` |
| `AtomicUpdates` | `ImplementsAtomicFile` | `Inv`, and for each action the abstract step or stuttering step it is |

`Inv` is about two trees: the committed one, which is a recursive reading of
the storage, and the one in memory. While a sync is under way they are not
related level by level, and the point is to see that no write of a node hits
a version that the committed tree uses. `Apart` says it: a parent in memory
chooses another version of a child than the committed tree does only once the
child and all below it are written; so a dirty node, and with it all its
ancestors, is still chosen as in the committed tree, and is written to the
other version. `Written` and `Hashed` say that a clean node is in storage as in
memory and has its hash, so that with the root the whole tree is there;
`Steady` that before a sync the trees differ only in blocks written since,
which are in the other version; `RootDiffers` that a root to be written will
get a hash other than the committed one, by which `init_head_from_data()` tells
the two apart; `Commits` which of the two versions an open will choose.

The three theorems assume `GoesOn = FALSE`, a caller that gives up a file
whose commit has failed, and speak of files that are not truncated (the
mapping of `AtomicUpdates` leaves the others out): with either the properties
are false, as section 4 shows.

### RegShmProofs

| Theorem | States | Rests on |
|---|---|---|
| `TypeCorrect` | `TypeOK` | `Located`, `LastPut` |
| `RefCountCorrect` | `RefCountExact` | the cardinality of the set of threads with a reference |
| `UsedStays` | `UsedNotFreed` | `Claims`: a release by cookie is the only one of its object; `LastPut`: one thread dropped the last reference and no other can |
| `ReleaseTold` | `ReleaseNotMissed` | `WaitersCounted`, `TellPending` |
| `MappingUndone` | `MappingNotLeaked` | `Mapping`: who has mapped what |
| `SoleMappingKept` | `SoleMappingStays` | `SoleMapper`: the map count of the only mapping thread |

The counts are exact only together with the flags: that a count of 0 frees an
object needs to know that nobody is about to look it up, and that needs the
list, `guarded` and `releasing` (`ObjectStates`, `Guarding`). A reference that
`cleanup_shm_refs()` leaves is counted once: `Leaving` says that the thread of
a temporary memory parameter is the only one of that object, and that the
object has not been left before.

### RpmbProofs

| Theorem | States | Rests on |
|---|---|---|
| `TypeCorrect` | `TypeOK` | `Budget`, which is what keeps the counter below the model's bound, and `Capped` for answers that are not paired |
| `NothingStale` | `StaleRefused` | `Settled`: once a write of the start-up was acknowledged no earlier request has the device's counter, except those of the write in progress (`Retrying`); where answers are paired |
| `BlockStoreImplemented` | `ImplementsBlockStore` | the above, and `FormatSafe`: what may still be carried out does not undo the format; where answers are paired |

`Spec` has runs of both kinds. `StaleRefused` and the mapping of
`ImplementsBlockStore` say nothing of those whose answers are not paired, in
which both are false (section 4); `TypeCorrect` is about both. In a paired run
the start-up's dummy write may be acknowledged for a stale request that was
carried out in its place, as the comment in `rpmb_fs_setup()` says, and the
proofs include that: the counter has moved all the same.

### RpmbFsProofs

| Theorem | States | Assumes |
|---|---|---|
| `LayoutCorrect` | `LayoutSound` | nothing |
| `CacheCorrect` | `CacheFresh` | nothing |
| `CreateCorrect` | `CreateExact` | `"leftover"` is not allowed |
| `FileStoreImplemented` | `ImplementsFileStore` | `Allow = {}` |

All four cover failed accesses and a table that cannot grow. `LayoutSound` and
`CacheFresh` say nothing once the table has lost its end (`Cut`), and
`FileStore` has a step for it in which all files are lost. Each hypothesis is
needed: `"overwrite"` breaks the contents and `"leftover"` a creation (section
4). `"leftover"` breaks
`ImplementsFileStore` too, as TLC shows with files of four blocks: the contents
of the create are written over part of the longer file that was left, and what
lies behind them becomes zero as with `"overwrite"`.
The assumptions of `RpmbFs` say what a block can be told to be (a value, zeros or
a table entry), and that an object has at least one block of contents, its
header, which `rpmb_fs_create()` writes first.

The invariants that the run checks speak of what is in the partition. What
makes them hold is what is still in `todo`, and `LInv` says that: all writes but
the last one of an operation go beyond the table or clear an entry (`Early`);
the last (`Final`) is a block of contents, an entry for space that no file and
no table entry has (`Suits`), or the entry that makes the table grow (`Grows`),
and then the new end of the table has been written before it (`Marked`). So a
stop or a failure after any of them leaves the layout sound, the clearing of
the last entry apart: it is the one write of stage `cut`, and `LOrCut`, that
`LInv` holds or that write has been made, is what is inductive. `Creating` says that a
creation's file is there when its next stage looks for it.

`CInv` sorts the plans by the write that takes effect on the files: a block in
place (`Poke`), new contents and then their entry (`Shift`), an entry cleared
(`Drop`), made (`Make`) or renamed (`Name`). That no file has two entries (`One`)
makes the effect of that write the abstract operation; every other write is a
stuttering step, except when a rename replaces a file, which is a removal and a
rename. `Progress` says of each stage of a creation what its file contains or
will contain once `todo` is done.

### TaManagerProofs and TaCalmProofs

| Theorem | States | Rests on |
|---|---|---|
| `TypeCorrect` | `TypeOK` | `SessionRefs`, `Counted`: counts are not below the references there are |
| `TaNotReentered` | `OneCallInTa` | `Busy` |
| `SessionNotShared` | `SessionExclusive` | `Locked`: the session's `lock_thread` is the thread between get and put, and `Openers` for one that is being opened |
| `SignalsNotLost` | `NoLostSignal` | one part for each of the four things waited for |
| `SingleSession` | `OneSession` | `Users`, `Counted` |
| `ContextRefsCorrect` | `ContextRefs` | `CtxExact` |
| `UnlinkAwaited` | `UnlinkWaitsUnlessPanic` | `SessExact`, `Awaited` |
| `ContextOutlives` | `ContextOutlivesUnlessPanic` | `Alive`, `Left` |
| `SessionsExist` | `SessionsExistUnlessPanic` | `Told`, `Meeting` |

The first five hold with panics; `Calm` in `TaCalmProofs` is the part of the
invariant that a panic destroys, so the last three say nothing of a TA that can
panic, and `ContextRefs` then only that a count is not too small.

### StorageProofs

| Theorem | States | Rests on |
|---|---|---|
| `TableRefsCorrect` | `PobjRefs` | `Held`: which entries a thread has at each place of its calls; `Linked` |
| `DirhRefsCorrect` | `DirhRefs` | `EnumKept`, and the count of handles and enumerations |
| `FailureForgotten` | `DirhCommitted` | `Numbered` |
| `FileNumbersDistinct` | no two named entries of the committed directory file share a file number | `Numbered`: the numbers of named entries are marked as used, in memory and after a read |
| `SharersAgree` | `SharingAgreed` | `Table`, `Base` |
| `StorageImplements` | `ImplementsObjectStore` | `Effect`: what a step does to the directory file and the files |
| `HandlesMean` | `HandleIsObject` | `Sound` |
| `SoundObjectsStay` | only a delete removes an object, and it finds it there | `Works` |
| `EnumerationsLast` | `EnumDirhValid` | `Works`, `Overs` |

The first four hold for every use. The others name the uses they hold for: TLC
finds each property violated by uses outside them (section 4). The run `storage`
also has uses outside them, `FailsLate` and `Misreads`, for the first four; of
these `SharingAgreed`, `HandleIsObject` and `ImplementsObjectStore` say nothing
(`Misreads` is within the first and the last).

| Hypothesis | Uses | Needed by |
|---|---|---|
| `Careful` | the commit of a create or a rename that fails had no effect; enumerations and renames are not mixed; no handle that writes is shared for writing | all five |
| `Tidy` | no good file is taken for a corrupt one; if the storage can fail, no created handle is shared (`CreatesAlone`) | `HandlesMean` |
| `Reliable` | the storage does not fail, no good file is taken for a corrupt one, and `CreatesAlone` | `SoundObjectsStay` |
| `Unfailing` | `Reliable`, no renames, and creates that may replace an object | `EnumerationsLast` |

TLC finds `HandleIsObject` violated without `Tidy`: a create replaces an object
that is shared and fails to remove the old file, which the earlier handle goes
on reading. It finds `OnlyCorruptRemoved` and `EnumDirhValid` violated when
created handles are shared, on working storage too: the handle whose file was
replaced takes the new object for a corrupt one and removes it; the next
removal then finds nothing, fails, and closes the directory file under an
enumeration.

The argument goes in layers, each an invariant that the next one uses.
`Table` is about the table of open objects: no two entries have one name,
except at the end of a rename (`OneName`); the target of a rename is the
renaming thread's alone (`Targets`); the flags of an entry stand for those of all
who use it (`Agreed`), and who opened without sharing is alone (`Alone`).
`Calls` says what a call under way is about. `Base` connects the table with
the files: every named entry has a file that is lost or can be read, and no two
have one name (`Stock`); a handle that is not shared has its entry and its file to
itself (`OwnedBy`); a file that a handle can read has no name but that of the
handle's object (`UnderName`); handles that read one file do not conflict
(`Sharing`). `Sound` adds that a handle that can read its file reads the object of
its entry (`Meant`), and that a shared handle that cannot has an object that is
lost (`Corrupt`). `Works` says that on working storage every handle can read its
file (`Reads`) and a removal is the delete of an object that is there
(`Deletes`), so that no operation fails and closes the directory file.

`Effect` says once what a step of a thread may do to the directory file and the
files: nothing, write, open, create, move or remove one, or spoil its own by a
write that fails, be it after its commit took effect. `Base`,
`Sound`, `Works` and the refinement (`EffectStored`) are shown for these effects
and not for every action. `StoredAs` reads the objects of `ObjectStore` from the
committed entries, where every name is at most once, so the one step that
`ObjectStore` sees is the commit of the directory file.

A file that is removed is gone in the model for those too who have it open. In
the normal world a file without a name may stay readable until it is closed. A
shared handle whose object is replaced would then go on reading the old object,
as it does where the removal fails; where no created handle is shared
(`CreatesAlone`) and no good file is taken for a corrupt one, no file that can be
read is removed under another handle, and the question does not arise.

The proofs need that `None` and `Lost`, which stand for a file that is not there
and one that cannot be read, are different and no content of a file
(`StorageAssumption`).

### What proving changed in the modules

A proof that failed was a fault of the model three times. `Storage` had
`tee_fs_dirfile_open()` clear more entries than `fs_dirfile.c:136` does, and
bounds that cut an operation short in its middle: they are guards of whole
operations now. `TaManager` stated `ContextRefs` as an equation also with
panics, where a context's count can exceed the references. `FsHtree` described
the nodes below a node by powers of two; `CleanBelow` says the same in a form
that can be reasoned about.

### Only model-checked

- Liveness (`LockReturns`, `ReleaseReturns`, `CallsReturn`): the prover does
  neither fairness nor ENABLED.
- `FsHtree` with truncations: `SyncedFileOpens` holds up to three nodes only.

## 6. What is left out, and the plan

Not modelled, with the reason for each, is in `PROJECT.json`. Most of the
repository's 430,000 lines are no subject for a model: vendored cryptography
(mbedTLS, LibTomCrypt), register-level drivers of some thirty platforms, ELF
loading, C library code and translation-table code. The parts above are the
ones whose correctness depends on interleavings, failures and stops. What could
still be modelled, in the order of what it would add:

1. Calls from TA to TA in `TaManager` (`TEE_ERROR_BUSY` instead of deadlock,
   the core's panic in `tee_ta_set_busy()`), cancellation and timeouts.
2. Threads and RPC: allocation, suspend and resume, the RPC cache.
3. The SCE crypto engine of RZ/G2L: one live handle per algorithm, several
   pseudo TAs on one engine.
4. The page table cache, whose allocation waits for others; recursive mutexes.

Modules to be proved about declare no RECURSIVE operator; their invariants are
conjunctions of named parts.
