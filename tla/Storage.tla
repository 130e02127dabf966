------------------------------ MODULE Storage -------------------------------
(***************************************************************************)
(* Persistent objects in REE storage: the system calls of                  *)
(* core/tee/tee_svc_storage.c, the table of open objects of tee_pobj.c,    *)
(* the file operations of tee_ree_fs.c and the directory file of           *)
(* fs_dirfile.c, shared by instances of one TA.                            *)
(*                                                                         *)
(* A step is one critical section of pobjs_mutex or of ree_fs_mutex.  The  *)
(* hash tree is module FsHtree's: a file has two versions of its contents, *)
(* the open handle's tree leads to one of them, a write goes to the other, *)
(* and the directory file changes in one step, when it is committed.  A    *)
(* thread is a TA instance that has one object open at a time.             *)
(***************************************************************************)
EXTENDS Naturals, FiniteSets, FiniteSetsExt

CONSTANTS Threads,
          Names,        \* object identifiers of the TA
          Fnos,         \* file numbers
          Vers,         \* versions of contents: the hash tree's root hashes
          Pobjs,        \* entries of the table, in the order of their linking
          Uses,         \* what the TA and the storage do, see Kinds
          Lost,         \* a file that the normal world has lost or changed
          None

Flags == SUBSET {"r", "w", "meta", "sr", "sw"}

(***************************************************************************)
(* TEE_DATA_FLAG_ACCESS_READ, _WRITE, _WRITE_META, _SHARE_READ and _WRITE. *)
(***************************************************************************)
Kinds ==
  [opens   : SUBSET Flags,  \* the flags objects are opened with
   creates : SUBSET Flags,  \* ... and created with
   overs   : SUBSET BOOLEAN,  \* TEE_DATA_FLAG_OVERWRITE of the creates
   enums   : BOOLEAN,       \* the TA enumerates its objects
   renames : BOOLEAN,       \* ... and renames them
   faults  : BOOLEAN,       \* storage operations may fail, and files be lost
   late    : BOOLEAN,       \* ... so may the commit of a create or a rename
                            \* that has taken effect
   misread : BOOLEAN]       \* reading a good file may give a corrupt answer

(***************************************************************************)
(* struct dirfile_entry, tee_fs_dirfile_dirh, tee_fs_fd and tee_fs_dir.    *)
(***************************************************************************)
Idxs == 1 .. Cardinality(Names)

Dent == [name : Names \cup {None}, fno : Nat, hash : Vers \cup {None}]

DirFile == [dents : [Idxs -> Dent], bits : SUBSET Nat]

Handle == [idx : Idxs, fno : Nat, ver : Vers \cup {None}, slot : 0 .. 1]

Enumeration == [idx : Nat, valid : BOOLEAN]

Pairs == [0 .. 1 -> Vers \cup {None}]

ASSUME StorageAssumption ==
  /\ IsFiniteSet(Threads) /\ IsFiniteSet(Names)
  /\ \A x \in {Fnos, Vers, Pobjs} : x \subseteq Nat /\ IsFiniteSet(x)
  /\ Uses \subseteq Kinds
  /\ None \notin Threads \cup Names \cup Nat
  /\ None \notin DirFile \cup Handle \cup Enumeration
  /\ Lost # None /\ {None, Lost} \cap Pairs = {}

VARIABLES
  use,      \* the one of Uses; never changes
  dents,    \* the directory file, as committed: struct dirfile_entry by index
  files,    \* the storage: a file is a pair of versions, Lost or None
  dirh,     \* ree_fs_dirh: the directory file in memory, or None
  refs,     \* ree_fs_dirh_refcount
  pobjs,    \* tee_pobjs
  pc,       \* where each thread is
  arg,      \* what its call is about
  po, to,   \* the object it has open; the one it renames that to
  fl,       \* the flags of the handle
  fh,       \* struct tee_fs_fd, or None
  dir       \* struct tee_fs_dir of an enumeration, or None

fsvars == <<dents, files, dirh, refs>>
thvars == <<arg, po, to, fl, fh, dir>>
vars == <<use, fsvars, pobjs, pc, thvars>>

NoDent == [name |-> None, fno |-> 0, hash |-> None]

NoPobj == [name |-> None, refcnt |-> 0, flags |-> {}, creating |-> FALSE]

NoArg == [op |-> "none", name |-> None, over |-> FALSE]

Init ==
  /\ use \in Uses
  /\ dents = [i \in Idxs |-> NoDent]
  /\ files = [f \in Fnos |-> None]
  /\ dirh = None /\ refs = 0
  /\ pobjs = [p \in Pobjs |-> NoPobj]
  /\ pc = [t \in Threads |-> "idle"]
  /\ arg = [t \in Threads |-> NoArg]
  /\ po = [t \in Threads |-> None] /\ to = po
  /\ fl = [t \in Threads |-> {}]
  /\ fh = [t \in Threads |-> None] /\ dir = fh

Goto(t, l) == pc' = [pc EXCEPT ![t] = l]

-----------------------------------------------------------------------------
(***************************************************************************)
(* tee_pobj.c                                                              *)
(***************************************************************************)
Clash(o, n, access, share) ==
  \/ access \in o \cup n /\ share \notin o \cap n
  \/ (share \in n) # (share \in o)

(***************************************************************************)
(* Mutant: only the new flags are looked at.                               *)
(***************************************************************************)
MutantConflict(o, n) == "meta" \in n \/ ("r" \in n /\ "sr" \notin n)

Conflict(o, n) ==
  "meta" \in o \cup n \/ Clash(o, n, "r", "sr") \/ Clash(o, n, "w", "sw")

Listed == {p \in Pobjs : pobjs[p].name # None}

OfName(n) == {p \in Listed : pobjs[p].name = n}

Last(n) == {p \in OfName(n) : \A q \in OfName(n) : q <= p}

MayGet(n, f, usage, over) ==
  \A p \in Last(n) :
    usage # "enum" =>
      /\ ~pobjs[p].creating
      /\ usage = "create" => over
      /\ ~Conflict(pobjs[p].flags, f)

(***************************************************************************)
(* tee_pobj_get(): a further reference, or a new entry at the tail.        *)
(***************************************************************************)
Got(n) ==
  IF OfName(n) # {} THEN Max(OfName(n))
  ELSE IF Listed = {} THEN Min(Pobjs) ELSE Max(Listed) + 1

Gets(n, f, usage, over) ==
  /\ MayGet(n, f, usage, over)
  /\ Got(n) \in Pobjs
  /\ pobjs' = IF OfName(n) # {} THEN [pobjs EXCEPT ![Got(n)].refcnt = @ + 1]
              ELSE [pobjs EXCEPT ![Got(n)] =
                      [name |-> n, refcnt |-> 1, flags |-> f,
                       creating |-> usage = "create"]]

(***************************************************************************)
(* tee_pobj_release()                                                      *)
(***************************************************************************)
Released(p) ==
  IF pobjs[p].refcnt = 1 THEN [pobjs EXCEPT ![p] = NoPobj]
                         ELSE [pobjs EXCEPT ![p].refcnt = @ - 1]

NameOf(t) == pobjs[po[t]].name

-----------------------------------------------------------------------------
(***************************************************************************)
(* fs_dirfile.c.  tee_fs_dirfile_open() clears a named entry whose file    *)
(* number is taken, and notes the numbers in use.                          *)
(***************************************************************************)
Read(d) ==
  [i \in Idxs |->
     IF /\ d[i].name # None
        /\ \E j \in 1 .. i - 1 : d[j].name # None /\ d[j].fno = d[i].fno
       THEN NoDent ELSE d[i]]

Numbers(d) == {d[i].fno : i \in {j \in Idxs : d[j].name # None}}

Dirh == IF dirh = None THEN [dents |-> Read(dents), bits |-> Numbers(Read(dents))]
                       ELSE dirh

Find(d, n) == {i \in Idxs : d.dents[i].name = n}

(***************************************************************************)
(* tee_fs_dirfile_get_tmp(), tee_fs_dirfile_rename(), _remove() and        *)
(* _update_hash().                                                         *)
(***************************************************************************)
FreeFno(d) == Fnos \ d.bits

SetDent(d, i, n, f, v) ==
  [dents |-> [d.dents EXCEPT ![i] = [name |-> n, fno |-> f, hash |-> v]],
   bits  |-> d.bits \cup {f}]

ClearDent(d, i) ==
  [dents |-> [d.dents EXCEPT ![i] = NoDent],
   bits  |-> d.bits \ {d.dents[i].fno}]

(***************************************************************************)
(* get_dirh() and put_dirh() of one operation, which leaves the directory  *)
(* file in memory as d and keeps n references; an error closes it.  What   *)
(* an enumeration has is a pointer to it.                                  *)
(***************************************************************************)
Stale(d) ==
  [t \in Threads |-> IF d = None /\ dir[t] # None
                       THEN [dir[t] EXCEPT !.valid = FALSE] ELSE dir[t]]

(***************************************************************************)
(* Mutant: the directory file is not closed after an error.                *)
(***************************************************************************)
MutantLeave(d, n, error) ==
  /\ refs' = refs + n
  /\ dirh' = IF refs + n = 0 THEN None ELSE d
  /\ dir' = Stale(dirh')

Leave(d, n, error) ==
  /\ refs' = refs + n
  /\ dirh' = IF error \/ refs + n = 0 THEN None ELSE d
  /\ dir' = Stale(dirh')

(***************************************************************************)
(* commit_dirh_writes() of d.                                              *)
(***************************************************************************)
Commit(d) == dents' = d.dents

(***************************************************************************)
(* get_dirh() fails.                                                       *)
(***************************************************************************)
NoDirh == use.faults /\ dirh = None /\ UNCHANGED <<fsvars, dir>>

-----------------------------------------------------------------------------
(***************************************************************************)
(* Contents.  An open by hash finds the version that has it.               *)
(***************************************************************************)
Readable(f, v) == files[f] \notin {None, Lost} /\ \E k \in 0 .. 1 : files[f][k] = v

SlotOf(f, v) == CHOOSE k \in 0 .. 1 : files[f][k] = v

(***************************************************************************)
(* A root hash that no other contents have.                                *)
(***************************************************************************)
Known ==
  {dents[i].hash : i \in Idxs}
    \cup {fh[t].ver : t \in {u \in Threads : fh[u] # None}}
    \cup UNION {{files[f][0], files[f][1]} :
                  f \in {g \in Fnos : files[g] \notin {None, Lost}}}

NewVer == Min(Vers \ Known)

(***************************************************************************)
(* Bounds of the model: contents not seen before; a file number and an     *)
(* entry of the directory file for a new object.                           *)
(***************************************************************************)
Writable == Vers \ Known # {}

Room(d, n) == FreeFno(d) # {} /\ Find(d, n) \cup Find(d, None) # {}

File(v) == [k \in 0 .. 1 |-> IF k = 0 THEN v ELSE None]

(***************************************************************************)
(* tee_fs_htree_read_block() through the tree of the handle.               *)
(***************************************************************************)
Current(h) == files[h.fno] \notin {None, Lost} /\ files[h.fno][h.slot] = h.ver

(***************************************************************************)
(* Where a read leads: what cannot be read is removed.                     *)
(***************************************************************************)
Answer(h) == IF Current(h) THEN "have" ELSE "remove"

-----------------------------------------------------------------------------
(***************************************************************************)
(* syscall_storage_obj_open() and syscall_storage_obj_create(): the entry  *)
(* of the table first.                                                     *)
(***************************************************************************)
Begin(t, op, n, f, over) ==
  /\ pc[t] = "idle" /\ po[t] = None
  /\ Gets(n, f, op, over)
  /\ po' = [po EXCEPT ![t] = Got(n)]
  /\ arg' = [arg EXCEPT ![t] = [op |-> op, name |-> n, over |-> over]]
  /\ fl' = [fl EXCEPT ![t] = f]
  /\ Goto(t, op)
  /\ UNCHANGED <<use, fsvars, to, fh, dir>>

ObjOpen(t) ==
  \E n \in Names, f \in use.opens : Begin(t, "open", n, f, FALSE)

ObjCreate(t) ==
  \E n \in Names, f \in use.creates, over \in use.overs : Begin(t, "create", n, f, over)

(***************************************************************************)
(* ree_fs_open(), called to open an object and to enumerate one.  A file   *)
(* that is missing, or that is not answered in full, is                    *)
(* TEE_ERROR_CORRUPT_OBJECT, be it there or not: an open goes on to remove *)
(* the object.                                                             *)
(***************************************************************************)
OpenFile(t) ==
  /\ pc[t] \in {"open", "enum"}
  /\ \/ /\ NoDirh
        /\ Goto(t, "close")
        /\ UNCHANGED fh
     \/ /\ Find(Dirh, NameOf(t)) = {} \/ use.faults
        /\ Leave(Dirh, 0, FALSE)
        /\ Goto(t, "close")
        /\ UNCHANGED <<dents, files, fh>>
     \/ \E i \in Find(Dirh, NameOf(t)) :
          LET e == Dirh.dents[i]
          IN  /\ UNCHANGED <<dents, files>>
              /\ \/ /\ Readable(e.fno, e.hash)
                    /\ fh' = [fh EXCEPT ![t] =
                                [idx |-> i, fno |-> e.fno, ver |-> e.hash,
                                 slot |-> SlotOf(e.fno, e.hash)]]
                    /\ Leave(Dirh, 1, FALSE)
                    /\ Goto(t, "head")
                 \/ /\ ~Readable(e.fno, e.hash) \/ use.misread
                    /\ Leave(Dirh, 0, FALSE)
                    /\ Goto(t, IF pc[t] = "open" THEN "remove" ELSE "close")
                    /\ UNCHANGED fh
  /\ UNCHANGED <<use, pobjs, arg, po, to, fl>>

(***************************************************************************)
(* The rest of tee_svc_storage_read_head().                                *)
(***************************************************************************)
ReadHead(t) ==
  /\ pc[t] = "head"
  /\ \/ /\ use.faults \/ arg[t].op = "enum"
        /\ Goto(t, "close")
     \/ /\ arg[t].op = "open"
        /\ Goto(t, Answer(fh[t])) \/ (use.misread /\ Goto(t, "remove"))
  /\ UNCHANGED <<use, fsvars, pobjs, thvars>>

(***************************************************************************)
(* ree_fs_create(): a new file under a new number, synced, and then named  *)
(* in the directory file by set_name(), in place of a file to overwrite,   *)
(* which is removed.                                                       *)
(*                                                                         *)
(* Mutant: the file that is replaced is removed before the commit.         *)
(***************************************************************************)
Replaced(d, n) == {d.dents[i].fno : i \in Find(d, n)}

DentFor(d, n) ==
  IF Find(d, n) # {} THEN Min(Find(d, n)) ELSE Min(Find(d, None))

Named(d, n, f) == SetDent(d, DentFor(d, n), n, f, NewVer)

Without(fs, S, left) ==
  [f \in Fnos |-> IF f \in S \ left THEN None ELSE fs[f]]

MutantCreateFails(t, d, f) ==
  /\ use.faults
  /\ files' = Without(files, {f} \cup Replaced(d, NameOf(t)), {})
  /\ Leave(Named(d, NameOf(t), f), 0, TRUE)
  /\ Goto(t, "close")
  /\ UNCHANGED <<dents, fh>>

(***************************************************************************)
(* A create that fails, or is stopped, may leave its file behind.  After   *)
(* TEE_ERROR_CORRUPT_OBJECT the system call removes the object.            *)
(***************************************************************************)
CreateFails(t, d, f) ==
  /\ use.faults \/ (Find(d, NameOf(t)) # {} /\ ~arg[t].over)
  /\ \/ files' = [files EXCEPT ![f] = None]
     \/ use.faults /\ files' = [files EXCEPT ![f] = File(NewVer)]
  /\ Leave(Named(d, NameOf(t), f), 0, TRUE)
  /\ Goto(t, "close") \/ (use.faults /\ Goto(t, "remove"))
  /\ UNCHANGED <<dents, fh>>

(***************************************************************************)
(* The commit takes effect and reports an error: the directory file names  *)
(* the new file, which is removed.                                         *)
(***************************************************************************)
CreateLate(t, d, f) ==
  LET e == Named(d, NameOf(t), f)
  IN  /\ use.late
      /\ Find(d, NameOf(t)) # {} => arg[t].over
      /\ Commit(e)
      /\ \E x \in {None, File(NewVer)} : files' = [files EXCEPT ![f] = x]
      /\ Leave(e, 0, TRUE)
      /\ Goto(t, "close") \/ Goto(t, "remove")
      /\ UNCHANGED fh

CreateDone(t, d, f) ==
  LET i == DentFor(d, NameOf(t))
      e == Named(d, NameOf(t), f)
  IN  /\ Find(d, NameOf(t)) # {} => arg[t].over
      /\ Commit(e)
      /\ \E left \in IF use.faults THEN SUBSET Replaced(d, NameOf(t)) ELSE {{}} :
           files' = [Without(files, Replaced(d, NameOf(t)), left)
                       EXCEPT ![f] = File(NewVer)]
      /\ fh' = [fh EXCEPT ![t] = [idx |-> i, fno |-> f, slot |-> 0, ver |-> NewVer]]
      /\ Leave(e, 1, FALSE)
      /\ Goto(t, "final")

CreateFile(t) ==
  /\ pc[t] = "create"
  /\ \/ NoDirh /\ Goto(t, "close") /\ UNCHANGED fh
     \/ /\ Room(Dirh, NameOf(t)) /\ Writable
        /\ \/ CreateFails(t, Dirh, Min(FreeFno(Dirh)))
           \/ CreateLate(t, Dirh, Min(FreeFno(Dirh)))
           \/ CreateDone(t, Dirh, Min(FreeFno(Dirh)))
  /\ UNCHANGED <<use, pobjs, arg, po, to, fl>>

(***************************************************************************)
(* tee_pobj_create_final(), unless the handle cannot be returned.          *)
(***************************************************************************)
CreateFinal(t) ==
  /\ pc[t] = "final"
  /\ \/ /\ pobjs' = [pobjs EXCEPT ![po[t]].creating = FALSE]
        /\ Goto(t, "have")
     \/ /\ Goto(t, "close")
        /\ UNCHANGED pobjs
  /\ UNCHANGED <<use, fsvars, thvars>>

-----------------------------------------------------------------------------
(***************************************************************************)
(* syscall_storage_obj_read()                                              *)
(***************************************************************************)
ObjRead(t) ==
  /\ pc[t] = "have" /\ "r" \in fl[t]
  /\ Goto(t, Answer(fh[t])) \/ (use.misread /\ Goto(t, "remove"))
  /\ UNCHANGED <<use, fsvars, pobjs, thvars>>

(***************************************************************************)
(* syscall_storage_obj_write(), syscall_storage_obj_trunc(): the file is   *)
(* synced, then its hash committed.  update_hash() asserts that the entry  *)
(* is of this file.  The commit may fail after it took effect.  A caller   *)
(* whose write failed closes the handle; a truncation that finds the file  *)
(* corrupt removes the object.  A write to a file that was removed or lost *)
(* is not seen by anybody.                                                 *)
(***************************************************************************)
SameFile(t) == Dirh.dents[fh[t].idx].fno = fh[t].fno

Written(h) ==
  IF files[h.fno] \in {None, Lost} THEN files
  ELSE [files EXCEPT ![h.fno][1 - h.slot] = NewVer]

ObjWrite(t) ==
  LET h == fh[t]
      e == SetDent(Dirh, h.idx, Dirh.dents[h.idx].name, h.fno, NewVer)
  IN  /\ pc[t] = "have" /\ "w" \in fl[t]
      /\ \/ /\ NoDirh
            /\ Goto(t, "failed")
            /\ UNCHANGED fh
         \/ /\ use.faults /\ Writable
            /\ files' \in {files, Written(h)}
            /\ Leave(e, 0, TRUE)
            /\ Goto(t, "failed") \/ Goto(t, "remove")
            /\ UNCHANGED <<dents, fh>>
         \/ /\ use.faults /\ SameFile(t) /\ Writable
            /\ files' = Written(h)
            /\ Commit(e)
            /\ Leave(e, 0, TRUE)
            /\ Goto(t, "failed") \/ Goto(t, "remove")
            /\ UNCHANGED fh
         \/ /\ SameFile(t) /\ Writable
            /\ files' = Written(h)
            /\ Commit(e)
            /\ fh' = [fh EXCEPT ![t].slot = 1 - h.slot, ![t].ver = NewVer]
            /\ Leave(e, 0, FALSE)
            /\ UNCHANGED pc
      /\ UNCHANGED <<use, pobjs, arg, po, to, fl>>

(***************************************************************************)
(* syscall_storage_obj_rename(): the new name is taken in the table, the   *)
(* entry of the directory file changed, then that of the table, unless the *)
(* commit reports an error, be it one that took effect.                    *)
(***************************************************************************)
ObjRename(t) ==
  \E m \in Names :
    /\ use.renames
    /\ pc[t] = "have" /\ "meta" \in fl[t]
    /\ Gets(m, {"meta"}, "rename", FALSE)
    /\ to' = [to EXCEPT ![t] = Got(m)]
    /\ arg' = [arg EXCEPT ![t].name = m]
    /\ Goto(t, "rename")
    /\ UNCHANGED <<use, fsvars, po, fl, fh, dir>>

Moved(d, i, m) == SetDent(d, i, m, d.dents[i].fno, d.dents[i].hash)

RenameFile(t) ==
  LET m == arg[t].name
  IN  /\ pc[t] = "rename"
      /\ \/ /\ NoDirh
            /\ Goto(t, "renamed")
         \/ /\ Find(Dirh, m) # {} \/ Find(Dirh, NameOf(t)) = {} \/ use.faults
            /\ \E d \in {Dirh} \cup {Moved(Dirh, i, m) : i \in Find(Dirh, NameOf(t))} :
                 Leave(d, 0, TRUE)
            /\ Goto(t, "renamed")
            /\ UNCHANGED <<dents, files>>
         \/ \E i \in Find(Dirh, NameOf(t)) :
              LET e == Moved(Dirh, i, m)
              IN  /\ Find(Dirh, m) = {}
                  /\ Commit(e)
                  /\ \/ Leave(e, 0, FALSE) /\ Goto(t, "renamePobj")
                     \/ use.late /\ Leave(e, 0, TRUE) /\ Goto(t, "renamed")
                  /\ UNCHANGED files
      /\ UNCHANGED <<use, pobjs, arg, po, to, fl, fh>>

(***************************************************************************)
(* Mutant: the entry of the table keeps its name.                          *)
(***************************************************************************)
MutantRenamePobj(t) ==
  /\ pc[t] = "renamePobj"
  /\ Goto(t, "renamed")
  /\ UNCHANGED <<use, fsvars, pobjs, thvars>>

(***************************************************************************)
(* tee_pobj_rename() refuses an entry that has another reference.          *)
(***************************************************************************)
RenamePobj(t) ==
  /\ pc[t] = "renamePobj"
  /\ pobjs' = IF pobjs[po[t]].refcnt = 1
                THEN [pobjs EXCEPT ![po[t]].name = arg[t].name] ELSE pobjs
  /\ Goto(t, "renamed")
  /\ UNCHANGED <<use, fsvars, thvars>>

(***************************************************************************)
(* Mutant: the entry of the new name is not released.                      *)
(***************************************************************************)
MutantRenamed(t) ==
  /\ pc[t] = "renamed"
  /\ to' = [to EXCEPT ![t] = None]
  /\ Goto(t, "have")
  /\ UNCHANGED <<use, fsvars, pobjs, arg, po, fl, fh, dir>>

Renamed(t) ==
  /\ pc[t] = "renamed"
  /\ pobjs' = Released(to[t])
  /\ to' = [to EXCEPT ![t] = None]
  /\ Goto(t, "have")
  /\ UNCHANGED <<use, fsvars, arg, po, fl, fh, dir>>

(***************************************************************************)
(* syscall_storage_obj_del(); ree_fs_remove(), which is also called for a  *)
(* corrupt object: the entry is cleared and then the file removed, unless  *)
(* the commit fails, before or after it took effect.                       *)
(***************************************************************************)
ObjDel(t) ==
  /\ pc[t] = "have" /\ "meta" \in fl[t]
  /\ Goto(t, "remove")
  /\ UNCHANGED <<use, fsvars, pobjs, thvars>>

RemoveFile(t) ==
  /\ pc[t] = "remove"
  /\ \/ NoDirh
     \/ /\ Find(Dirh, NameOf(t)) = {} \/ use.faults
        /\ \E d \in {Dirh} \cup {ClearDent(Dirh, i) : i \in Find(Dirh, NameOf(t))} :
             Leave(d, 0, TRUE)
        /\ UNCHANGED <<dents, files>>
     \/ \E i \in Find(Dirh, NameOf(t)) :
          LET e == ClearDent(Dirh, i)
              f == Dirh.dents[i].fno
          IN  /\ Commit(e)
              /\ \/ /\ \E left \in IF use.faults THEN SUBSET {f} ELSE {{}} :
                         files' = Without(files, {f}, left)
                    /\ Leave(e, 0, FALSE)
                 \/ /\ use.faults
                    /\ Leave(e, 0, TRUE)
                    /\ UNCHANGED files
  /\ Goto(t, "close")
  /\ UNCHANGED <<use, pobjs, arg, po, to, fl, fh>>

-----------------------------------------------------------------------------
(***************************************************************************)
(* tee_obj_close(): the file, then the entry of the table.                 *)
(***************************************************************************)
ObjClose(t) ==
  /\ pc[t] \in {"have", "failed"}
  /\ Goto(t, "close")
  /\ UNCHANGED <<use, fsvars, pobjs, thvars>>

(***************************************************************************)
(* Mutant: the reference to the directory file is put for a file that was  *)
(* never opened, too.                                                      *)
(***************************************************************************)
MutantCloseFile(t) ==
  /\ pc[t] = "close"
  /\ refs > 0
  /\ refs' = refs - 1
  /\ dirh' = IF refs = 1 THEN None ELSE dirh
  /\ dir' = Stale(dirh')
  /\ fh' = [fh EXCEPT ![t] = None]
  /\ Goto(t, "release")
  /\ UNCHANGED <<use, dents, files, pobjs, arg, po, to, fl>>

(***************************************************************************)
(* ree_fs_close() with put_dirh_primitive().                               *)
(***************************************************************************)
CloseFile(t) ==
  /\ pc[t] = "close"
  /\ IF fh[t] = None
       THEN UNCHANGED <<dirh, refs, dir>>
       ELSE /\ refs' = refs - 1
            /\ dirh' = IF refs = 1 THEN None ELSE dirh
            /\ dir' = Stale(dirh')
  /\ fh' = [fh EXCEPT ![t] = None]
  /\ Goto(t, "release")
  /\ UNCHANGED <<use, dents, files, pobjs, arg, po, to, fl>>

Release(t) ==
  /\ pc[t] = "release"
  /\ pobjs' = Released(po[t])
  /\ po' = [po EXCEPT ![t] = None]
  /\ fl' = [fl EXCEPT ![t] = {}]
  /\ arg' = [arg EXCEPT ![t] = NoArg]
  /\ Goto(t, "idle")
  /\ UNCHANGED <<use, fsvars, to, fh, dir>>

-----------------------------------------------------------------------------
(***************************************************************************)
(* syscall_storage_start_enum(), ree_fs_opendir_rpc().                     *)
(***************************************************************************)
StartEnum(t) ==
  /\ use.enums
  /\ pc[t] = "idle" /\ po[t] = None /\ dir[t] = None
  /\ \E i \in Idxs : Dirh.dents[i].name # None
  /\ refs' = refs + 1
  /\ dirh' = Dirh
  /\ dir' = [dir EXCEPT ![t] = [idx |-> 0, valid |-> TRUE]]
  /\ UNCHANGED <<use, dents, files, pobjs, pc, arg, po, to, fl, fh>>

(***************************************************************************)
(* syscall_storage_next_enum(): ree_fs_readdir_rpc() reads the next entry  *)
(* through the pointer of the enumeration; then the object is looked up.   *)
(***************************************************************************)
Ahead(t) == {i \in Idxs : i > dir[t].idx /\ dirh.dents[i].name # None}

NextEnum(t) ==
  /\ pc[t] = "idle" /\ dir[t] # None /\ dir[t].valid
  /\ Ahead(t) # {}
  /\ dir' = [dir EXCEPT ![t].idx = Min(Ahead(t))]
  /\ arg' = [arg EXCEPT ![t] = [op |-> "enum", over |-> FALSE,
                                name |-> dirh.dents[Min(Ahead(t))].name]]
  /\ Goto(t, "enumGet")
  /\ UNCHANGED <<use, fsvars, pobjs, po, to, fl, fh>>

EnumGet(t) ==
  /\ pc[t] = "enumGet"
  /\ Gets(arg[t].name, {}, "enum", FALSE)
  /\ po' = [po EXCEPT ![t] = Got(arg[t].name)]
  /\ Goto(t, "enum")
  /\ UNCHANGED <<use, fsvars, arg, to, fl, fh, dir>>

(***************************************************************************)
(* Mutant: the directory file is closed whoever else refers to it.         *)
(***************************************************************************)
MutantEndEnum(t) ==
  /\ pc[t] = "idle" /\ dir[t] # None /\ dir[t].valid
  /\ refs' = refs - 1
  /\ dirh' = None
  /\ dir' = [Stale(None) EXCEPT ![t] = None]
  /\ UNCHANGED <<use, dents, files, pobjs, pc, arg, po, to, fl, fh>>

(***************************************************************************)
(* ree_fs_closedir_rpc(), which asserts that the directory file in memory  *)
(* is still the one it got.                                                *)
(***************************************************************************)
EndEnum(t) ==
  /\ pc[t] = "idle" /\ dir[t] # None /\ dir[t].valid
  /\ refs' = refs - 1
  /\ dirh' = IF refs = 1 THEN None ELSE dirh
  /\ dir' = [Stale(dirh') EXCEPT ![t] = None]
  /\ UNCHANGED <<use, dents, files, pobjs, pc, arg, po, to, fl, fh>>

-----------------------------------------------------------------------------
(***************************************************************************)
(* The device stops and starts again: only the storage is left.            *)
(***************************************************************************)
Stop ==
  /\ dirh' = None /\ refs' = 0
  /\ pobjs' = [p \in Pobjs |-> NoPobj]
  /\ pc' = [t \in Threads |-> "idle"]
  /\ arg' = [t \in Threads |-> NoArg]
  /\ po' = [t \in Threads |-> None] /\ to' = [t \in Threads |-> None]
  /\ fl' = [t \in Threads |-> {}]
  /\ fh' = [t \in Threads |-> None] /\ dir' = [t \in Threads |-> None]
  /\ UNCHANGED <<use, dents, files>>

(***************************************************************************)
(* The normal world loses a file, or its contents, for good.               *)
(***************************************************************************)
Lose ==
  \E f \in Fnos :
    /\ use.faults /\ files[f] \notin {None, Lost}
    /\ files' = [files EXCEPT ![f] = Lost]
    /\ UNCHANGED <<use, dents, dirh, refs, pobjs, pc, thvars>>

Step(t) ==
  \/ ObjOpen(t) \/ OpenFile(t) \/ ReadHead(t)
  \/ ObjCreate(t) \/ CreateFile(t) \/ CreateFinal(t)
  \/ ObjRead(t) \/ ObjWrite(t)
  \/ ObjRename(t) \/ RenameFile(t) \/ RenamePobj(t) \/ Renamed(t)
  \/ ObjDel(t) \/ RemoveFile(t)
  \/ ObjClose(t) \/ CloseFile(t) \/ Release(t)
  \/ StartEnum(t) \/ NextEnum(t) \/ EnumGet(t) \/ EndEnum(t)

Next == Stop \/ Lose \/ \E t \in Threads : Step(t)

Spec == Init /\ [][Next]_vars

-----------------------------------------------------------------------------
(***************************************************************************)
(* Properties                                                              *)
(***************************************************************************)

(***************************************************************************)
(* The count of a table entry is the number of threads that refer to it:   *)
(* no entry goes while one does, and none is left behind, however calls    *)
(* fail.                                                                   *)
(***************************************************************************)
PobjRefs ==
  \A p \in Pobjs :
    pobjs[p].refcnt = Cardinality({t \in Threads : po[t] = p})
                        + Cardinality({t \in Threads : to[t] = p})

(***************************************************************************)
(* ree_fs_dirh_refcount is the number of open files and enumerations,      *)
(* whoever closed the directory file because of an error meanwhile.        *)
(***************************************************************************)
DirhRefs ==
  refs = Cardinality({t \in Threads : fh[t] # None})
           + Cardinality({t \in Threads : dir[t] # None})

(***************************************************************************)
(* Between operations the directory file in memory is the committed one:   *)
(* what an operation wrote to it and failed to commit is forgotten, and    *)
(* cannot get into the next commit.                                        *)
(***************************************************************************)
DirhCommitted == dirh # None => dirh.dents = dents

(***************************************************************************)
(* What a handle reads is its object: as long as its file can be read, the *)
(* entry of its index has the name that the table has, the handle's file   *)
(* and the contents that the handle reads, whatever the other instances of *)
(* the TA, renaming, replacing and removing objects, have done since.  The *)
(* entry that a write changes is of its file, as update_hash() asserts.    *)
(* Not after a rename that failed though it took effect, nor once a good   *)
(* object has been removed as corrupt through another handle.              *)
(***************************************************************************)
HandleIsObject ==
  \A t \in Threads :
    pc[t] = "have" /\ ~use.late /\ ~use.misread =>
      /\ Current(fh[t]) => dents[fh[t].idx] = [name |-> NameOf(t),
                                               fno |-> fh[t].fno,
                                               hash |-> fh[t].ver]
      /\ "w" \in fl[t] => SameFile(t)

OnOneFile(t, u) ==
  /\ t # u /\ pc[t] = "have" /\ pc[u] = "have"
  /\ fh[t].fno = fh[u].fno /\ Current(fh[t]) /\ Current(fh[u])

(***************************************************************************)
(* Handles open on one object at a time agree about sharing it (the rules  *)
(* of the TEE Internal Core API that tee_pobj_check_access() quotes), also *)
(* if they came by different names or a create replaced the object.  Not   *)
(* after a rename that failed though it took effect: the table then has    *)
(* the old name, and the new one is opened without a check.                *)
(***************************************************************************)
SharingAgreed ==
  \A t, u \in Threads :
    OnOneFile(t, u) /\ ~use.late =>
      /\ "meta" \notin fl[t] \cup fl[u]
      /\ "r" \in fl[t] \cup fl[u] => "sr" \in fl[t] \cap fl[u]
      /\ "w" \in fl[t] \cup fl[u] => "sw" \in fl[t] \cap fl[u]

(***************************************************************************)
(* An enumeration's directory file is the one in memory for as long as it  *)
(* lasts: readdir uses no pointer to one that was closed, and the          *)
(* assertion of put_dirh() holds in closedir.                              *)
(***************************************************************************)
EnumDirhValid == \A t \in Threads : dir[t] # None => dir[t].valid

(***************************************************************************)
(* On storage that works, an object is removed as corrupt, by an open or a *)
(* read through a handle that may not delete it, only if its file cannot   *)
(* be read.                                                                *)
(***************************************************************************)
OnlyCorruptRemoved ==
  \A t \in Threads :
    pc[t] = "remove" /\ "meta" \notin fl[t] =>
      \A i \in Idxs : dents[i].name = NameOf(t) =>
                        ~Readable(dents[i].fno, dents[i].hash)

(***************************************************************************)
(* Creating, replacing, writing, renaming and deleting an object is one    *)
(* change of the stored objects, whichever access fails before it took     *)
(* effect and whenever the device stops; a file that the normal world lost *)
(* counts as there until the object is found corrupt and removed.  Nothing *)
(* is said if the commit of a create may report an error after it took     *)
(* effect: then the new file is removed, and the directory file has        *)
(* forgotten the old one.                                                  *)
(***************************************************************************)
Stored(n) ==
  LET I == {i \in Idxs : dents[i].name = n}
      e == dents[Min(I)]
  IN  IF use.late \/ I = {} THEN None
      ELSE IF Cardinality(I) = 1 /\ (files[e.fno] = Lost \/ Readable(e.fno, e.hash))
      THEN e.hash ELSE Lost

Objects == INSTANCE ObjectStore WITH
  Contents <- Vers, Absent <- None, store <- [n \in Names |-> Stored(n)]

ImplementsObjectStore == Objects!Spec
=============================================================================
