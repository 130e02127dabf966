------------------------------- MODULE RpmbFs -------------------------------
(***************************************************************************)
(* The RPMB file system, core/tee/tee_rpmb_fs.c: a table of file entries   *)
(* that grows up from the start of the partition, the contents of files in *)
(* the space that is left, from the top down, and a cache of the first     *)
(* entries.  A block is the unit of addresses and of sizes, and is written *)
(* atomically (module Rpmb, BlockStore).  A write that fails for good      *)
(* (rpmb_dead) is followed by no other access before a restart: it is a    *)
(* stop before or after that write.  One that fails before anything has    *)
(* been sent (no memory, no counter) changes nothing, and the operation    *)
(* goes on to its cleanup.  All operations hold rpmb_mutex: there is one   *)
(* at a time.  The file that a handle stands for exists while the handle   *)
(* does (the table of persistent objects sees to that).                    *)
(***************************************************************************)
EXTENDS Naturals, Sequences, FiniteSets, FiniteSetsExt

CONSTANTS Names,        \* object names; each also has a temporary file
          Vals,         \* what a block may hold
          Contents,     \* what files are created with
          Bufs,         \* what is written later
          Zero,
          MaxAddr,      \* the size of the partition, its first block apart
          MaxLen,       \* bound on the length of a file
          TmpBlock,     \* TMP_BLOCK_SIZE, in blocks
          CacheEntries, \* CFG_RPMB_FS_CACHE_ENTRIES
          RdEntries,    \* CFG_RPMB_FS_RD_ENTRIES
          Allow,        \* what else callers may do: see below
          None

Files == Names \X {"tmp", "obj"}

Entries == [file : Files \cup {None}, start : Nat, size : Nat,
            active : BOOLEAN, last : BOOLEAN]

(***************************************************************************)
(* "overwrite": writes of more than a block that end before the file does; *)
(* "leftover": a create while a temporary file of that name is left over   *)
(* from a stop.                                                            *)
(***************************************************************************)
ASSUME RpmbFsAssumption ==
  /\ MaxAddr \in Nat \ {0} /\ MaxLen \in Nat /\ TmpBlock \in Nat \ {0}
  /\ CacheEntries \in Nat /\ RdEntries \in Nat \ {0}
  /\ Allow \subseteq {"overwrite", "leftover"}
  /\ Zero \notin Entries /\ Vals \cap Entries = {}
  /\ Contents \subseteq Seq(Vals) /\ \A x \in Contents : Len(x) \in 1 .. MaxLen
  /\ Bufs \subseteq Seq(Vals) \ {<<>>}
  /\ None \notin Seq(Vals \cup {Zero})

VARIABLES mem,      \* the blocks of the partition
          cache,    \* fat_entry_dir between traversals: the first entries
          op,       \* the call in progress, or None
          stage,    \* the part of it that is being carried out
          todo      \* the writes that are left of that part

vars == <<mem, cache, op, stage, todo>>

Addrs == 1 .. MaxAddr

Cleared == [file |-> None, start |-> 0, size |-> 0, active |-> FALSE,
            last |-> FALSE]

LastEntry == [Cleared EXCEPT !.last = TRUE]

NewEntry(f) == [Cleared EXCEPT !.file = f, !.active = TRUE]

Init ==
  /\ mem = [a \in Addrs |-> IF a = 1 THEN LastEntry ELSE Zero]
  /\ cache = <<>>
  /\ op = None
  /\ stage = "none"
  /\ todo = <<>>

-----------------------------------------------------------------------------
(***************************************************************************)
(* The table: from the cache as far as that goes, then from the device.    *)
(***************************************************************************)
Entry(a) == IF a <= Len(cache) THEN cache[a] ELSE mem[a]

Table == [a \in Addrs |-> Entry(a)]

LastAddr(T) ==
  CHOOSE a \in Addrs : T[a].last /\ \A b \in 1 .. a - 1 : ~T[b].last

Fat == 1 .. LastAddr(Table)

Slot(f) == {a \in Fat : Entry(a).active /\ Entry(a).file = f}

Exists(f) == Slot(f) # {}

SlotOf(f) == Min(Slot(f))

(***************************************************************************)
(* fat_entry_dir_init(), _get_next(), _deinit(): a traversal as far as     *)
(* entry k reads entries RdEntries at a time; the first ones are kept.     *)
(***************************************************************************)
Buffered(k) ==
  LET n == Min({CacheEntries, RdEntries})
  IN  IF k <= n THEN n ELSE n + RdEntries * ((k - n + RdEntries - 1) \div RdEntries)

Traversed(k) ==
  LET n == IF CacheEntries = 0 THEN 0 ELSE Min({CacheEntries, Buffered(k)})
  IN  [a \in 1 .. IF n > Len(cache) THEN n ELSE Len(cache) |-> Entry(a)]

(***************************************************************************)
(* read_fat() with a pool: the space that is taken, the table and, if the  *)
(* table has to be expanded, its next entry included.  tee_mm_alloc() from *)
(* the top takes the highest place that is free.                           *)
(***************************************************************************)
Region(e) == IF e.active THEN e.start .. e.start + e.size - 1 ELSE {}

MutantTaken == UNION {Region(Entry(a)) : a \in Fat}

Taken == Fat \cup UNION {Region(Entry(a)) : a \in Fat}

Places(n) == {s \in Addrs : /\ s + n - 1 <= MaxAddr
                            /\ s .. s + n - 1 \cap Taken = {}}

-----------------------------------------------------------------------------
Put(a, b) == <<a, b>>

Writes(s, x) == [i \in 1 .. Len(x) |-> Put(s + i - 1, x[i])]

Content(e, m) == [i \in 1 .. e.size |-> m[e.start + i - 1]]

(***************************************************************************)
(* update_write_helper(): the new contents, TmpBlock blocks at a time; old *)
(* data is read for those that begin before pos.                           *)
(***************************************************************************)
Updated(x, pos, buf) ==
  [i \in 1 .. Max({pos + Len(buf), Len(x)}) |->
     IF i > pos /\ i <= pos + Len(buf) THEN buf[i - pos]
     ELSE IF i <= Len(x) /\ TmpBlock * ((i - 1) \div TmpBlock) < pos THEN x[i]
     ELSE Zero]

(***************************************************************************)
(* The file moves to the place s and then its entry is written.            *)
(***************************************************************************)
MutantMovedFirst(f, s, x) ==
  << Put(SlotOf(f), [Entry(SlotOf(f)) EXCEPT !.start = s, !.size = Len(x)]) >>
    \o Writes(s, x)

MutantMovedSameSize(f, s, x) ==
  LET e == Entry(SlotOf(f))
  IN  Writes(s, x)
        \o << Put(SlotOf(f), [e EXCEPT !.start = s,
                              !.size = IF @ = 0 THEN Len(x) ELSE @]) >>

Moved(f, s, x) ==
  Writes(s, x) \o << Put(SlotOf(f), [Entry(SlotOf(f)) EXCEPT
                                       !.start = s, !.size = Len(x)]) >>
-----------------------------------------------------------------------------
(***************************************************************************)
(* rpmb_fs_open_internal() with create: the first entry not in use, which  *)
(* may be the last one.  The table is then expanded first, if it can be:   *)
(* if there is room, and memory.  The handle has the entry either way.     *)
(***************************************************************************)
Free == Min({a \in Fat : ~Entry(a).active})

Expands == Free = LastAddr(Table)

Room == Free + 1 \in Addrs \ Taken

OpenFile(o) ==
  LET new == ~Exists(o.file)
  IN  /\ op' = [o EXCEPT !.slot = IF new THEN Free ELSE SlotOf(o.file)]
      /\ \/ /\ stage' = IF new /\ Expands THEN "full" ELSE "fail"
            /\ todo' = <<>>
         \/ /\ new /\ Expands => Room
            /\ stage' = "open"
            /\ todo' = IF ~new THEN <<>>
                       ELSE (IF Expands THEN << Put(Free + 1, LastEntry) >>
                                        ELSE <<>>)
                              \o << Put(Free, NewEntry(o.file)) >>
      /\ cache' = Traversed(LastAddr(Table))
      /\ UNCHANGED mem

(***************************************************************************)
(* rpmb_fs_write_primitive(): in place if that is one block of the file,   *)
(* else all of the file to a new place.                                    *)
(***************************************************************************)
InPlace(e, pos, buf) == pos + Len(buf) <= e.size /\ Len(buf) = 1

WriteFile(f, pos, buf, st) ==
  LET e == Entry(SlotOf(f))
      x == Updated(Content(e, mem), pos, buf)
  IN  /\ IF InPlace(e, pos, buf)
           THEN todo' = << Put(e.start + pos, buf[1]) >> /\ stage' = st
           ELSE IF Places(Len(x)) # {}
           THEN todo' = Moved(f, Max(Places(Len(x))), x) /\ stage' = st
           ELSE todo' = <<>> /\ stage' = "fail"
      /\ cache' = Traversed(LastAddr(Table))
      /\ UNCHANGED mem

(***************************************************************************)
(* rpmb_fs_rename_internal()                                               *)
(***************************************************************************)
RenameFile(f, g, over, st) ==
  /\ IF Exists(g) /\ ~over
       THEN todo' = <<>> /\ stage' = "fail"
       ELSE /\ todo' = (IF Exists(g) THEN << Put(SlotOf(g), Cleared) >> ELSE <<>>)
                        \o << Put(SlotOf(f), [Entry(SlotOf(f)) EXCEPT !.file = g]) >>
            /\ stage' = st
  /\ cache' = Traversed(IF Exists(g) THEN Max({SlotOf(f), SlotOf(g)})
                                    ELSE LastAddr(Table))
  /\ UNCHANGED mem

(***************************************************************************)
(* rpmb_fs_remove_internal() of the file opened in entry slot.             *)
(***************************************************************************)
RemoveFile(f, slot, st) ==
  /\ todo' = << Put(IF Exists(f) THEN SlotOf(f) ELSE slot, Cleared) >>
  /\ stage' = st
  /\ cache' = Traversed(IF Exists(f) THEN SlotOf(f) ELSE LastAddr(Table))
  /\ UNCHANGED mem

-----------------------------------------------------------------------------
(***************************************************************************)
(* The operations of the file system.                                      *)
(***************************************************************************)
Tmp(n) == <<n, "tmp">>
Obj(n) == <<n, "obj">>

OpOf(k, f, x, over) ==
  [kind |-> k, file |-> f, data |-> x, over |-> over, slot |-> 0]

CallCreate ==
  \E n \in Names, x \in Contents, over \in BOOLEAN :
    /\ op = None
    /\ Exists(Tmp(n)) => "leftover" \in Allow
    /\ OpenFile(OpOf("create", Tmp(n), x, over))

CallRawOpen ==
  \E n \in Names :
    /\ op = None
    /\ OpenFile(OpOf("raw", Obj(n), <<>>, FALSE))

CallWrite ==
  \E n \in Names, pos \in 0 .. MaxLen, buf \in Bufs :
    /\ op = None /\ Exists(Obj(n))
    /\ pos + Len(buf) <= MaxLen
    /\ \/ Len(buf) = 1
       \/ pos + Len(buf) >= Entry(SlotOf(Obj(n))).size
       \/ "overwrite" \in Allow
    /\ op' = OpOf("write", Obj(n), buf, FALSE)
    /\ WriteFile(Obj(n), pos, buf, "only")

(***************************************************************************)
(* rpmb_fs_truncate(): a shorter file stays where it is.                   *)
(***************************************************************************)
Extended(x, n) == [i \in 1 .. n |-> IF i <= Len(x) THEN x[i] ELSE Zero]

CallTruncate ==
  \E n \in Names, len \in 0 .. MaxLen :
    LET f == Obj(n)
        e == Entry(SlotOf(f))
    IN  /\ op = None /\ Exists(f)
        /\ op' = OpOf("truncate", f, <<>>, FALSE)
        /\ IF len <= e.size
             THEN /\ todo' = << Put(SlotOf(f), [e EXCEPT !.size = len]) >>
                  /\ stage' = "only"
                  /\ cache' = Traversed(SlotOf(f))
             ELSE /\ IF Places(len) # {}
                       THEN /\ todo' = Moved(f, Max(Places(len)),
                                             Extended(Content(e, mem), len))
                            /\ stage' = "only"
                       ELSE todo' = <<>> /\ stage' = "fail"
                  /\ cache' = Traversed(LastAddr(Table))
        /\ UNCHANGED mem

CallRemove ==
  \E n \in Names :
    /\ op = None /\ Exists(Obj(n))
    /\ op' = OpOf("remove", Obj(n), <<>>, FALSE)
    /\ RemoveFile(Obj(n), 0, "only")

CallRename ==
  \E n, m \in Names, over \in BOOLEAN :
    /\ op = None /\ Exists(Obj(n)) /\ n # m
    /\ op' = OpOf("rename", Obj(n), <<>>, over)
    /\ RenameFile(Obj(n), Obj(m), over, "only")

(***************************************************************************)
(* rpmb_fs_read(), rpmb_fs_open(): a traversal up to the file;             *)
(* rpmb_fs_opendir(): all of the table.                                    *)
(***************************************************************************)
Lookup ==
  /\ op = None
  /\ \E k \in Fat : cache' = Traversed(k)
  /\ UNCHANGED <<mem, op, stage, todo>>

-----------------------------------------------------------------------------
(***************************************************************************)
(* A block is written; a table entry also in the cache, if it is there.    *)
(***************************************************************************)
MutantWriteBlock ==
  /\ todo # <<>>
  /\ mem' = [mem EXCEPT ![todo[1][1]] = todo[1][2]]
  /\ todo' = Tail(todo)
  /\ UNCHANGED <<cache, op, stage>>

WriteBlock ==
  /\ todo # <<>>
  /\ LET a == todo[1][1]
         b == todo[1][2]
     IN  /\ mem' = [mem EXCEPT ![a] = b]
         /\ cache' = IF b \notin Vals \cup {Zero} /\ a <= Len(cache)
                       THEN [cache EXCEPT ![a] = b] ELSE cache
  /\ todo' = Tail(todo)
  /\ UNCHANGED <<op, stage>>

Return ==
  /\ op' = None
  /\ stage' = "none"
  /\ todo' = <<>>
  /\ UNCHANGED <<mem, cache>>

(***************************************************************************)
(* rpmb_fs_create(): the head and then the rest are written to the         *)
(* temporary file, which is renamed.  An error of a create, or of          *)
(* tee_rpmb_fs_raw_open(), removes the file.                               *)
(***************************************************************************)
CreateGoesOn ==
  /\ op # None /\ todo = <<>>
  /\ op.kind = "create"
  /\ \/ stage = "open" /\ WriteFile(op.file, 0, << op.data[1] >>, "head")
     \/ stage = "head" /\ Len(op.data) > 1
          /\ WriteFile(op.file, 1, Tail(op.data), "data")
     \/ /\ stage = "data" \/ (stage = "head" /\ Len(op.data) = 1)
        /\ RenameFile(op.file, Obj(op.file[1]), op.over, "rename")
  /\ UNCHANGED op

Undo ==
  /\ op # None /\ stage \in {"fail", "full"}
  /\ op.kind \in {"create", "raw"}
  /\ RemoveFile(op.file, op.slot, IF stage = "full" THEN "cut" ELSE "undo")
  /\ UNCHANGED op

(***************************************************************************)
(* After a failed expansion the handle still has the last entry of the     *)
(* table, which the cleanup clears: the table has no end any more.  What   *)
(* the file system makes of the blocks that follow is not modelled.        *)
(***************************************************************************)
Cut == stage = "cut" /\ todo = <<>>

(***************************************************************************)
(* An access fails and changes nothing: a write that is not sent, or a     *)
(* read before the next part of a create, or in the cleanup.               *)
(***************************************************************************)
AccessFails ==
  /\ op # None
  /\ \/ todo # <<>>
     \/ stage \in {"open", "head", "data"} /\ op.kind = "create"
     \/ stage \in {"fail", "full"} /\ op.kind \in {"create", "raw"}
  /\ stage' = CASE stage \in {"fail", "full", "undo", "cut"} -> "only"
                [] stage = "open" /\ Len(todo) = 2 -> "full"
                [] OTHER -> "fail"
  /\ todo' = <<>>
  /\ UNCHANGED <<mem, cache, op>>

OpReturns ==
  /\ op # None /\ todo = <<>>
  /\ \/ stage \in {"only", "rename", "undo"}
     \/ stage = "open" /\ op.kind = "raw"
     \/ stage = "fail" /\ op.kind \notin {"create", "raw"}
  /\ Return

(***************************************************************************)
(* The device stops, or cannot be reached any more, and is started again.  *)
(***************************************************************************)
Stop ==
  /\ op # None \/ cache # <<>>
  /\ cache' = <<>>
  /\ IF Cut THEN UNCHANGED <<op, stage, todo>>
            ELSE op' = None /\ stage' = "none" /\ todo' = <<>>
  /\ UNCHANGED mem

Call ==
  \/ CallCreate \/ CallRawOpen \/ CallWrite \/ CallTruncate \/ CallRemove
  \/ CallRename \/ Lookup

Next ==
  Call \/ WriteBlock \/ CreateGoesOn \/ Undo \/ AccessFails \/ OpReturns \/ Stop

Spec == Init /\ [][Next]_vars

-----------------------------------------------------------------------------
(***************************************************************************)
(* Properties                                                              *)
(***************************************************************************)
Blocks == Entries \cup Vals \cup {Zero}

IsEntry(b) == b \notin Vals \cup {Zero}

TableEnds ==
  \E a \in Addrs : IsEntry(mem[a]) /\ mem[a].last
                   /\ \A b \in 1 .. a : IsEntry(mem[b])

(***************************************************************************)
(* The table ends with an entry flagged FILE_IS_LAST_ENTRY, all before it  *)
(* are entries, and the contents of files lie apart from each other and    *)
(* from the table: no write to one file, whenever it stops or fails, can   *)
(* damage another.  Only the cleanup of a create whose expansion of the    *)
(* table failed ends that.                                                 *)
(***************************************************************************)
LayoutSound ==
  ~Cut =>
    /\ TableEnds
    /\ LET F == 1 .. LastAddr(mem)
       IN  \A a, b \in F :
             /\ a # b => Region(mem[a]) \cap Region(mem[b]) = {}
             /\ Region(mem[a]) \cap F = {}

(***************************************************************************)
(* What the cache says of the table is what the device holds, whatever has *)
(* been created, moved, renamed or removed since it was read.              *)
(***************************************************************************)
CacheFresh ==
  ~Cut => \A a \in 1 .. LastAddr(mem) : a <= Len(cache) => cache[a] = mem[a]

(***************************************************************************)
(* Every operation but the creation of an object is one change of the      *)
(* files, wherever the device stops; a creation is the same operations on  *)
(* the temporary file, and a rename that removes the file it replaces.     *)
(* Where the table loses its end all files are lost.                       *)
(***************************************************************************)
InDev(f) ==
  {a \in 1 .. LastAddr(mem) : mem[a].active /\ mem[a].file = f}

FileIs(f) == IF InDev(f) = {} THEN None ELSE Content(mem[Min(InDev(f))], mem)

Store == INSTANCE FileStore WITH
  Absent <- None,
  Bufs <- Bufs \cup {<<x[1]>> : x \in Contents} \cup {Tail(x) : x \in Contents},
  usable <- ~Cut,
  files <- [f \in Files |-> IF Cut THEN None ELSE FileIs(f)]

ImplementsFileStore == Store!Spec

(***************************************************************************)
(* A create that returns TEE_SUCCESS has made the file as it was asked to. *)
(***************************************************************************)
CreateExact ==
  op # None /\ stage = "rename" /\ todo = <<>> =>
    FileIs(Obj(op.file[1])) = op.data
=============================================================================
