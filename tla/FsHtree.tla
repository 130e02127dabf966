------------------------------ MODULE FsHtree ------------------------------
(***************************************************************************)
(* The hash tree of secure storage, core/tee/fs_htree.c, as tee_ree_fs.c   *)
(* uses it for one file: a binary tree of nodes, node b standing for data  *)
(* block b - 1, with two versions of the header, of every node and of      *)
(* every block in storage, so that an update can be cut short anywhere.    *)
(*                                                                         *)
(* Each RPC to the normal world's storage is one step; between any two of  *)
(* them the device may stop, or an RPC may fail and the tree be freed.     *)
(* A hash is the tuple of what is hashed, so it is free of collisions; a   *)
(* block's authentication tag stands for the one ciphertext it matches.    *)
(***************************************************************************)
EXTENDS Integers, Sequences, FiniteSets

CONSTANTS Uses,         \* the uses of a file to consider, see Kinds
          GoesOn,       \* TRUE if the caller goes on with the open file
                        \* after a truncation of it or the commit of the
                        \* directory file has failed
          None

Kinds ==
  [caller    : {"user",         \* a user's file, whose root hash is kept in
                "dir"},         \* the directory file, which itself passes NULL
   truncates : BOOLEAN,         \* the caller also shrinks the file
   nodes     : Nat \ {0},       \* bound on the number of nodes
   writes    : Nat]             \* bound on block writes and truncations

ASSUME FsHtreeAssumption ==
  /\ Uses \subseteq Kinds
  /\ GoesOn \in BOOLEAN
  /\ None \notin Seq(Int)

VARIABLES
  use,      \* the one of Uses; never changes
  opened,   \* the caller has the tree in memory
  ht,       \* struct tee_fs_htree: the tree in memory
  disk,     \* the storage: head, node and block, two versions of each
  pc,       \* which tree operation is under way
  hash,     \* the root hash the last open or sync gave the caller
  known,    \* the root hash the caller has committed in the directory file
  writes    \* block writes and truncations so far; also the data written

vars == <<use, opened, ht, disk, pc, hash, known, writes>>

Nodes == 1 .. use.nodes

UseHash == use.caller = "user"

(***************************************************************************)
(* struct tee_fs_htree_node_image: the committed version of the block and  *)
(* of the two children (flags), the block's tag, and the node's hash.      *)
(***************************************************************************)
NoHash == << >>

ZeroImage == [block |-> 0, child |-> <<0, 0>>, tag |-> -1, hash |-> NoHash]

Parent(n) == n \div 2
Side(n) == (n % 2) + 1

(***************************************************************************)
(* The root is always there, even while max_node_id is 0.                  *)
(***************************************************************************)
Exists(h, n) == n = 1 \/ n <= h.max_node_id

(***************************************************************************)
(* calc_node_hash(): the flags, iv and tag, the meta data in the root, and *)
(* the hashes of the children there are.                                   *)
(***************************************************************************)
ChildHash(h, n) == IF Exists(h, n) THEN <<h.node[n].hash>> ELSE << >>

CalcNodeHash(h, n) ==
  <<h.node[n].block, h.node[n].child, h.node[n].tag,
    IF n = 1 THEN h.length ELSE -1,
    ChildHash(h, 2 * n) \o ChildHash(h, 2 * n + 1)>>

-----------------------------------------------------------------------------
(***************************************************************************)
(* Opening.  get_idx_from_counter() picks the header by its counter;       *)
(* init_head_from_data() does so only if no root hash is given.            *)
(***************************************************************************)
IdxFromCounter(c0, c1) ==
  IF c0 % 2 = 0
    THEN IF c1 % 2 = 0 \/ c0 > c1 THEN 0 ELSE 1
    ELSE IF c1 % 2 = 1 THEN 1 ELSE -1

HeadIdx ==
  IF UseHash
    THEN IF disk.node[1][0].hash = known THEN 0
         ELSE IF disk.node[1][1].hash = known THEN 1 ELSE -1
    ELSE IdxFromCounter(disk.head[0].counter, disk.head[1].counter)

(***************************************************************************)
(* init_tree_from_data(): the parent's flag tells which version of a node  *)
(* is committed.                                                           *)
(***************************************************************************)
LoadedNodes(idx) ==
  LET img[n \in Nodes] ==
        IF n = 1 THEN disk.node[1][idx]
        ELSE IF n <= disk.head[idx].max_node_id
               THEN disk.node[n][img[Parent(n)].child[Side(n)]]
               ELSE ZeroImage
  IN  img

Loaded(idx) ==
  [node |-> LoadedNodes(idx), counter |-> disk.head[idx].counter,
   max_node_id |-> disk.head[idx].max_node_id,
   length |-> disk.head[idx].length, dirty |-> {}, block_updated |-> {},
   ht_dirty |-> FALSE]

(***************************************************************************)
(* verify_root() authenticates the header together with the root hash and  *)
(* verify_tree() compares every node with its hash.                        *)
(***************************************************************************)
Verified(h, idx) ==
  /\ disk.head[idx].root = h.node[1].hash
  /\ \A n \in Nodes : Exists(h, n) => h.node[n].hash = CalcNodeHash(h, n)

Opens == HeadIdx # -1 /\ Verified(Loaded(HeadIdx), HeadIdx)

(***************************************************************************)
(* tee_fs_htree_read_block() of each block: -1 where the block or its node *)
(* is missing or the block does not match the tag.                         *)
(***************************************************************************)
Content(h) ==
  [b \in 1 .. h.length |->
     IF Exists(h, b) /\ disk.block[b][h.node[b].block] = h.node[b].tag
       THEN h.node[b].tag
       ELSE -1]

-----------------------------------------------------------------------------
(***************************************************************************)
(* tee_fs_htree_open() with create: an empty tree, about to be synced.     *)
(***************************************************************************)
BlankHead == [counter |-> 0, max_node_id |-> 0, length |-> 0, root |-> NoHash]

EmptyTree ==
  [node |-> [n \in Nodes |-> ZeroImage], counter |-> 0, max_node_id |-> 0,
   length |-> 0, dirty |-> {1}, block_updated |-> {}, ht_dirty |-> TRUE]

Init ==
  /\ use \in Uses
  /\ opened = TRUE
  /\ ht = [EmptyTree EXCEPT !.node[1].hash = CalcNodeHash(EmptyTree, 1)]
  /\ disk = [head |-> [v \in 0 .. 1 |-> BlankHead],
             node |-> [n \in Nodes |-> [v \in 0 .. 1 |-> ZeroImage]],
             block |-> [n \in Nodes |-> [v \in 0 .. 1 |-> 0]]]
  /\ pc = "create"
  /\ hash = NoHash
  /\ known = NoHash
  /\ writes = 0

(***************************************************************************)
(* Somebody will look for the file: its root hash or, without one, its     *)
(* creation is complete.                                                   *)
(***************************************************************************)
Referenced == IF UseHash THEN known # NoHash ELSE pc \notin {"create", "dummy"}

Open ==
  /\ ~opened
  /\ Opens
  /\ opened' = TRUE
  /\ ht' = Loaded(HeadIdx)
  /\ hash' = disk.node[1][HeadIdx].hash
  /\ UNCHANGED <<use, disk, pc, known, writes>>

(***************************************************************************)
(* tee_fs_htree_close(), by the caller, because an RPC failed, or because  *)
(* the device stopped: the tree in memory is gone.                         *)
(***************************************************************************)
Close ==
  /\ opened
  /\ Referenced
  /\ opened' = FALSE
  /\ pc' = "idle"
  /\ UNCHANGED <<use, ht, disk, hash, known, writes>>

-----------------------------------------------------------------------------
(***************************************************************************)
(* The caller starts an update when the previous one is over: it has       *)
(* recorded the root hash of the last sync (ree_fs_write(), set_name())    *)
(* and no failed truncation has left the tree cut off.  If commit_dirh_    *)
(* writes() or the truncation failed the file is still open, and nothing   *)
(* stops the caller from going on with it.                                 *)
(***************************************************************************)
CutOff == ht.ht_dirty /\ ht.dirty = {}

Idle ==
  /\ opened
  /\ pc = "idle"
  /\ GoesOn \/ ((UseHash => known \in {NoHash, hash}) /\ ~CutOff)

(***************************************************************************)
(* Mutant: the version of the block is switched at every write.            *)
(***************************************************************************)
MutantBlockVersion(h, b) == 1 - h.node[b].block

(***************************************************************************)
(* The first write of a block since the last sync goes to the version that *)
(* is not committed, further ones to the same.                             *)
(***************************************************************************)
BlockVersion(h, b) ==
  IF b \in h.block_updated THEN h.node[b].block ELSE 1 - h.node[b].block

(***************************************************************************)
(* Mutant: the root is not marked.                                         *)
(***************************************************************************)
MutantMetaSetDirty(h) == [h EXCEPT !.ht_dirty = TRUE]

(***************************************************************************)
(* tee_fs_htree_meta_set_dirty(): the meta data is hashed with the root.   *)
(***************************************************************************)
MetaSetDirty(h) == [h EXCEPT !.ht_dirty = TRUE, !.dirty = @ \cup {1}]

(***************************************************************************)
(* The nodes that get_node() adds, clean, so that there is a node b.       *)
(***************************************************************************)
Missing(b) == {n \in 2 .. b : n > ht.max_node_id}

(***************************************************************************)
(* One turn of the loop in out_of_place_write(), tee_fs_htree_write_block()*)
(* of block b - 1: the block is written with a new iv and tag, the length  *)
(* grows with the file.                                                    *)
(***************************************************************************)
WriteBlock(b) ==
  LET h == IF Exists(ht, b)
             THEN ht
             ELSE [ht EXCEPT !.node = [n \in Nodes |-> IF n \in Missing(b)
                                                         THEN ZeroImage
                                                         ELSE @[n]],
                             !.max_node_id = b]
      v == BlockVersion(h, b)
      w == [h EXCEPT !.node[b].block = v,
                     !.node[b].tag = writes + 1,
                     !.block_updated = @ \cup {b},
                     !.dirty = @ \cup {b},
                     !.ht_dirty = TRUE]
  IN  /\ Idle
      /\ b <= ht.length + 1
      /\ writes < use.writes
      /\ writes' = writes + 1
      /\ disk' = [disk EXCEPT !.block[b][v] = writes']
      /\ ht' = IF b > ht.length THEN MetaSetDirty([w EXCEPT !.length = b])
                                ELSE w
      /\ UNCHANGED <<use, opened, pc, hash, known>>

(***************************************************************************)
(* tee_fs_htree_truncate() keeps the nodes up to that of block l and frees *)
(* the others.                                                             *)
(***************************************************************************)
TruncatedTree(l) ==
  IF l + 1 < ht.max_node_id
    THEN [ht EXCEPT !.max_node_id = l + 1, !.ht_dirty = TRUE]
    ELSE ht

(***************************************************************************)
(* ree_fs_ftruncate_internal() to l blocks: the tree, then the storage,    *)
(* then the meta data; ree_fs_truncate() goes on to sync.  It is called on *)
(* a file that has its name and no block write to be synced.               *)
(***************************************************************************)
MayTruncate(l) ==
  /\ use.truncates
  /\ Idle
  /\ Referenced
  /\ ht.dirty = {}
  /\ l <= ht.length

Truncate(l) ==
  /\ MayTruncate(l)
  /\ writes < use.writes
  /\ writes' = writes + 1
  /\ disk' = [disk EXCEPT !.block =
                [n \in Nodes |-> IF n > l + 1 THEN [v \in 0 .. 1 |-> 0]
                                              ELSE @[n]]]
  /\ ht' = MetaSetDirty([TruncatedTree(l) EXCEPT !.length = l])
  /\ pc' = "sync"
  /\ UNCHANGED <<use, opened, hash, known>>

(***************************************************************************)
(* The same if the truncate RPC fails: the tree stays truncated, and the   *)
(* next write syncs it.                                                    *)
(***************************************************************************)
TruncateFails(l) ==
  /\ MayTruncate(l)
  /\ ht' = TruncatedTree(l)
  /\ UNCHANGED <<use, opened, disk, pc, hash, known, writes>>

-----------------------------------------------------------------------------
(***************************************************************************)
(* tee_fs_htree_sync_to_storage(): children before parents.  Only a write  *)
(* of zero bytes gets here with no dirty node, after a failed truncation.  *)
(***************************************************************************)
Sync ==
  /\ Idle
  /\ ht.ht_dirty
  /\ pc' = "sync"
  /\ UNCHANGED <<use, opened, ht, disk, hash, known, writes>>

(***************************************************************************)
(* In post order all nodes below n come before n: a set of clean nodes     *)
(* holds the children of n and with each node its children.                *)
(***************************************************************************)
Children(n) == {m \in Nodes : Parent(m) = n}

CleanBelow(n) ==
  \E S \in SUBSET (Nodes \ ht.dirty) :
    \A m \in S \cup {n} : Children(m) \subseteq S

Syncing == opened /\ pc \in {"sync", "create"}

(***************************************************************************)
(* The version a node is written to: the other one of those the parent's   *)
(* flag chooses between; for the root the counter to come decides.         *)
(***************************************************************************)
NodeVersion(n) ==
  IF n = 1 THEN 1 - (ht.counter % 2)
           ELSE 1 - ht.node[Parent(n)].child[Side(n)]

(***************************************************************************)
(* Mutant: a written node still counts as having an updated block.         *)
(***************************************************************************)
MutantClean(h, n) == [h EXCEPT !.dirty = @ \ {n}]

Clean(h, n) == [h EXCEPT !.dirty = @ \ {n}, !.block_updated = @ \ {n}]

(***************************************************************************)
(* htree_sync_node_to_storage() for a dirty node n, in post order.  The    *)
(* model lets disjoint subtrees be written in either order.                *)
(***************************************************************************)
SyncNode(n) ==
  LET v == NodeVersion(n)
      h == IF n = 1
             THEN ht
             ELSE [ht EXCEPT !.dirty = @ \cup {Parent(n)},
                             !.node[Parent(n)].child[Side(n)] = v]
      img == [h.node[n] EXCEPT !.hash = CalcNodeHash(h, n)]
  IN  /\ Syncing
      /\ n \in ht.dirty
      /\ CleanBelow(n)
      /\ ht' = Clean([h EXCEPT !.node[n] = img], n)
      /\ disk' = [disk EXCEPT !.node[n][v] = img]
      /\ UNCHANGED <<use, opened, pc, hash, known, writes>>

(***************************************************************************)
(* update_root() and the write of the header complete the sync.            *)
(***************************************************************************)
WriteHead ==
  LET c == ht.counter + 1
      hd == [counter |-> c, max_node_id |-> ht.max_node_id,
             length |-> ht.length, root |-> ht.node[1].hash]
  IN  /\ Syncing
      /\ ht.dirty = {}
      /\ disk' = [disk EXCEPT !.head[c % 2] = hd]
      /\ ht' = [ht EXCEPT !.counter = c, !.ht_dirty = FALSE]
      /\ hash' = ht.node[1].hash
      /\ pc' = IF pc = "create" THEN "dummy" ELSE "idle"
      /\ UNCHANGED <<use, opened, known, writes>>

(***************************************************************************)
(* The last step of tee_fs_htree_open() with create: a header 0 that is    *)
(* older than header 1.                                                    *)
(***************************************************************************)
WriteDummyHead ==
  /\ opened
  /\ pc = "dummy"
  /\ disk' = [disk EXCEPT !.head[0] = BlankHead]
  /\ pc' = "idle"
  /\ UNCHANGED <<use, opened, ht, hash, known, writes>>

(***************************************************************************)
(* The caller's tee_fs_dirfile_update_hash() and commit_dirh_writes(): the *)
(* directory file now has the root hash of the last sync.                  *)
(***************************************************************************)
CommitHash ==
  /\ UseHash
  /\ opened
  /\ pc = "idle"
  /\ ~ht.ht_dirty
  /\ known # hash
  /\ known' = hash
  /\ UNCHANGED <<use, opened, ht, disk, pc, hash, writes>>

Next ==
  \/ Open
  \/ Close
  \/ \E b \in Nodes : WriteBlock(b)
  \/ \E l \in 0 .. use.nodes : Truncate(l) \/ TruncateFails(l)
  \/ Sync
  \/ \E n \in Nodes : SyncNode(n)
  \/ WriteHead
  \/ WriteDummyHead
  \/ CommitHash

Spec == Init /\ [][Next]_vars

-----------------------------------------------------------------------------
(***************************************************************************)
(* Properties                                                              *)
(***************************************************************************)
TypeOK ==
  /\ use \in Uses
  /\ opened \in BOOLEAN
  /\ pc \in {"idle", "sync", "create", "dummy"}
  /\ writes \in 0 .. use.writes
  /\ \A n \in Nodes : /\ ht.node[n].block \in 0 .. 1
                      /\ ht.node[n].child \in (0 .. 1) \X (0 .. 1)
                      /\ ht.node[n].tag \in -1 .. use.writes
  /\ ht.max_node_id \in 0 .. use.nodes
  /\ ht.length \in 0 .. use.nodes
  /\ ht.block_updated \subseteq ht.dirty
  /\ ht.dirty \subseteq Nodes

(***************************************************************************)
(* When all is synced and the root hash is recorded, a fresh open verifies *)
(* every node and finds the length the writer has given the file, however  *)
(* writes, truncations and failed truncations came before.                 *)
(***************************************************************************)
AtRest == opened /\ pc = "idle" /\ ~ht.ht_dirty /\ (UseHash => known = hash)

SyncedFileOpens ==
  AtRest => Opens /\ Loaded(HeadIdx).length = ht.length

(***************************************************************************)
(* At every moment, whatever has reached the storage, the file as of the   *)
(* last commit can be opened: a header is found, and the header and every  *)
(* node verify (fs_htree.h: the on-disk data structures are duplicated to  *)
(* make updates atomic).                                                   *)
(***************************************************************************)
CommittedVerifies == Referenced => Opens

(***************************************************************************)
(* ... and so can every one of its blocks be read: no write, sync or       *)
(* truncation touches a block of the committed file before the commit.     *)
(***************************************************************************)
CommittedBlocksPresent ==
  Referenced /\ Opens =>
    LET c == Content(Loaded(HeadIdx)) IN \A b \in DOMAIN c : c[b] # -1

(***************************************************************************)
(* The tree and its two versions of everything implement a file that is    *)
(* committed in one step: what an open finds in storage changes only when  *)
(* a sync completes (or the root hash is recorded), and then to what the   *)
(* writer has read and written; a crash loses exactly the uncommitted.     *)
(* It is claimed of files that are not truncated: the others are left out, *)
(* as a file that is never touched.                                        *)
(***************************************************************************)
CommittedFile ==
  IF ~use.truncates /\ Referenced /\ Opens THEN Content(Loaded(HeadIdx)) ELSE None

WorkingCopy ==
  IF use.truncates THEN << >> ELSE IF opened THEN Content(ht) ELSE None

Data == UNION {1 .. u.writes : u \in Uses}

Abstract ==
  INSTANCE AtomicFile
    WITH Data <- Data, file <- CommittedFile, copy <- WorkingCopy

ImplementsAtomicFile == Abstract!Spec
=============================================================================
