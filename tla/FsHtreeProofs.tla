--------------------------- MODULE FsHtreeProofs ----------------------------
(***************************************************************************)
(* Proofs about the hash tree of secure storage: its types for every use,  *)
(* and for files that are not truncated that what has been committed       *)
(* verifies at every moment and that an update happens as a whole or not   *)
(* at all, for trees of any size.                                          *)
(***************************************************************************)
EXTENDS FsHtree, FiniteSetTheorems, TLAPS

-----------------------------------------------------------------------------
(***************************************************************************)
(* A finite set of numbers has a least element, so that what fails of a    *)
(* node fails of a first one.                                              *)
(***************************************************************************)
LEMMA LeastExists ==
  ASSUME NEW S, S \subseteq Nat, IsFiniteSet(S), S # {}
  PROVE  \E x \in S : \A y \in S : x =< y
<1> DEFINE Bad == {U \in SUBSET S : U # {} /\ ~ \E x \in U : \A y \in U : x =< y}
<1> HIDE DEF Bad
<1>1. IsWellFoundedOn(StrictSubsetOrdering(S), SUBSET S)
  BY FS_StrictSubsetOrderingWellFounded, FS_FiniteSubsetsOfFinite
<1>2. ASSUME Bad # {} PROVE FALSE
  <2>1. PICK U \in Bad : \A W \in Bad : ~ (<<W, U>> \in StrictSubsetOrdering(S))
    <3>1. Bad \subseteq SUBSET S
      BY DEF Bad
    <3>. QED BY <1>1, <1>2, <3>1, WFMin
  <2>2. PICK e \in U : TRUE
    BY DEF Bad
  <2>3. U \ {e} \notin Bad
    BY <2>1, <2>2 DEF StrictSubsetOrdering, Bad
  <2>4. CASE U \ {e} = {}
    BY <2>2, <2>4 DEF Bad
  <2>5. CASE \E x \in U \ {e} : \A y \in U \ {e} : x =< y
    <3>1. PICK x \in U \ {e} : \A y \in U \ {e} : x =< y
      BY <2>5
    <3>2. x \in Nat /\ e \in Nat
      BY <2>2 DEF Bad
    <3>3. CASE x =< e
      BY <3>1, <3>3 DEF Bad
    <3>4. CASE e =< x
      BY <2>2, <3>1, <3>2, <3>4 DEF Bad
    <3>. QED BY <3>2, <3>3, <3>4
  <2>. QED BY <2>2, <2>3, <2>4, <2>5 DEF Bad
<1>. QED BY <1>2 DEF Bad

-----------------------------------------------------------------------------
(***************************************************************************)
(* A node image, with a tag that is not newer than the last of w writes.   *)
(***************************************************************************)
Image(i, w) ==
  /\ i = [block |-> i.block, child |-> i.child, tag |-> i.tag, hash |-> i.hash]
  /\ i.block \in 0 .. 1
  /\ i.child \in (0 .. 1) \X (0 .. 1)
  /\ i.tag \in -1 .. w

(***************************************************************************)
(* A tree in memory: only nodes there are can be marked, and a node whose  *)
(* block is updated is dirty.                                              *)
(***************************************************************************)
Tree(h, w) ==
  /\ h = [node |-> h.node, counter |-> h.counter,
          max_node_id |-> h.max_node_id, length |-> h.length,
          dirty |-> h.dirty, block_updated |-> h.block_updated,
          ht_dirty |-> h.ht_dirty]
  /\ h.node = [n \in Nodes |-> h.node[n]]
  /\ \A n \in Nodes : Image(h.node[n], w)
  /\ h.counter \in Nat
  /\ h.max_node_id \in 0 .. use.nodes
  /\ h.length \in 0 .. use.nodes
  /\ h.dirty \subseteq Nodes
  /\ h.block_updated \subseteq h.dirty
  /\ h.ht_dirty \in BOOLEAN

(***************************************************************************)
(* A header in storage.                                                    *)
(***************************************************************************)
Header(d) ==
  /\ d = [counter |-> d.counter, max_node_id |-> d.max_node_id,
          length |-> d.length, root |-> d.root]
  /\ d.counter \in Nat
  /\ d.max_node_id \in 0 .. use.nodes
  /\ d.length \in 0 .. use.nodes

(***************************************************************************)
(* The storage: two versions of the header, of every node and of every     *)
(* block.                                                                  *)
(***************************************************************************)
Stored(d, w) ==
  /\ d = [head |-> d.head, node |-> d.node, block |-> d.block]
  /\ d.head = [v \in 0 .. 1 |-> d.head[v]]
  /\ \A v \in 0 .. 1 : Header(d.head[v])
  /\ d.node = [n \in Nodes |-> d.node[n]]
  /\ \A n \in Nodes : d.node[n] = [v \in 0 .. 1 |-> d.node[n][v]]
  /\ \A n \in Nodes, v \in 0 .. 1 : Image(d.node[n][v], w)
  /\ d.block \in [Nodes -> [0 .. 1 -> 0 .. w]]

(***************************************************************************)
(* The whole state, for every use of the file.                             *)
(***************************************************************************)
Shape ==
  /\ use \in Uses
  /\ opened \in BOOLEAN
  /\ pc \in {"idle", "sync", "create", "dummy"}
  /\ writes \in 0 .. use.writes
  /\ Tree(ht, writes)
  /\ Stored(disk, writes)

(***************************************************************************)
(* The version of the header that the tree in memory was read from or last *)
(* written to, and the nodes that header leads to in storage.              *)
(***************************************************************************)
Idx == ht.counter % 2
Base == LoadedNodes(Idx)
(***************************************************************************)
(* A file that is not truncated has a node for each of its blocks, no      *)
(* more; only the root is there without being counted.                     *)
(***************************************************************************)
Sized(h) == h.max_node_id = h.length \/ (h.max_node_id = 0 /\ h.length = 1)

(***************************************************************************)
(* The version of node n that its parent chooses.                          *)
(***************************************************************************)
Flag(f, n) == f[Parent(n)].child[Side(n)]

(***************************************************************************)
(* The blocks in storage match the tags in the nodes f.                    *)
(***************************************************************************)
Present(f, len) ==
  \A n \in 1 .. len : disk.block[n][f[n].block] = f[n].tag

(***************************************************************************)
(* What version v of the header leads to is a complete file: it verifies,  *)
(* node by node, and its blocks are there.                                 *)
(***************************************************************************)
Sound(v) ==
  /\ Sized(disk.head[v])
  /\ disk.head[v].counter % 2 = v
  /\ Verified(Loaded(v), v)
  /\ Present(LoadedNodes(v), disk.head[v].length)

(***************************************************************************)
(* The tree in memory holds at least what was committed; the nodes that    *)
(* are not there are as get_node() will make them.                         *)
(***************************************************************************)
Grown ==
  /\ Sized(ht)
  /\ disk.head[Idx].max_node_id <= ht.max_node_id
  /\ disk.head[Idx].length <= ht.length
  /\ disk.head[Idx].counter = ht.counter
  /\ Sized(disk.head[Idx])
  /\ \A n \in Nodes : ~Exists(ht, n) => ht.node[n] = ZeroImage /\ n \notin ht.dirty

(***************************************************************************)
(* A clean node is in storage, in the version that its parent in memory    *)
(* chooses ...                                                             *)
(***************************************************************************)
Written ==
  \A n \in 2 .. ht.max_node_id :
    n \notin ht.dirty => disk.node[n][Flag(ht.node, n)] = ht.node[n]

(***************************************************************************)
(* ... and carries its hash, unless a child is yet to be written.          *)
(***************************************************************************)
Hashed ==
  \A n \in Nodes :
    Exists(ht, n) /\ n \notin ht.dirty /\ Children(n) \cap ht.dirty = {}
      => ht.node[n].hash = CalcNodeHash(ht, n)

(***************************************************************************)
(* A node in memory chooses another version of a child than the committed  *)
(* tree only once that child and all below it are written: so every dirty  *)
(* node is still to be written to the version that the committed tree does *)
(* not use.                                                                *)
(***************************************************************************)
Apart ==
  \A n \in 2 .. disk.head[Idx].max_node_id :
    Flag(ht.node, n) # Flag(Base, n) => n \notin ht.dirty /\ CleanBelow(n)

(***************************************************************************)
(* Until a sync begins the tree in memory differs from the committed one   *)
(* only in the blocks written since.                                       *)
(***************************************************************************)
Steady ==
  pc \in {"idle", "dummy"} =>
    \A n \in Nodes :
      /\ ht.node[n].child = Base[n].child
      /\ (ht.node[n].block = Base[n].block) = (n \notin ht.block_updated)
      /\ n \notin ht.dirty => ht.node[n] = Base[n]

(***************************************************************************)
(* A dirty root will get a hash that differs from the committed one:       *)
(* init_head_from_data() tells the two versions of the root apart by it.   *)
(***************************************************************************)
RootDiffers ==
  1 \in ht.dirty /\ pc # "create" =>
    \/ ht.node[1].tag # Base[1].tag
    \/ ht.node[1].child # Base[1].child
    \/ ht.length # disk.head[Idx].length

(***************************************************************************)
(* When a sync has written all nodes, the root is in the version the new   *)
(* header will choose.                                                     *)
(***************************************************************************)
RootWritten ==
  pc \in {"sync", "create"} /\ ht.dirty = {} =>
    /\ disk.node[1][1 - Idx] = ht.node[1]
    /\ disk.node[1][0].hash # disk.node[1][1].hash

(***************************************************************************)
(* Where the tree stands in its life: clean exactly when all is synced,    *)
(* and the counters of a file that is being created.                       *)
(***************************************************************************)
Clock ==
  /\ pc \in {"idle", "dummy"} => ht.ht_dirty = (ht.dirty # {})
  /\ pc \in {"idle", "dummy"} /\ ~ht.ht_dirty =>
       /\ ht.length = disk.head[Idx].length
       /\ ht.max_node_id = disk.head[Idx].max_node_id
  /\ pc = "create" => ht.counter = 0 /\ disk.head[0].counter = 0 /\ ht.block_updated = {}
        /\ disk.node[1][0].hash = NoHash
  /\ pc = "dummy" => ht.counter = 1 /\ disk.head[0].counter = 0 /\ ~ht.ht_dirty

(***************************************************************************)
(* All of this while the file is open.                                     *)
(***************************************************************************)
Updating ==
  /\ Grown /\ Written /\ Hashed /\ Apart /\ Steady /\ RootDiffers
  /\ RootWritten /\ Clock
  /\ Present(ht.node, ht.length)
  /\ pc # "create" =>
       Sound(Idx) /\ hash = disk.node[1][Idx].hash /\ hash # NoHash

(***************************************************************************)
(* What the storage and the caller's record of the root hash say together, *)
(* open or not: what a reader will choose is a complete file.              *)
(***************************************************************************)
Commits ==
  /\ pc # "create" => disk.node[1][0].hash # disk.node[1][1].hash
  /\ Referenced => HeadIdx \in 0 .. 1 /\ Sound(HeadIdx)
  /\ opened /\ UseHash /\ (ht.ht_dirty \/ pc # "idle") => known \in {NoHash, hash}
  /\ ~UseHash /\ Referenced =>
       /\ disk.head[0].counter % 2 = 0 /\ disk.head[1].counter % 2 = 1
       /\ opened => HeadIdx = Idx
  /\ ~opened => Referenced /\ pc = "idle"
  /\ pc \in {"create", "dummy"} => known = NoHash

(***************************************************************************)
(* The inductive invariant of a file that is not truncated.                *)
(***************************************************************************)
Inv == (opened => Updating) /\ Commits

-----------------------------------------------------------------------------
(***************************************************************************)
(* The nodes and their numbers.                                            *)
(***************************************************************************)
LEMMA NodeNumbers ==
  ASSUME Shape
  PROVE  /\ use.nodes \in Nat \ {0} /\ use.writes \in Nat
         /\ use.truncates \in BOOLEAN /\ use.caller \in {"user", "dir"}
         /\ 1 \in Nodes
         /\ \A n \in Nodes : n \in Nat /\ n >= 1 /\ n <= use.nodes /\ Side(n) \in 1 .. 2
         /\ \A n \in Nodes \ {1} : Parent(n) \in Nodes /\ Parent(n) < n
         /\ Children(1) \cup {1} \subseteq Nodes
<1>1. use \in Kinds
  BY FsHtreeAssumption DEF Shape
<1>2. use.nodes \in Nat \ {0} /\ use.writes \in Nat /\ use.truncates \in BOOLEAN
        /\ use.caller \in {"user", "dir"}
  BY <1>1 DEF Kinds
<1>. QED BY <1>2 DEF Nodes, Parent, Side, Children

(***************************************************************************)
(* A set of nodes without a first element is empty.                        *)
(***************************************************************************)
LEMMA FirstNode ==
  ASSUME Shape, NEW S, S \subseteq Nodes, S # {}
  PROVE  \E x \in S : \A y \in S : x =< y
<1>1. use.nodes \in Nat
  BY NodeNumbers
<1>2. IsFiniteSet(1 .. use.nodes)
  BY <1>1, FS_Interval
<1>3. S \subseteq Nat /\ IsFiniteSet(S)
  BY <1>2, FS_Subset, NodeNumbers DEF Nodes
<1>. QED BY <1>3, LeastExists

(***************************************************************************)
(* init_tree_from_data() is well defined: there is one tree that takes     *)
(* every node from the version its parent names.                           *)
(***************************************************************************)
Follows(d, v, f, n) ==
  f[n] = IF n = 1 THEN d.node[1][v]
         ELSE IF n <= d.head[v].max_node_id
                THEN d.node[n][f[Parent(n)].child[Side(n)]]
                ELSE ZeroImage

(***************************************************************************)
(* The nodes f are what storage d holds under version v of the header.     *)
(***************************************************************************)
Solves(d, v, f) ==
  /\ f = [n \in Nodes |-> f[n]]
  /\ \A n \in Nodes : Follows(d, v, f, n)

(***************************************************************************)
(* There is at most one such tree: a first node that differs would have a  *)
(* parent that does not.                                                   *)
(***************************************************************************)
LEMMA SolutionsEqual ==
  ASSUME Shape, NEW d, NEW v, NEW f, NEW g, Solves(d, v, f), Solves(d, v, g)
  PROVE  f = g
<1> DEFINE Bad == {n \in Nodes : f[n] # g[n]}
<1> HIDE DEF Bad
<1>1. ASSUME Bad # {} PROVE FALSE
  <2>1. PICK n \in Bad : \A m \in Bad : n =< m
    BY <1>1, FirstNode DEF Bad
  <2>2. n \in Nodes /\ f[n] # g[n]
    BY <2>1 DEF Bad
  <2>3. n # 1
    BY <2>2 DEF Solves, Follows
  <2>4. Parent(n) \in Nodes /\ Parent(n) < n /\ n \in Nat /\ Parent(n) \in Nat
    BY <2>2, <2>3, NodeNumbers
  <2>5. f[Parent(n)] = g[Parent(n)]
    BY <2>1, <2>4 DEF Bad
  <2>. QED BY <2>2, <2>3, <2>5 DEF Solves, Follows
<1>2. \A n \in Nodes : f[n] = g[n]
  BY <1>1 DEF Bad
<1>. QED BY <1>2 DEF Solves

(***************************************************************************)
(* And there is one: it is built up to each node in turn.                  *)
(***************************************************************************)
LEMMA SolutionExists ==
  ASSUME Shape, NEW d, NEW v
  PROVE  \E f : Solves(d, v, f)
<1> DEFINE Next1(f, n) ==
             IF n = 1 THEN d.node[1][v]
             ELSE IF n <= d.head[v].max_node_id
                    THEN d.node[n][f[Parent(n)].child[Side(n)]]
                    ELSE ZeroImage
           Upto(k) == \E f : \A n \in 1 .. k : f[n] = Next1(f, n)
           Bad == {k \in Nodes : ~Upto(k)}
<1> HIDE DEF Bad, Upto, Next1
<1>1. ASSUME NEW f, NEW g, NEW n \in Nodes, n # 1 => f[Parent(n)] = g[Parent(n)]
      PROVE  Next1(f, n) = Next1(g, n)
  BY <1>1 DEF Next1
<1>2. ASSUME Bad # {} PROVE FALSE
  <2>1. PICK k \in Bad : \A m \in Bad : k =< m
    BY <1>2, FirstNode DEF Bad
  <2>2. k \in Nodes /\ ~Upto(k) /\ k \in Nat /\ k >= 1
    BY <2>1, NodeNumbers DEF Bad
  <2>3. PICK f : \A n \in 1 .. k - 1 : f[n] = Next1(f, n)
    <3>1. CASE k = 1
      BY <3>1
    <3>2. CASE k # 1
      <4>1. k - 1 \in Nodes /\ k - 1 \in Nat /\ k - 1 < k
        BY <2>2, <3>2, NodeNumbers DEF Nodes
      <4>2. k - 1 \notin Bad
        BY <2>1, <2>2, <4>1
      <4>. QED BY <4>1, <4>2 DEF Bad, Upto
    <3>. QED BY <3>1, <3>2
  <2> DEFINE g == [n \in Nodes |-> IF n = k THEN Next1(f, k) ELSE f[n]]
  <2>4. ASSUME NEW n \in 1 .. k
        PROVE  g[n] = Next1(g, n)
    <3>1. n \in Nodes /\ n \in Nat /\ (n # k => n \in 1 .. k - 1)
      BY <2>2, NodeNumbers DEF Nodes
    <3>2. n # 1 => Parent(n) \in Nodes /\ Parent(n) # k
      BY <2>2, <3>1, NodeNumbers
    <3>3. n # 1 => f[Parent(n)] = g[Parent(n)]
      BY <3>2
    <3>4. Next1(f, n) = Next1(g, n)
      BY <1>1, <3>1, <3>3
    <3>. QED BY <2>3, <3>1, <3>4
  <2>. QED BY <2>2, <2>4 DEF Upto
<1>3. use.nodes \in Nodes /\ 1 .. use.nodes = Nodes
  BY NodeNumbers DEF Nodes
<1>4. PICK f : \A n \in Nodes : f[n] = Next1(f, n)
  BY <1>2, <1>3 DEF Bad, Upto
<1> DEFINE g == [n \in Nodes |-> f[n]]
<1>5. ASSUME NEW n \in Nodes
      PROVE  g[n] = Next1(g, n)
  <2>1. n # 1 => f[Parent(n)] = g[Parent(n)]
    BY NodeNumbers
  <2>. QED BY <1>1, <1>4, <2>1
<1>6. Solves(d, v, g)
  BY <1>5 DEF Solves, Follows, Next1
<1>. QED BY <1>6

(***************************************************************************)
(* So the recursive definition of loading means what it says.              *)
(***************************************************************************)
LEMMA LoadedIs ==
  ASSUME Shape, NEW v
  PROVE  Solves(disk, v, LoadedNodes(v))
<1>1. PICK f : Solves(disk, v, f)
  BY SolutionExists
<1>2. f = [n \in Nodes |-> IF n = 1 THEN disk.node[1][v]
             ELSE IF n <= disk.head[v].max_node_id
                    THEN disk.node[n][f[Parent(n)].child[Side(n)]]
                    ELSE ZeroImage]
  BY <1>1 DEF Solves, Follows
<1>3. LoadedNodes(v) = [n \in Nodes |-> IF n = 1 THEN disk.node[1][v]
             ELSE IF n <= disk.head[v].max_node_id
                    THEN disk.node[n][LoadedNodes(v)[Parent(n)].child[Side(n)]]
                    ELSE ZeroImage]
  BY <1>2 DEF LoadedNodes
<1> HIDE DEF LoadedNodes
<1>. QED BY <1>3 DEF Solves, Follows

-----------------------------------------------------------------------------
(***************************************************************************)
(* The types.                                                              *)
(***************************************************************************)
LEMMA ZeroImageIs ==
  ASSUME NEW w \in Nat
  PROVE  Image(ZeroImage, w)
BY DEF Image, ZeroImage

(***************************************************************************)
(* What is read from well-formed storage is a well-formed tree: the parent *)
(* of every node chooses one of two versions.                              *)
(***************************************************************************)
LEMMA LoadedShape ==
  ASSUME Shape, NEW v \in 0 .. 1
  PROVE  Tree(Loaded(v), writes)
<1>1. Solves(disk, v, LoadedNodes(v))
  BY LoadedIs
<1> DEFINE f == LoadedNodes(v)
<1> HIDE DEF f
<1>2. writes \in Nat
  BY NodeNumbers DEF Shape
<1> DEFINE Bad == {n \in Nodes : ~Image(f[n], writes)}
<1> HIDE DEF Bad
<1>3. ASSUME Bad # {} PROVE FALSE
  <2>1. PICK n \in Bad : \A m \in Bad : n =< m
    BY <1>3, FirstNode DEF Bad
  <2>2. n \in Nodes /\ ~Image(f[n], writes)
    BY <2>1 DEF Bad
  <2>3. Follows(disk, v, f, n)
    BY <1>1, <2>2 DEF Solves, f
  <2>4. \A m \in Nodes, w \in 0 .. 1 : Image(disk.node[m][w], writes)
    BY DEF Shape, Stored
  <2>5. CASE n = 1
    BY <2>2, <2>3, <2>4, <2>5 DEF Follows
  <2>6. CASE n # 1
    <3>1. Parent(n) \in Nodes /\ Parent(n) < n /\ n \in Nat /\ Parent(n) \in Nat
           /\ Side(n) \in 1 .. 2
      BY <2>2, <2>6, NodeNumbers
    <3>2. Image(f[Parent(n)], writes)
      BY <2>1, <3>1 DEF Bad
    <3>3. f[Parent(n)].child[Side(n)] \in 0 .. 1
      BY <3>1, <3>2 DEF Image
    <3>. QED BY <1>2, <2>2, <2>3, <2>4, <2>6, <3>3, ZeroImageIs DEF Follows
  <2>. QED BY <2>5, <2>6
<1>4. \A n \in Nodes : Image(f[n], writes)
  BY <1>3 DEF Bad
<1>5. f = [n \in Nodes |-> f[n]]
  BY <1>1 DEF Solves, f
<1>6. Header(disk.head[v])
  BY DEF Shape, Stored
<1>7. /\ Loaded(v).node = f /\ Loaded(v).counter \in Nat
      /\ Loaded(v).max_node_id \in 0 .. use.nodes
      /\ Loaded(v).length \in 0 .. use.nodes
      /\ Loaded(v).dirty = {} /\ Loaded(v).block_updated = {}
      /\ Loaded(v).ht_dirty = FALSE
  BY <1>6 DEF Loaded, f, Header
<1>8. Loaded(v) = [node |-> Loaded(v).node, counter |-> Loaded(v).counter,
          max_node_id |-> Loaded(v).max_node_id, length |-> Loaded(v).length,
          dirty |-> Loaded(v).dirty, block_updated |-> Loaded(v).block_updated,
          ht_dirty |-> Loaded(v).ht_dirty]
  BY DEF Loaded
<1> HIDE DEF Loaded
<1>. QED BY <1>4, <1>5, <1>7, <1>8 DEF Tree

(***************************************************************************)
(* A tree that opens was found in one of the two versions.                 *)
(***************************************************************************)
LEMMA HeadIdxIs ==
  ASSUME Opens PROVE HeadIdx \in 0 .. 1
<1>1. HeadIdx \in {-1, 0, 1}
  BY DEF HeadIdx, IdxFromCounter
<1>. QED BY <1>1 DEF Opens

(***************************************************************************)
(* A file is created in the right shape.                                   *)
(***************************************************************************)
LEMMA InitShape == Init => Shape
<1> SUFFICES ASSUME Init PROVE Shape
  OBVIOUS
<1>1. use \in Kinds /\ writes = 0
  BY FsHtreeAssumption DEF Init
<1>2. use.nodes \in Nat \ {0} /\ use.writes \in Nat
  BY <1>1 DEF Kinds
<1>3. Image(ZeroImage, 0)
  BY ZeroImageIs
<1>4. Tree(ht, writes)
  <2>1. ht = [EmptyTree EXCEPT !.node[1].hash = CalcNodeHash(EmptyTree, 1)]
    BY DEF Init
  <2> DEFINE x == CalcNodeHash(EmptyTree, 1)
  <2> HIDE DEF x
  <2>2. /\ ht.node = [[n \in Nodes |-> ZeroImage] EXCEPT ![1] = [ZeroImage EXCEPT !.hash = x]]
        /\ ht.counter = 0 /\ ht.max_node_id = 0 /\ ht.length = 0
        /\ ht.dirty = {1} /\ ht.block_updated = {} /\ ht.ht_dirty = TRUE
    BY <1>2, <2>1 DEF EmptyTree, x, Nodes
  <2>3. ht = [node |-> ht.node, counter |-> ht.counter,
          max_node_id |-> ht.max_node_id, length |-> ht.length,
          dirty |-> ht.dirty, block_updated |-> ht.block_updated,
          ht_dirty |-> ht.ht_dirty]
    BY <2>1 DEF EmptyTree
  <2>4. Image([ZeroImage EXCEPT !.hash = x], 0)
    BY DEF Image, ZeroImage
  <2>5. ht.node = [n \in Nodes |-> ht.node[n]] /\ \A n \in Nodes : Image(ht.node[n], 0)
    BY <1>2, <1>3, <2>2, <2>4 DEF Nodes
  <2>6. ht.dirty \subseteq Nodes
    BY <1>2, <2>2 DEF Nodes
  <2>7. ht.counter \in Nat /\ ht.max_node_id \in 0 .. use.nodes
          /\ ht.length \in 0 .. use.nodes /\ ht.block_updated \subseteq ht.dirty
    BY <1>2, <2>2
  <2>8. ht.ht_dirty \in BOOLEAN
    BY <2>2
  <2>. QED BY <1>1, <2>3, <2>5, <2>6, <2>7, <2>8 DEF Tree
<1>5. Stored(disk, writes)
  <2>1. /\ disk = [head |-> [v \in 0 .. 1 |-> BlankHead],
             node |-> [n \in Nodes |-> [v \in 0 .. 1 |-> ZeroImage]],
             block |-> [n \in Nodes |-> [v \in 0 .. 1 |-> 0]]]
    BY DEF Init
  <2>2. Header(BlankHead)
    BY <1>2 DEF Header, BlankHead
  <2>3. /\ disk.head = [v \in 0 .. 1 |-> BlankHead]
        /\ disk.node = [n \in Nodes |-> [v \in 0 .. 1 |-> ZeroImage]]
        /\ disk.block = [n \in Nodes |-> [v \in 0 .. 1 |-> 0]]
        /\ disk = [head |-> disk.head, node |-> disk.node, block |-> disk.block]
    BY <2>1
  <2>. QED BY <1>1, <1>3, <2>2, <2>3 DEF Stored
<1>. QED BY <1>1, <1>2, <1>4, <1>5 DEF Init, Shape

-----------------------------------------------------------------------------
(***************************************************************************)
(* What each step does to the tree and the storage, field by field.        *)
(***************************************************************************)
LEMMA PrimedTree ==
  ASSUME use' = use, Tree(ht', writes')
  PROVE  Tree(ht, writes)'
BY DEF Tree, Image, Nodes

(***************************************************************************)
(* The same for the storage.                                               *)
(***************************************************************************)
LEMMA PrimedStored ==
  ASSUME use' = use, Stored(disk', writes')
  PROVE  Stored(disk, writes)'
BY DEF Stored, Image, Header, Nodes

(***************************************************************************)
(* A step that changes neither tree nor storage keeps the shape.           *)
(***************************************************************************)
LEMMA QuietShape ==
  ASSUME Shape, UNCHANGED <<use, ht, disk, writes>>, opened' \in BOOLEAN,
         pc' \in {"idle", "sync", "create", "dummy"}
  PROVE  Shape'
BY DEF Shape, Tree, Stored, Image, Header, Nodes

(***************************************************************************)
(* Opening loads a well-formed tree.                                       *)
(***************************************************************************)
LEMMA OpenShape ==
  ASSUME Shape, Open
  PROVE  Shape'
<1>1. HeadIdx \in 0 .. 1 /\ ht' = Loaded(HeadIdx)
  BY HeadIdxIs DEF Open
<1>2. Tree(ht', writes)
  BY <1>1, LoadedShape
<1>. QED BY <1>2, PrimedTree, PrimedStored DEF Open, Shape

(***************************************************************************)
(* The header of the version to come takes the tree's counter and sizes.   *)
(***************************************************************************)
WriteHeadEffect ==
  /\ ht'.node = ht.node /\ ht'.counter = ht.counter + 1
  /\ ht'.max_node_id = ht.max_node_id /\ ht'.length = ht.length
  /\ ht'.dirty = {} /\ ht.dirty = {}
  /\ ht'.block_updated = {} /\ ht'.ht_dirty = FALSE
  /\ disk'.node = disk.node /\ disk'.block = disk.block
  /\ LET c == (ht.counter + 1) % 2
     IN  /\ disk'.head[c].counter = ht.counter + 1
         /\ disk'.head[c].max_node_id = ht.max_node_id
         /\ disk'.head[c].length = ht.length
         /\ disk'.head[c].root = ht.node[1].hash
         /\ \A v \in 0 .. 1 : v # c => disk'.head[v] = disk.head[v]

(***************************************************************************)
(* That is what the write of the header does.                              *)
(***************************************************************************)
LEMMA WriteHeadShape ==
  ASSUME Shape, WriteHead
  PROVE  Shape' /\ WriteHeadEffect
<1> DEFINE c == (ht.counter + 1) % 2
           hd == [counter |-> ht.counter + 1, max_node_id |-> ht.max_node_id,
                  length |-> ht.length, root |-> ht.node[1].hash]
<1>1. /\ ht' = [ht EXCEPT !.counter = ht.counter + 1, !.ht_dirty = FALSE]
      /\ disk' = [disk EXCEPT !.head[c] = hd]
      /\ ht.dirty = {}
      /\ use' = use /\ writes' = writes /\ opened' = opened
      /\ pc' \in {"idle", "dummy"}
  BY DEF WriteHead
<1>2. /\ ht'.node = ht.node /\ ht'.counter = ht.counter + 1
      /\ ht'.max_node_id = ht.max_node_id /\ ht'.length = ht.length
      /\ ht'.dirty = ht.dirty
      /\ ht'.block_updated = ht.block_updated /\ ht'.ht_dirty = FALSE
      /\ ht' = [node |-> ht'.node, counter |-> ht'.counter,
                max_node_id |-> ht'.max_node_id, length |-> ht'.length,
                dirty |-> ht'.dirty, block_updated |-> ht'.block_updated,
                ht_dirty |-> ht'.ht_dirty]
  BY <1>1 DEF Shape, Tree
<1>3. ht.counter \in Nat /\ c \in 0 .. 1
  BY DEF Shape, Tree
<1>4. Header(hd)
  BY <1>3 DEF Shape, Tree, Header
<1>5. /\ disk'.node = disk.node /\ disk'.block = disk.block
      /\ disk'.head = [disk.head EXCEPT ![c] = hd]
      /\ disk' = [head |-> disk'.head, node |-> disk'.node, block |-> disk'.block]
  BY <1>1 DEF Shape, Stored
<1>6. /\ disk'.head = [v \in 0 .. 1 |-> disk'.head[v]]
      /\ \A v \in 0 .. 1 : disk'.head[v] = IF v = c THEN hd ELSE disk.head[v]
  BY <1>3, <1>5 DEF Shape, Stored
<1>7. \A v \in 0 .. 1 : Header(disk'.head[v])
  BY <1>4, <1>6 DEF Shape, Stored
<1>8. Tree(ht', writes)
  <2>1. ht'.counter \in Nat
    BY <1>2, <1>3
  <2>2. ht'.ht_dirty \in BOOLEAN
    BY <1>2
  <2>. QED BY <1>1, <1>2, <2>1, <2>2 DEF Shape, Tree
<1>9. Stored(disk', writes)
  BY <1>1, <1>5, <1>6, <1>7 DEF Shape, Stored
<1>10. Shape'
  BY <1>1, <1>8, <1>9, PrimedTree, PrimedStored DEF Shape
<1>11. WriteHeadEffect
  <2>1. ht'.block_updated = {}
    BY <1>1, <1>2 DEF Shape, Tree
  <2>2. disk'.head[c] = hd
    BY <1>3, <1>6
  <2>. QED BY <1>1, <1>2, <1>3, <1>5, <1>6, <2>1, <2>2 DEF WriteHeadEffect
<1>. QED BY <1>10, <1>11

(***************************************************************************)
(* Only header 0 changes when a creation is completed.                     *)
(***************************************************************************)
LEMMA WriteDummyHeadShape ==
  ASSUME Shape, WriteDummyHead
  PROVE  /\ Shape'
         /\ disk'.node = disk.node /\ disk'.block = disk.block
         /\ disk'.head[0] = BlankHead /\ disk'.head[1] = disk.head[1]
<1>1. /\ disk' = [disk EXCEPT !.head[0] = BlankHead]
      /\ use' = use /\ writes' = writes /\ opened' = opened /\ ht' = ht
      /\ pc' = "idle"
  BY DEF WriteDummyHead
<1>2. Header(BlankHead)
  BY NodeNumbers DEF Header, BlankHead
<1>3. /\ disk'.node = disk.node /\ disk'.block = disk.block
      /\ disk'.head = [disk.head EXCEPT ![0] = BlankHead]
      /\ disk' = [head |-> disk'.head, node |-> disk'.node, block |-> disk'.block]
  BY <1>1 DEF Shape, Stored
<1>8. disk.head = [v \in 0 .. 1 |-> disk.head[v]]
  BY DEF Shape, Stored
<1> HIDE DEF BlankHead
<1>4. /\ disk'.head = [v \in 0 .. 1 |-> disk'.head[v]]
      /\ disk'.head[0] = BlankHead /\ disk'.head[1] = disk.head[1]
  <2>1. /\ disk'.head = [v \in 0 .. 1 |-> disk'.head[v]]
        /\ \A v \in 0 .. 1 : disk'.head[v] = IF v = 0 THEN BlankHead ELSE disk.head[v]
    BY <1>3, <1>8
  <2>. QED BY <2>1
<1>5. \A v \in 0 .. 1 : Header(disk'.head[v])
  BY <1>2, <1>4 DEF Shape, Stored
<1>6. Tree(ht', writes)
  BY <1>1 DEF Shape
<1>7. Stored(disk', writes)
  BY <1>1, <1>3, <1>4, <1>5 DEF Shape, Stored
<1>. QED BY <1>1, <1>3, <1>4, <1>6, <1>7, PrimedTree, PrimedStored DEF Shape

(***************************************************************************)
(* tee_fs_htree_write_block() of block b - 1, whose node is there or not.  *)
(***************************************************************************)
LEMMA ImageGrows ==
  ASSUME NEW i, NEW w \in Nat, Image(i, w)
  PROVE  Image(i, w + 1)
BY DEF Image

(***************************************************************************)
(* A block's new version and tag in a node image.                          *)
(***************************************************************************)
LEMMA ImageWrite ==
  ASSUME NEW i, i = [block |-> i.block, child |-> i.child, tag |-> i.tag, hash |-> i.hash],
         NEW x, NEW y, NEW k, k = [[i EXCEPT !.block = x] EXCEPT !.tag = y]
  PROVE  /\ k.block = x /\ k.child = i.child /\ k.tag = y /\ k.hash = i.hash
         /\ k = [block |-> k.block, child |-> k.child, tag |-> k.tag, hash |-> k.hash]
OBVIOUS

(***************************************************************************)
(* The tree after get_node() has added nodes.                              *)
(***************************************************************************)
GrownTree(f, m) == [ht EXCEPT !.node = f, !.max_node_id = m]

(***************************************************************************)
(* Nothing but the nodes and their number has changed in it.               *)
(***************************************************************************)
LEMMA TreeGrow ==
  ASSUME NEW w, Tree(ht, w), NEW f, NEW m, NEW x, x = GrownTree(f, m)
  PROVE  /\ x.node = f /\ x.max_node_id = m
         /\ x.counter = ht.counter /\ x.length = ht.length
         /\ x.ht_dirty = ht.ht_dirty
         /\ x.dirty = ht.dirty /\ x.block_updated = ht.block_updated
         /\ x = [node |-> x.node, counter |-> x.counter,
                 max_node_id |-> x.max_node_id, length |-> x.length,
                 dirty |-> x.dirty, block_updated |-> x.block_updated,
                 ht_dirty |-> x.ht_dirty]
BY DEF Tree, GrownTree

(***************************************************************************)
(* The tree after a block write.                                           *)
(***************************************************************************)
WrittenTree(h, b, v, t) ==
  [h EXCEPT !.node[b].block = v, !.node[b].tag = t,
            !.block_updated = @ \cup {b}, !.dirty = @ \cup {b},
            !.ht_dirty = TRUE]

(***************************************************************************)
(* Only the node of the block has changed in it, and it is marked.         *)
(***************************************************************************)
LEMMA NodeWrite ==
  ASSUME NEW h, NEW w \in Nat, Tree(h, w), NEW b \in Nodes, NEW v \in 0 .. 1,
         NEW t, t = w + 1, NEW g, g = WrittenTree(h, b, v, t)
  PROVE  /\ Tree(g, t)
         /\ \A n \in Nodes : n # b => g.node[n] = h.node[n]
         /\ g.node[b].block = v /\ g.node[b].tag = t
         /\ g.node[b].child = h.node[b].child
         /\ g.node[b].hash = h.node[b].hash
         /\ g.counter = h.counter /\ g.max_node_id = h.max_node_id
         /\ g.length = h.length
         /\ g.dirty = h.dirty \cup {b}
         /\ g.block_updated = h.block_updated \cup {b}
<1>1. /\ g.node = [[h.node EXCEPT ![b].block = v] EXCEPT ![b].tag = t]
      /\ g.counter = h.counter /\ g.max_node_id = h.max_node_id
      /\ g.length = h.length /\ g.ht_dirty = TRUE
      /\ g.dirty = h.dirty \cup {b}
      /\ g.block_updated = h.block_updated \cup {b}
      /\ g = [node |-> g.node, counter |-> g.counter,
              max_node_id |-> g.max_node_id, length |-> g.length,
              dirty |-> g.dirty, block_updated |-> g.block_updated,
              ht_dirty |-> g.ht_dirty]
  BY DEF Tree, WrittenTree
<1>2. h.node = [n \in Nodes |-> h.node[n]] /\ Image(h.node[b], w)
  BY DEF Tree
<1> DEFINE i == [[h.node[b] EXCEPT !.block = v] EXCEPT !.tag = t]
<1>3. /\ i.block = v /\ i.tag = t /\ i.child = h.node[b].child
      /\ i.hash = h.node[b].hash
      /\ i = [block |-> i.block, child |-> i.child, tag |-> i.tag, hash |-> i.hash]
  <2>1. PICK j : j = h.node[b]
    OBVIOUS
  <2>2. j = [block |-> j.block, child |-> j.child, tag |-> j.tag, hash |-> j.hash]
    BY <1>2, <2>1 DEF Image
  <2>3. i = [[j EXCEPT !.block = v] EXCEPT !.tag = t]
    BY <2>1
  <2> HIDE DEF i
  <2>. QED BY <2>1, <2>2, <2>3, ImageWrite
<1>4. Image(i, t)
  BY <1>2, <1>3 DEF Image
<1>5. /\ g.node = [n \in Nodes |-> g.node[n]]
      /\ g.node[b] = i
      /\ \A n \in Nodes \ {b} : g.node[n] = h.node[n]
  BY <1>1, <1>2
<1> HIDE DEF i
<1>6. \A n \in Nodes : Image(g.node[n], t)
  BY <1>4, <1>5, ImageGrows DEF Tree
<1>7. g.ht_dirty \in BOOLEAN
  BY <1>1
<1>8. g.dirty \subseteq Nodes /\ g.block_updated \subseteq g.dirty
  BY <1>1 DEF Tree
<1>9. g.counter \in Nat /\ g.max_node_id \in 0 .. use.nodes /\ g.length \in 0 .. use.nodes
  BY <1>1 DEF Tree
<1>10. Tree(g, t)
  BY <1>1, <1>5, <1>6, <1>7, <1>8, <1>9 DEF Tree
<1>. QED BY <1>1, <1>3, <1>5, <1>10

(***************************************************************************)
(* A node as the write of block b finds it.                                *)
(***************************************************************************)
Before(b, n) ==
  IF ~Exists(ht, b) /\ n \in Missing(b) THEN ZeroImage ELSE ht.node[n]

(***************************************************************************)
(* A block write changes one node, one version of one block, and the       *)
(* sizes.                                                                  *)
(***************************************************************************)
WriteBlockEffect(b) ==
  /\ \A n \in Nodes \ {b} : ht'.node[n] = Before(b, n)
  /\ ht'.node[b].block = IF b \in ht.block_updated THEN Before(b, b).block
                                                   ELSE 1 - Before(b, b).block
  /\ ht'.node[b].tag = writes + 1
  /\ ht'.node[b].child = Before(b, b).child
  /\ ht'.node[b].hash = Before(b, b).hash
  /\ ht'.counter = ht.counter
  /\ ht'.max_node_id = IF Exists(ht, b) THEN ht.max_node_id ELSE b
  /\ ht'.length = IF b > ht.length THEN b ELSE ht.length
  /\ ht'.dirty = ht.dirty \cup {b} \cup (IF b > ht.length THEN {1} ELSE {})
  /\ ht'.block_updated = ht.block_updated \cup {b}
  /\ ht'.ht_dirty = TRUE
  /\ disk'.head = disk.head /\ disk'.node = disk.node
  /\ \A n \in Nodes, v \in 0 .. 1 :
       disk'.block[n][v] = IF n = b /\ v = ht'.node[b].block
                             THEN writes + 1 ELSE disk.block[n][v]

(***************************************************************************)
(* That is what tee_fs_htree_write_block() does.                           *)
(***************************************************************************)
LEMMA WriteBlockShape ==
  ASSUME Shape, NEW b \in Nodes, WriteBlock(b)
  PROVE  Shape' /\ WriteBlockEffect(b)
<1> DEFINE x == [ht EXCEPT !.node = [n \in Nodes |-> IF n \in Missing(b)
                                                       THEN ZeroImage ELSE @[n]],
                           !.max_node_id = b]
           h == IF Exists(ht, b) THEN ht ELSE x
           v == BlockVersion(h, b)
           w == [h EXCEPT !.node[b].block = v,
                          !.node[b].tag = writes + 1,
                          !.block_updated = @ \cup {b},
                          !.dirty = @ \cup {b},
                          !.ht_dirty = TRUE]
<1>1. /\ writes < use.writes /\ writes' = writes + 1
      /\ disk' = [disk EXCEPT !.block[b][v] = writes']
      /\ ht' = IF b > ht.length THEN MetaSetDirty([w EXCEPT !.length = b]) ELSE w
      /\ use' = use /\ opened' = opened /\ pc' = pc
  BY DEF WriteBlock
<1>2. writes \in Nat /\ use.writes \in Nat /\ writes' \in 0 .. use.writes
      /\ use.nodes \in Nat /\ b \in Nat /\ b >= 1 /\ b <= use.nodes
  <2>1. use.writes \in Nat /\ use.nodes \in Nat /\ b \in Nat /\ b >= 1 /\ b <= use.nodes
    BY NodeNumbers
  <2>2. writes \in 0 .. use.writes
    BY DEF Shape
  <2> HIDE DEF x, h, v, w
  <2>. QED BY <1>1, <2>1, <2>2
<1>3. /\ Tree(h, writes)
      /\ \A n \in Nodes : h.node[n] = Before(b, n)
      /\ h.counter = ht.counter /\ h.length = ht.length
      /\ h.max_node_id = IF Exists(ht, b) THEN ht.max_node_id ELSE b
      /\ h.dirty = ht.dirty /\ h.block_updated = ht.block_updated
  <2>1. CASE Exists(ht, b)
    BY <2>1 DEF Shape, Before
  <2>2. CASE ~Exists(ht, b)
    <3>0. x = GrownTree([n \in Nodes |-> IF n \in Missing(b)
                                           THEN ZeroImage ELSE ht.node[n]], b)
      BY DEF GrownTree
    <3> HIDE DEF x
    <3>1. /\ x.node = [n \in Nodes |-> IF n \in Missing(b) THEN ZeroImage ELSE ht.node[n]]
          /\ x.counter = ht.counter /\ x.max_node_id = b
          /\ x.length = ht.length /\ x.ht_dirty = ht.ht_dirty
          /\ x.dirty = ht.dirty /\ x.block_updated = ht.block_updated
          /\ x = [node |-> x.node, counter |-> x.counter,
                  max_node_id |-> x.max_node_id, length |-> x.length,
                  dirty |-> x.dirty, block_updated |-> x.block_updated,
                  ht_dirty |-> x.ht_dirty]
      BY <3>0, TreeGrow DEF Shape
    <3>2. \A n \in Nodes : x.node[n] = Before(b, n)
      BY <2>2, <3>1 DEF Before
    <3>3. \A n \in Nodes : Image(x.node[n], writes)
      BY <1>2, <3>1, ZeroImageIs DEF Shape, Tree
    <3>4. x.node = [n \in Nodes |-> x.node[n]]
      BY <3>1
    <3>5. x.max_node_id \in 0 .. use.nodes
      BY <1>2, <3>1
    <3>6. x.counter \in Nat /\ x.length \in 0 .. use.nodes /\ x.dirty \subseteq Nodes
            /\ x.block_updated \subseteq x.dirty
      BY <3>1 DEF Shape, Tree
    <3>7. x.ht_dirty \in BOOLEAN
      BY <3>1 DEF Shape, Tree
    <3>8. Tree(x, writes)
      BY <3>1, <3>3, <3>4, <3>5, <3>6, <3>7 DEF Tree
    <3>. QED BY <2>2, <3>1, <3>2, <3>8
  <2>. QED BY <2>1, <2>2
<1> HIDE DEF x, h
<1>4. v \in 0 .. 1
  <2>1. Image(h.node[b], writes)
    BY <1>3 DEF Tree
  <2>. QED BY <2>1 DEF BlockVersion, Image
<1>5. v = IF b \in ht.block_updated THEN Before(b, b).block ELSE 1 - Before(b, b).block
  BY <1>3 DEF BlockVersion
<1> HIDE DEF v
<1>15. w = WrittenTree(h, b, v, writes + 1)
  BY DEF WrittenTree
<1> HIDE DEF w
<1>6. /\ Tree(w, writes + 1)
      /\ \A n \in Nodes \ {b} : w.node[n] = h.node[n]
      /\ w.node[b].block = v /\ w.node[b].tag = writes + 1
      /\ w.node[b].child = h.node[b].child
      /\ w.node[b].hash = h.node[b].hash
      /\ w.counter = h.counter /\ w.max_node_id = h.max_node_id
      /\ w.length = h.length
      /\ w.dirty = h.dirty \cup {b}
      /\ w.block_updated = h.block_updated \cup {b}
  <2>1. writes \in Nat /\ Tree(h, writes)
    BY <1>2, <1>3
  <2>2. PICK t, g, f, u : t = writes + 1 /\ g = w /\ f = h /\ u = v
    OBVIOUS
  <2>3. u \in 0 .. 1 /\ Tree(f, writes) /\ g = WrittenTree(f, b, u, t)
    BY <1>4, <1>15, <2>1, <2>2
  <2>4. Tree(g, t)
    BY <2>1, <2>2, <2>3, NodeWrite
  <2>5. \A n \in Nodes : n # b => g.node[n] = f.node[n]
    BY <2>3 DEF Tree, WrittenTree
  <2>6. /\ g.node[b].block = u /\ g.node[b].tag = t
        /\ g.node[b].child = f.node[b].child
        /\ g.node[b].hash = f.node[b].hash
        /\ g.counter = f.counter /\ g.max_node_id = f.max_node_id
        /\ g.length = f.length
    BY <2>1, <2>2, <2>3, NodeWrite
  <2>7. /\ g.dirty = f.dirty \cup {b}
        /\ g.block_updated = f.block_updated \cup {b}
    BY <2>3 DEF Tree, WrittenTree
  <2>. QED BY <2>2, <2>4, <2>5, <2>6, <2>7
<1>16. w.ht_dirty = TRUE
  <2>1. PICK g : g = h
    OBVIOUS
  <2>2. Tree(g, writes) /\ w = WrittenTree(g, b, v, writes + 1)
    BY <1>3, <1>15, <2>1
  <2>. QED BY <2>2 DEF Tree, WrittenTree
<1>7. /\ ht'.node = w.node /\ ht'.counter = w.counter
      /\ ht'.max_node_id = w.max_node_id
      /\ ht'.length = IF b > ht.length THEN b ELSE w.length
      /\ ht'.dirty = w.dirty \cup (IF b > ht.length THEN {1} ELSE {})
      /\ ht'.block_updated = w.block_updated
      /\ ht'.ht_dirty = TRUE
      /\ ht' = [node |-> ht'.node, counter |-> ht'.counter,
                max_node_id |-> ht'.max_node_id, length |-> ht'.length,
                dirty |-> ht'.dirty, block_updated |-> ht'.block_updated,
                ht_dirty |-> ht'.ht_dirty]
  BY <1>1, <1>6, <1>16 DEF Tree, MetaSetDirty
<1>8. Tree(ht', writes')
  <2>1. ht'.ht_dirty \in BOOLEAN
    BY <1>7
  <2>2. ht'.length \in 0 .. use.nodes
    BY <1>2, <1>6, <1>7 DEF Tree
  <2>3. ht'.dirty \subseteq Nodes /\ ht'.block_updated \subseteq ht'.dirty
    BY <1>6, <1>7, NodeNumbers DEF Tree
  <2>4. ht'.node = [n \in Nodes |-> ht'.node[n]] /\ \A n \in Nodes : Image(ht'.node[n], writes')
    BY <1>1, <1>6, <1>7 DEF Tree
  <2>5. ht'.counter \in Nat /\ ht'.max_node_id \in 0 .. use.nodes
    BY <1>6, <1>7 DEF Tree
  <2>. QED BY <1>7, <2>1, <2>2, <2>3, <2>4, <2>5 DEF Tree
<1>9. /\ disk'.head = disk.head /\ disk'.node = disk.node
      /\ disk'.block = [disk.block EXCEPT ![b][v] = writes + 1]
      /\ disk' = [head |-> disk'.head, node |-> disk'.node, block |-> disk'.block]
  BY <1>1 DEF Shape, Stored
<1>10. disk.block \in [Nodes -> [0 .. 1 -> 0 .. writes]]
  BY DEF Shape, Stored
<1>11. /\ disk'.block \in [Nodes -> [0 .. 1 -> 0 .. writes']]
       /\ \A n \in Nodes, u \in 0 .. 1 :
            disk'.block[n][u] = IF n = b /\ u = v THEN writes + 1 ELSE disk.block[n][u]
  <2>1. disk.block \in [Nodes -> [0 .. 1 -> 0 .. writes']]
    BY <1>1, <1>2, <1>10
  <2>2. writes + 1 \in 0 .. writes'
    BY <1>1, <1>2
  <2>. QED BY <1>4, <1>9, <2>1, <2>2
<1>12. Stored(disk', writes')
  <2>1. \A n \in Nodes, u \in 0 .. 1 : Image(disk'.node[n][u], writes')
    BY <1>1, <1>2, <1>9, ImageGrows DEF Shape, Stored
  <2>. QED BY <1>9, <1>11, <2>1 DEF Shape, Stored
<1>13. Shape'
  BY <1>1, <1>2, <1>8, <1>12, PrimedTree, PrimedStored DEF Shape
<1>14. WriteBlockEffect(b)
  <2>1. /\ \A n \in Nodes \ {b} : ht'.node[n] = Before(b, n)
        /\ ht'.node[b].block = v /\ ht'.node[b].tag = writes + 1
        /\ ht'.node[b].child = Before(b, b).child
        /\ ht'.node[b].hash = Before(b, b).hash
    BY <1>3, <1>6, <1>7
  <2>. QED BY <1>3, <1>5, <1>6, <1>7, <1>9, <1>11, <2>1 DEF WriteBlockEffect
<1>. QED BY <1>13, <1>14

(***************************************************************************)
(* htree_sync_node_to_storage(): the node gets its hash and is written,    *)
(* its parent points to the version that was written.                      *)
(***************************************************************************)
ParentSet(n) == IF n = 1 THEN {} ELSE {Parent(n)}

(***************************************************************************)
(* Writing a node changes its hash, its version in storage and the         *)
(* parent's choice of it.                                                  *)
(***************************************************************************)
SyncNodeEffect(n) ==
  /\ \A m \in Nodes : m # n /\ m \notin ParentSet(n) => ht'.node[m] = ht.node[m]
  /\ ht'.node[n].block = ht.node[n].block
  /\ ht'.node[n].child = ht.node[n].child
  /\ ht'.node[n].tag = ht.node[n].tag
  /\ ht'.node[n].hash = CalcNodeHash(ht, n)
  /\ \A m \in ParentSet(n) :
       /\ ht'.node[m].block = ht.node[m].block
       /\ ht'.node[m].tag = ht.node[m].tag
       /\ ht'.node[m].hash = ht.node[m].hash
       /\ \A s \in 1 .. 2 :
            ht'.node[m].child[s] = IF s = Side(n) THEN NodeVersion(n)
                                                  ELSE ht.node[m].child[s]
  /\ ht'.counter = ht.counter /\ ht'.max_node_id = ht.max_node_id
  /\ ht'.length = ht.length /\ ht'.ht_dirty = ht.ht_dirty
  /\ ht'.dirty = (ht.dirty \cup ParentSet(n)) \ {n}
  /\ ht'.block_updated = ht.block_updated \ {n}
  /\ disk'.head = disk.head /\ disk'.block = disk.block
  /\ NodeVersion(n) \in 0 .. 1
  /\ disk'.node[n][NodeVersion(n)] = ht'.node[n]
  /\ \A m \in Nodes, u \in 0 .. 1 :
       m # n \/ u # NodeVersion(n) => disk'.node[m][u] = disk.node[m][u]

(***************************************************************************)
(* The tree after the parent's flag is switched.                           *)
(***************************************************************************)
FlaggedTree(p, s, v) ==
  [ht EXCEPT !.dirty = @ \cup {p}, !.node[p].child[s] = v]

(***************************************************************************)
(* One of the two flags of a node image is switched.                       *)
(***************************************************************************)
LEMMA ChildFlag ==
  ASSUME NEW i, NEW w, Image(i, w), NEW s \in 1 .. 2, NEW v \in 0 .. 1,
         NEW k, k = [i EXCEPT !.child[s] = v]
  PROVE  /\ Image(k, w)
         /\ k.block = i.block /\ k.tag = i.tag /\ k.hash = i.hash
         /\ \A r \in 1 .. 2 : k.child[r] = IF r = s THEN v ELSE i.child[r]
<1>1. /\ k.block = i.block /\ k.tag = i.tag /\ k.hash = i.hash
      /\ k.child = [i.child EXCEPT ![s] = v]
      /\ k = [block |-> k.block, child |-> k.child, tag |-> k.tag, hash |-> k.hash]
  BY DEF Image
<1>2. i.child \in (0 .. 1) \X (0 .. 1)
  BY DEF Image
<1>3. PICK x \in 0 .. 1, y \in 0 .. 1 : i.child = <<x, y>>
  BY <1>2
<1>4. k.child = IF s = 1 THEN <<v, y>> ELSE <<x, v>>
  BY <1>1, <1>3
<1>5. k.child \in (0 .. 1) \X (0 .. 1)
  BY <1>4
<1>6. \A r \in 1 .. 2 : k.child[r] = IF r = s THEN v ELSE i.child[r]
  BY <1>3, <1>4
<1>. QED BY <1>1, <1>5, <1>6 DEF Image

(***************************************************************************)
(* Only the parent has changed, and it is dirty now.                       *)
(***************************************************************************)
LEMMA FlagSet ==
  ASSUME Shape, NEW p \in Nodes, NEW s \in 1 .. 2, NEW v \in 0 .. 1,
         NEW h, h = FlaggedTree(p, s, v)
  PROVE  /\ Tree(h, writes)
         /\ \A m \in Nodes : m # p => h.node[m] = ht.node[m]
         /\ h.node[p].block = ht.node[p].block
         /\ h.node[p].tag = ht.node[p].tag
         /\ h.node[p].hash = ht.node[p].hash
         /\ \A r \in 1 .. 2 : h.node[p].child[r] = IF r = s THEN v ELSE ht.node[p].child[r]
         /\ h.counter = ht.counter /\ h.max_node_id = ht.max_node_id
         /\ h.length = ht.length /\ h.ht_dirty = ht.ht_dirty
         /\ h.dirty = ht.dirty \cup {p}
         /\ h.block_updated = ht.block_updated
<1>1. Tree(ht, writes)
  BY DEF Shape
<1>2. /\ h.node = [ht.node EXCEPT ![p].child[s] = v]
      /\ h.counter = ht.counter /\ h.max_node_id = ht.max_node_id
      /\ h.length = ht.length /\ h.ht_dirty = ht.ht_dirty
      /\ h.dirty = ht.dirty \cup {p}
      /\ h.block_updated = ht.block_updated
      /\ h = [node |-> h.node, counter |-> h.counter,
              max_node_id |-> h.max_node_id, length |-> h.length,
              dirty |-> h.dirty, block_updated |-> h.block_updated,
              ht_dirty |-> h.ht_dirty]
  BY <1>1 DEF Tree, FlaggedTree
<1>3. ht.node = [n \in Nodes |-> ht.node[n]] /\ Image(ht.node[p], writes)
  BY <1>1 DEF Tree
<1>4. PICK k : k = [ht.node[p] EXCEPT !.child[s] = v]
  OBVIOUS
<1>5. /\ h.node = [n \in Nodes |-> h.node[n]]
      /\ h.node[p] = k
      /\ \A m \in Nodes : m # p => h.node[m] = ht.node[m]
  BY <1>2, <1>3, <1>4
<1>6. PICK i : i = ht.node[p]
  OBVIOUS
<1>7. /\ Image(k, writes)
      /\ k.block = i.block /\ k.tag = i.tag /\ k.hash = i.hash
      /\ \A r \in 1 .. 2 : k.child[r] = IF r = s THEN v ELSE i.child[r]
  <2>1. Image(i, writes) /\ k = [i EXCEPT !.child[s] = v]
    BY <1>3, <1>4, <1>6
  <2>. QED BY <2>1, ChildFlag
<1>8. \A n \in Nodes : Image(h.node[n], writes)
  BY <1>1, <1>5, <1>7 DEF Tree
<1>9. h.dirty \subseteq Nodes /\ h.block_updated \subseteq h.dirty
  BY <1>1, <1>2 DEF Tree
<1>10. h.counter \in Nat /\ h.max_node_id \in 0 .. use.nodes /\ h.length \in 0 .. use.nodes
  BY <1>1, <1>2 DEF Tree
<1>11. h.ht_dirty \in BOOLEAN
  BY <1>1, <1>2 DEF Tree
<1>12. Tree(h, writes)
  BY <1>2, <1>5, <1>8, <1>9, <1>10, <1>11 DEF Tree
<1>. QED BY <1>2, <1>5, <1>6, <1>7, <1>12

(***************************************************************************)
(* A hash is put into a node image.                                        *)
(***************************************************************************)
LEMMA HashSet ==
  ASSUME NEW i, NEW w, Image(i, w), NEW x, NEW k, k = [i EXCEPT !.hash = x]
  PROVE  /\ Image(k, w)
         /\ k.block = i.block /\ k.tag = i.tag /\ k.child = i.child
         /\ k.hash = x
BY DEF Image

(***************************************************************************)
(* The tree after a node is written.                                       *)
(***************************************************************************)
HashedTree(h, n, i) == Clean([h EXCEPT !.node[n] = i], n)

(***************************************************************************)
(* Only that node has changed, and it is clean now.                        *)
(***************************************************************************)
LEMMA CleanSet ==
  ASSUME NEW h, NEW w, Tree(h, w), NEW n \in Nodes, NEW i, Image(i, w),
         NEW g, g = HashedTree(h, n, i)
  PROVE  /\ Tree(g, w)
         /\ g.node[n] = i
         /\ \A m \in Nodes : m # n => g.node[m] = h.node[m]
         /\ g.counter = h.counter /\ g.max_node_id = h.max_node_id
         /\ g.length = h.length /\ g.ht_dirty = h.ht_dirty
         /\ g.dirty = h.dirty \ {n} /\ g.block_updated = h.block_updated \ {n}
<1>1. /\ g.node = [h.node EXCEPT ![n] = i]
      /\ g.counter = h.counter /\ g.max_node_id = h.max_node_id
      /\ g.length = h.length /\ g.ht_dirty = h.ht_dirty
      /\ g.dirty = h.dirty \ {n} /\ g.block_updated = h.block_updated \ {n}
      /\ g = [node |-> g.node, counter |-> g.counter,
              max_node_id |-> g.max_node_id, length |-> g.length,
              dirty |-> g.dirty, block_updated |-> g.block_updated,
              ht_dirty |-> g.ht_dirty]
  BY DEF Tree, HashedTree, Clean
<1>2. /\ g.node = [m \in Nodes |-> g.node[m]]
      /\ g.node[n] = i
      /\ \A m \in Nodes : m # n => g.node[m] = h.node[m]
  BY <1>1 DEF Tree
<1>3. \A m \in Nodes : Image(g.node[m], w)
  BY <1>2 DEF Tree
<1>4. g.dirty \subseteq Nodes /\ g.block_updated \subseteq g.dirty
  BY <1>1 DEF Tree
<1>5. g.counter \in Nat /\ g.max_node_id \in 0 .. use.nodes /\ g.length \in 0 .. use.nodes
  BY <1>1 DEF Tree
<1>6. g.ht_dirty \in BOOLEAN
  BY <1>1 DEF Tree
<1>7. Tree(g, w)
  BY <1>1, <1>2, <1>3, <1>4, <1>5, <1>6 DEF Tree
<1>. QED BY <1>1, <1>2, <1>7

(***************************************************************************)
(* The hash of a node depends on its own fields and its children's hashes. *)
(***************************************************************************)
LEMMA SameHash ==
  ASSUME Shape, NEW g, NEW h, NEW n \in Nodes, NEW w, Tree(h, w),
         g.node[n].block = h.node[n].block, g.node[n].child = h.node[n].child,
         g.node[n].tag = h.node[n].tag,
         n = 1 => g.length = h.length,
         \A m \in {2 * n, 2 * n + 1} :
           /\ Exists(g, m) = Exists(h, m)
           /\ Exists(h, m) => g.node[m].hash = h.node[m].hash
  PROVE  CalcNodeHash(g, n) = CalcNodeHash(h, n)
<1>1. \A m \in {2 * n, 2 * n + 1} : ChildHash(g, m) = ChildHash(h, m)
  BY DEF ChildHash
<1>2. ChildHash(g, 2 * n) = ChildHash(h, 2 * n) /\ ChildHash(g, 2 * n + 1) = ChildHash(h, 2 * n + 1)
  BY <1>1
<1>. QED BY <1>2 DEF CalcNodeHash

(***************************************************************************)
(* That is what htree_sync_node_to_storage() does.                         *)
(***************************************************************************)
LEMMA SyncNodeShape ==
  ASSUME Shape, NEW n \in Nodes, SyncNode(n)
  PROVE  Shape' /\ SyncNodeEffect(n)
<1> DEFINE v == NodeVersion(n)
           h == IF n = 1
                  THEN ht
                  ELSE [ht EXCEPT !.dirty = @ \cup {Parent(n)},
                                  !.node[Parent(n)].child[Side(n)] = v]
           img == [h.node[n] EXCEPT !.hash = CalcNodeHash(h, n)]
<1>1. /\ ht' = Clean([h EXCEPT !.node[n] = img], n)
      /\ disk' = [disk EXCEPT !.node[n][v] = img]
      /\ use' = use /\ writes' = writes /\ opened' = opened /\ pc' = pc
  BY DEF SyncNode
<1>2. /\ n \in Nat /\ Side(n) \in 1 .. 2
      /\ n # 1 => Parent(n) \in Nodes /\ Parent(n) # n
      /\ use.nodes \in Nat
  BY NodeNumbers
<1>3. v \in 0 .. 1
  <2>1. CASE n = 1
    BY <2>1 DEF NodeVersion, Shape, Tree
  <2>2. CASE n # 1
    <3>1. Image(ht.node[Parent(n)], writes)
      BY <1>2, <2>2 DEF Shape, Tree
    <3>2. ht.node[Parent(n)].child[Side(n)] \in 0 .. 1
      BY <1>2, <3>1 DEF Image
    <3>. QED BY <2>2, <3>2 DEF NodeVersion
  <2>. QED BY <2>1, <2>2
<1> HIDE DEF v
<1>4. PICK g : g = h
  OBVIOUS
<1>5. /\ Tree(g, writes)
      /\ \A m \in Nodes : m \notin ParentSet(n) => g.node[m] = ht.node[m]
      /\ \A m \in ParentSet(n) :
           /\ g.node[m].block = ht.node[m].block
           /\ g.node[m].tag = ht.node[m].tag
           /\ g.node[m].hash = ht.node[m].hash
           /\ \A s \in 1 .. 2 :
                g.node[m].child[s] = IF s = Side(n) THEN v ELSE ht.node[m].child[s]
      /\ g.counter = ht.counter /\ g.max_node_id = ht.max_node_id
      /\ g.length = ht.length /\ g.ht_dirty = ht.ht_dirty
      /\ g.dirty = ht.dirty \cup ParentSet(n)
      /\ g.block_updated = ht.block_updated
  <2>1. CASE n = 1
    BY <1>4, <2>1 DEF Shape, ParentSet
  <2>2. CASE n # 1
    <3>1. g = FlaggedTree(Parent(n), Side(n), v)
      BY <1>4, <2>2 DEF FlaggedTree
    <3>2. PICK p \in Nodes, s \in 1 .. 2 : p = Parent(n) /\ s = Side(n)
      BY <1>2, <2>2
    <3>3. g = FlaggedTree(p, s, v)
      BY <3>1, <3>2
    <3>4. /\ Tree(g, writes)
          /\ \A m \in Nodes : m # p => g.node[m] = ht.node[m]
      BY <1>3, <3>3, FlagSet
    <3>5. /\ g.node[p].block = ht.node[p].block
          /\ g.node[p].tag = ht.node[p].tag
          /\ g.node[p].hash = ht.node[p].hash
          /\ \A r \in 1 .. 2 : g.node[p].child[r] = IF r = s THEN v ELSE ht.node[p].child[r]
      BY <1>3, <3>3, FlagSet
    <3>6. /\ g.counter = ht.counter /\ g.max_node_id = ht.max_node_id
          /\ g.length = ht.length /\ g.ht_dirty = ht.ht_dirty
          /\ g.block_updated = ht.block_updated
      BY <1>3, <3>3, FlagSet
    <3>7. g.dirty = ht.dirty \cup {p}
      BY <1>3, <3>3, FlagSet
    <3>8. ParentSet(n) = {p}
      BY <2>2, <3>2 DEF ParentSet
    <3>. QED BY <3>2, <3>4, <3>5, <3>6, <3>7, <3>8
  <2>. QED BY <2>1, <2>2
<1>6. n \notin ParentSet(n) /\ g.node[n] = ht.node[n]
  BY <1>2, <1>5 DEF ParentSet
<1>7. CalcNodeHash(g, n) = CalcNodeHash(ht, n)
  <2>1. Tree(ht, writes) /\ use.nodes \in Nat /\ n \in Nat /\ n >= 1
    BY NodeNumbers DEF Shape
  <2>2. ASSUME NEW m \in {2 * n, 2 * n + 1}
        PROVE  /\ Exists(g, m) = Exists(ht, m)
               /\ Exists(ht, m) => g.node[m].hash = ht.node[m].hash
    <3>1. Exists(g, m) = Exists(ht, m)
      BY <1>5 DEF Exists
    <3>2. Exists(ht, m) => m \in Nodes
      <4>1. m \in Nat /\ m >= 2
        BY <2>1
      <4>2. ht.max_node_id \in 0 .. use.nodes
        BY <2>1 DEF Tree
      <4>. QED BY <2>1, <4>1, <4>2 DEF Exists, Nodes
    <3>. QED BY <1>5, <3>1, <3>2
  <2>3. g.length = ht.length
    BY <1>5
  <2>. QED BY <1>6, <2>1, <2>2, <2>3, SameHash
<1>8. PICK i : i = [g.node[n] EXCEPT !.hash = CalcNodeHash(g, n)]
  OBVIOUS
<1>9. i = img
  BY <1>4, <1>8
<1>10. /\ Image(i, writes)
       /\ i.block = ht.node[n].block /\ i.tag = ht.node[n].tag
       /\ i.child = ht.node[n].child /\ i.hash = CalcNodeHash(ht, n)
  <2>1. PICK j, x : j = ht.node[n] /\ x = CalcNodeHash(ht, n)
    OBVIOUS
  <2>2. Image(j, writes)
    BY <2>1 DEF Shape, Tree
  <2>3. i = [j EXCEPT !.hash = x]
    BY <1>6, <1>7, <1>8, <2>1
  <2>. QED BY <2>1, <2>2, <2>3, HashSet
<1>11. ht' = HashedTree(g, n, i)
  BY <1>1, <1>4, <1>9 DEF HashedTree
<1>12. disk' = [disk EXCEPT !.node[n][v] = i]
  BY <1>1, <1>9
<1> HIDE DEF h, img
<1>13. /\ Tree(ht', writes)
       /\ ht'.node[n] = i
       /\ \A m \in Nodes : m # n => ht'.node[m] = g.node[m]
  BY <1>5, <1>10, <1>11, CleanSet
<1>14. /\ ht'.counter = g.counter /\ ht'.max_node_id = g.max_node_id
       /\ ht'.length = g.length /\ ht'.ht_dirty = g.ht_dirty
  BY <1>5, <1>10, <1>11, CleanSet
<1>15. ht'.dirty = g.dirty \ {n} /\ ht'.block_updated = g.block_updated \ {n}
  BY <1>5, <1>11 DEF Tree, HashedTree, Clean
<1>16. /\ disk'.head = disk.head /\ disk'.block = disk.block
       /\ disk'.node = [disk.node EXCEPT ![n][v] = i]
       /\ disk' = [head |-> disk'.head, node |-> disk'.node, block |-> disk'.block]
  BY <1>12 DEF Shape, Stored
<1>17. /\ disk'.node = [m \in Nodes |-> disk'.node[m]]
       /\ \A m \in Nodes : disk'.node[m] = [u \in 0 .. 1 |-> disk'.node[m][u]]
       /\ \A m \in Nodes, u \in 0 .. 1 :
            disk'.node[m][u] = IF m = n /\ u = v THEN i ELSE disk.node[m][u]
  <2>1. /\ disk.node = [m \in Nodes |-> disk.node[m]]
        /\ \A m \in Nodes : disk.node[m] = [u \in 0 .. 1 |-> disk.node[m][u]]
    BY DEF Shape, Stored
  <2>2. /\ disk'.node = [m \in Nodes |-> disk'.node[m]]
        /\ \A m \in Nodes : m # n => disk'.node[m] = disk.node[m]
        /\ disk'.node[n] = [disk.node[n] EXCEPT ![v] = i]
    BY <1>16, <2>1
  <2>3. PICK f, d : f = disk'.node[n] /\ d = disk.node[n]
    OBVIOUS
  <2>4. d = [u \in 0 .. 1 |-> d[u]] /\ f = [d EXCEPT ![v] = i]
    BY <2>1, <2>2, <2>3
  <2>5. f = [u \in 0 .. 1 |-> f[u]] /\ \A u \in 0 .. 1 : f[u] = IF u = v THEN i ELSE d[u]
    BY <1>3, <2>4
  <2>. QED BY <2>1, <2>2, <2>3, <2>5
<1>18. Stored(disk', writes)
  <2>1. \A m \in Nodes, u \in 0 .. 1 : Image(disk'.node[m][u], writes)
    BY <1>10, <1>17 DEF Shape, Stored
  <2>. QED BY <1>16, <1>17, <2>1 DEF Shape, Stored
<1>19. Shape'
  BY <1>1, <1>13, <1>18, PrimedTree, PrimedStored DEF Shape
<1>20. SyncNodeEffect(n)
  <2>1. \A m \in Nodes : m # n /\ m \notin ParentSet(n) => ht'.node[m] = ht.node[m]
    BY <1>5, <1>13
  <2>2. \A m \in ParentSet(n) : m \in Nodes /\ m # n /\ ht'.node[m] = g.node[m]
    BY <1>2, <1>13 DEF ParentSet
  <2>3. disk'.node[n][v] = ht'.node[n]
    BY <1>3, <1>13, <1>17
  <2>4. \A m \in Nodes, u \in 0 .. 1 :
          m # n \/ u # v => disk'.node[m][u] = disk.node[m][u]
    BY <1>17
  <2>5. \A m \in ParentSet(n) :
       /\ ht'.node[m].block = ht.node[m].block
       /\ ht'.node[m].tag = ht.node[m].tag
       /\ ht'.node[m].hash = ht.node[m].hash
       /\ \A s \in 1 .. 2 :
            ht'.node[m].child[s] = IF s = Side(n) THEN v ELSE ht.node[m].child[s]
    BY <1>5, <2>2
  <2>6. /\ ht'.node[n].block = ht.node[n].block
        /\ ht'.node[n].child = ht.node[n].child
        /\ ht'.node[n].tag = ht.node[n].tag
        /\ ht'.node[n].hash = CalcNodeHash(ht, n)
    BY <1>10, <1>13
  <2>7. /\ ht'.counter = ht.counter /\ ht'.max_node_id = ht.max_node_id
        /\ ht'.length = ht.length /\ ht'.ht_dirty = ht.ht_dirty
        /\ ht'.dirty = (ht.dirty \cup ParentSet(n)) \ {n}
        /\ ht'.block_updated = ht.block_updated \ {n}
    BY <1>5, <1>14, <1>15
  <2>. QED BY <1>3, <1>16, <2>1, <2>3, <2>4, <2>5, <2>6, <2>7 DEF SyncNodeEffect, v
<1>. QED BY <1>19, <1>20

-----------------------------------------------------------------------------
(***************************************************************************)
(* Truncation.                                                             *)
(***************************************************************************)
LEMMA TruncatedTreeShape ==
  ASSUME Shape, NEW l \in 0 .. use.nodes, NEW g, g = TruncatedTree(l)
  PROVE  Tree(g, writes)
<1>1. Tree(ht, writes) /\ use.nodes \in Nat
  BY NodeNumbers DEF Shape
<1>2. CASE l + 1 < ht.max_node_id
  <2>1. g = [ht EXCEPT !.max_node_id = l + 1, !.ht_dirty = TRUE]
    BY <1>2 DEF TruncatedTree
  <2>2. /\ g.node = ht.node /\ g.counter = ht.counter
        /\ g.max_node_id = l + 1 /\ g.length = ht.length
        /\ g.dirty = ht.dirty /\ g.block_updated = ht.block_updated
        /\ g = [node |-> g.node, counter |-> g.counter,
                max_node_id |-> g.max_node_id, length |-> g.length,
                dirty |-> g.dirty, block_updated |-> g.block_updated,
                ht_dirty |-> g.ht_dirty]
    BY <1>1, <2>1 DEF Tree
  <2>3. g.ht_dirty = TRUE
    BY <1>1, <2>1 DEF Tree
  <2>4. g.ht_dirty \in BOOLEAN
    BY <2>3
  <2>5. g.max_node_id \in 0 .. use.nodes
    BY <1>1, <1>2, <2>2 DEF Tree
  <2>. QED BY <1>1, <2>2, <2>4, <2>5 DEF Tree
<1>3. CASE ~(l + 1 < ht.max_node_id)
  BY <1>1, <1>3 DEF TruncatedTree
<1>. QED BY <1>2, <1>3

(***************************************************************************)
(* A truncation, complete or not, keeps the shape.                         *)
(***************************************************************************)
LEMMA TruncateShape ==
  ASSUME Shape, NEW l \in 0 .. use.nodes, Truncate(l) \/ TruncateFails(l)
  PROVE  Shape'
<1>1. PICK g : g = TruncatedTree(l)
  OBVIOUS
<1>2. Tree(g, writes)
  BY <1>1, TruncatedTreeShape
<1>3. CASE TruncateFails(l)
  BY <1>1, <1>2, <1>3, PrimedTree, PrimedStored DEF TruncateFails, Shape
<1>4. CASE Truncate(l)
  <2>1. /\ writes < use.writes /\ writes' = writes + 1
        /\ disk' = [disk EXCEPT !.block =
                [n \in Nodes |-> IF n > l + 1 THEN [v \in 0 .. 1 |-> 0] ELSE disk.block[n]]]
        /\ ht' = MetaSetDirty([g EXCEPT !.length = l])
        /\ pc' = "sync" /\ use' = use /\ opened' = opened
    BY <1>1, <1>4 DEF Truncate
  <2>2. writes \in Nat /\ use.writes \in Nat /\ writes' \in 0 .. use.writes
        /\ writes + 1 \in Nat
    <3>1. use.writes \in Nat /\ writes \in 0 .. use.writes
      BY NodeNumbers DEF Shape
    <3>. QED BY <2>1, <3>1
  <2>3. /\ ht'.node = g.node /\ ht'.counter = g.counter
        /\ ht'.max_node_id = g.max_node_id /\ ht'.length = l
        /\ ht'.dirty = g.dirty \cup {1} /\ ht'.block_updated = g.block_updated
        /\ ht' = [node |-> ht'.node, counter |-> ht'.counter,
                  max_node_id |-> ht'.max_node_id, length |-> ht'.length,
                  dirty |-> ht'.dirty, block_updated |-> ht'.block_updated,
                  ht_dirty |-> ht'.ht_dirty]
    BY <1>2, <2>1 DEF Tree, MetaSetDirty
  <2>4. ht'.ht_dirty = TRUE
    BY <1>2, <2>1 DEF Tree, MetaSetDirty
  <2>5. ht'.ht_dirty \in BOOLEAN
    BY <2>4
  <2>6. \A n \in Nodes : Image(ht'.node[n], writes + 1)
    BY <1>2, <2>2, <2>3, ImageGrows DEF Tree
  <2>7. ht'.dirty \subseteq Nodes /\ ht'.block_updated \subseteq ht'.dirty
    BY <1>2, <2>3, NodeNumbers DEF Tree
  <2>8. Tree(ht', writes')
    BY <1>2, <2>1, <2>3, <2>5, <2>6, <2>7 DEF Tree
  <2>9. /\ disk'.head = disk.head /\ disk'.node = disk.node
        /\ disk'.block = [n \in Nodes |-> IF n > l + 1 THEN [v \in 0 .. 1 |-> 0]
                                                       ELSE disk.block[n]]
        /\ disk' = [head |-> disk'.head, node |-> disk'.node, block |-> disk'.block]
    BY <2>1 DEF Shape, Stored
  <2>10. disk'.block \in [Nodes -> [0 .. 1 -> 0 .. writes']]
    <3>1. disk.block \in [Nodes -> [0 .. 1 -> 0 .. writes']]
      <4>1. disk.block \in [Nodes -> [0 .. 1 -> 0 .. writes]]
        BY DEF Shape, Stored
      <4>. QED BY <2>1, <2>2, <4>1
    <3>2. [v \in 0 .. 1 |-> 0] \in [0 .. 1 -> 0 .. writes']
      BY <2>1, <2>2
    <3>. QED BY <2>9, <3>1, <3>2
  <2>11. \A n \in Nodes, u \in 0 .. 1 : Image(disk'.node[n][u], writes')
    BY <2>1, <2>2, <2>9, ImageGrows DEF Shape, Stored
  <2>12. Stored(disk', writes')
    BY <2>9, <2>10, <2>11 DEF Shape, Stored
  <2>. QED BY <2>1, <2>2, <2>8, <2>12, PrimedTree, PrimedStored DEF Shape
<1>. QED BY <1>3, <1>4

(***************************************************************************)
(* Every step keeps the shape.                                             *)
(***************************************************************************)
LEMMA NextShape == Shape /\ [Next]_vars => Shape'
<1> SUFFICES ASSUME Shape, [Next]_vars PROVE Shape'
  OBVIOUS
<1>1. CASE UNCHANGED vars
  BY <1>1, QuietShape DEF vars, Shape
<1>2. CASE Open
  BY <1>2, OpenShape
<1>3. CASE Close
  BY <1>3, QuietShape DEF Close
<1>4. ASSUME NEW b \in Nodes, WriteBlock(b) PROVE Shape'
  BY <1>4, WriteBlockShape
<1>5. ASSUME NEW l \in 0 .. use.nodes, Truncate(l) \/ TruncateFails(l) PROVE Shape'
  BY <1>5, TruncateShape
<1>6. CASE Sync
  BY <1>6, QuietShape DEF Sync, Shape
<1>7. ASSUME NEW n \in Nodes, SyncNode(n) PROVE Shape'
  BY <1>7, SyncNodeShape
<1>8. CASE WriteHead
  BY <1>8, WriteHeadShape
<1>9. CASE WriteDummyHead
  BY <1>9, WriteDummyHeadShape
<1>10. CASE CommitHash
  BY <1>10, QuietShape DEF CommitHash, Shape
<1>. QED BY <1>1, <1>2, <1>3, <1>4, <1>5, <1>6, <1>7, <1>8, <1>9, <1>10 DEF Next

(***************************************************************************)
(* So it holds throughout, whatever the caller does.                       *)
(***************************************************************************)
LEMMA ShapeHolds == Spec => []Shape
<1>. QED BY InitShape, NextShape, PTL DEF Spec

(***************************************************************************)
(* The versions, tags and sizes of the tree in memory stay in their        *)
(* ranges, and a block that was written since the last sync belongs to a   *)
(* node that is to be written, for every use of a file, truncated or not.  *)
(***************************************************************************)
THEOREM TypeCorrect == Spec => []TypeOK
<1>1. Shape => TypeOK
  <2> SUFFICES ASSUME Shape PROVE TypeOK
    OBVIOUS
  <2>1. writes \in 0 .. use.writes /\ use.writes \in Nat
    BY NodeNumbers DEF Shape
  <2>2. \A n \in Nodes : Image(ht.node[n], writes)
    BY DEF Shape, Tree
  <2>3. ASSUME NEW n \in Nodes
        PROVE  /\ ht.node[n].block \in 0 .. 1
               /\ ht.node[n].child \in (0 .. 1) \X (0 .. 1)
               /\ ht.node[n].tag \in -1 .. use.writes
    <3>1. PICK i : i = ht.node[n]
      OBVIOUS
    <3>2. i.block \in 0 .. 1 /\ i.child \in (0 .. 1) \X (0 .. 1) /\ i.tag \in -1 .. writes
      BY <2>2, <3>1 DEF Image
    <3>3. i.tag \in -1 .. use.writes
      BY <2>1, <3>2
    <3>. QED BY <3>1, <3>2, <3>3
  <2>. QED BY <2>3 DEF Shape, Tree, TypeOK
<1>. QED BY <1>1, ShapeHolds, PTL

-----------------------------------------------------------------------------
(***************************************************************************)
(* A tree in storage stays what it is while nothing is written to the      *)
(* versions of nodes and blocks that it leads to.                          *)
(***************************************************************************)
LEMMA LoadedIsAll == Shape => \A v : Solves(disk, v, LoadedNodes(v))
BY LoadedIs

(***************************************************************************)
(* The same in the next state.                                             *)
(***************************************************************************)
LEMMA LoadedIsNext == Shape' => (\A v : Solves(disk, v, LoadedNodes(v)))'
BY LoadedIsAll, PTL

(***************************************************************************)
(* To know what the next state's storage leads to, it is enough to name a  *)
(* tree that fits.                                                         *)
(***************************************************************************)
LEMMA LoadedNext ==
  ASSUME Shape, Shape', use' = use, NEW v, NEW f, Solves(disk', v, f)
  PROVE  LoadedNodes(v)' = f
<1>1. (\A u : Solves(disk, u, LoadedNodes(u)))'
  BY LoadedIsNext
<1>2. Solves(disk', v, LoadedNodes(v)')
  BY <1>1 DEF Solves, Follows, Nodes
<1>. QED BY <1>2, SolutionsEqual

(***************************************************************************)
(* A write to a version of a node that the tree under a header does not    *)
(* use leaves that tree as it is.                                          *)
(***************************************************************************)
LEMMA SameLoaded ==
  ASSUME Shape, Shape', use' = use, NEW v \in 0 .. 1,
         disk'.head[v].max_node_id = disk.head[v].max_node_id,
         disk'.node[1][v] = disk.node[1][v],
         \A n \in Nodes \ {1} :
           n <= disk.head[v].max_node_id =>
             disk'.node[n][Flag(LoadedNodes(v), n)] = disk.node[n][Flag(LoadedNodes(v), n)]
  PROVE  LoadedNodes(v)' = LoadedNodes(v)
<1>1. Solves(disk, v, LoadedNodes(v))
  BY LoadedIs
<1> DEFINE f == LoadedNodes(v)
<1> HIDE DEF f
<1>2. \A n \in Nodes : Follows(disk, v, f, n) => Follows(disk', v, f, n)
  BY DEF Follows, Flag, f
<1>3. Solves(disk', v, f)
  BY <1>1, <1>2 DEF Solves, f
<1>. QED BY <1>3, LoadedNext DEF f

(***************************************************************************)
(* The fields of a loaded node.                                            *)
(***************************************************************************)
LEMMA LoadedImage ==
  ASSUME Shape, NEW v \in 0 .. 1, NEW n \in Nodes
  PROVE  /\ LoadedNodes(v)[n].block \in 0 .. 1
         /\ LoadedNodes(v)[n].tag \in -1 .. writes
         /\ LoadedNodes(v)[n].child \in (0 .. 1) \X (0 .. 1)
         /\ \A s \in 1 .. 2 : LoadedNodes(v)[n].child[s] \in 0 .. 1
<1>1. Tree(Loaded(v), writes)
  BY LoadedShape
<1>2. Loaded(v).node = LoadedNodes(v)
  BY DEF Loaded
<1>3. PICK i : i = LoadedNodes(v)[n]
  OBVIOUS
<1>4. Image(i, writes)
  BY <1>1, <1>2, <1>3 DEF Tree
<1>. QED BY <1>3, <1>4 DEF Image

(***************************************************************************)
(* A complete file in storage stays complete if its header, its nodes and  *)
(* its blocks stay.                                                        *)
(***************************************************************************)
LEMMA SoundKept ==
  ASSUME Shape, Shape', use' = use, NEW v \in 0 .. 1, Sound(v),
         disk'.head[v] = disk.head[v],
         LoadedNodes(v)' = LoadedNodes(v),
         \A n \in 1 .. disk.head[v].length :
           disk'.block[n][LoadedNodes(v)[n].block] = disk.block[n][LoadedNodes(v)[n].block]
  PROVE  Sound(v)'
<1>1. Loaded(v)' = Loaded(v) /\ Nodes' = Nodes
  BY DEF Loaded, Nodes
<1>2. Verified(Loaded(v), v)'
  <2>1. Verified(Loaded(v), v)
    BY DEF Sound
  <2> DEFINE h == Loaded(v)
  <2>2. disk'.head[v].root = h.node[1].hash /\ h' = h
    BY <1>1, <2>1 DEF Verified
  <2>3. \A n \in Nodes : Exists(h, n) => h.node[n].hash = CalcNodeHash(h, n)
    BY <2>1 DEF Verified
  <2> HIDE DEF h
  <2>4. (disk.head[v].root = h.node[1].hash)'
    BY <2>2
  <2>5. (\A n \in Nodes : Exists(h, n) => h.node[n].hash = CalcNodeHash(h, n))'
    BY <1>1, <2>2, <2>3 DEF Exists, CalcNodeHash, ChildHash
  <2>. QED BY <2>4, <2>5 DEF Verified, h
<1>3. Present(LoadedNodes(v), disk.head[v].length)'
  BY DEF Present, Sound
<1>. QED BY <1>2, <1>3 DEF Sound, Sized

(***************************************************************************)
(* Which tree an open will find.                                           *)
(***************************************************************************)
LEMMA HeadIsIdx ==
  ASSUME Shape, Commits, opened, Referenced, pc # "create",
         hash = disk.node[1][Idx].hash,
         UseHash => known \in {NoHash, hash}
  PROVE  HeadIdx = Idx
<1>1. Idx \in 0 .. 1
  BY DEF Idx, Shape, Tree
<1>2. CASE UseHash
  <2>1. known = disk.node[1][Idx].hash
    BY <1>2 DEF Referenced
  <2>2. disk.node[1][0].hash # disk.node[1][1].hash
    BY DEF Commits
  <2>. QED BY <1>1, <1>2, <2>1, <2>2 DEF HeadIdx
<1>3. CASE ~UseHash
  BY <1>3 DEF Commits
<1>. QED BY <1>2, <1>3

-----------------------------------------------------------------------------
(***************************************************************************)
(* A block is written.                                                     *)
(***************************************************************************)
LEMMA IdxIs ==
  ASSUME Shape
  PROVE  Idx \in 0 .. 1
BY DEF Idx, Shape, Tree

(***************************************************************************)
(* Only the next node can be missing, and it is as get_node() makes it.    *)
(***************************************************************************)
LEMMA WriteBlockSimple ==
  ASSUME Shape, Grown, NEW b \in Nodes, WriteBlock(b)
  PROVE  /\ Shape'
         /\ \A n \in Nodes : n # b => ht'.node[n] = ht.node[n]
         /\ ht'.node[b].block = IF b \in ht.block_updated THEN ht.node[b].block
                                                          ELSE 1 - ht.node[b].block
         /\ ht'.node[b].tag = writes + 1
         /\ ht'.node[b].child = ht.node[b].child
         /\ ht'.node[b].hash = ht.node[b].hash
         /\ b > ht.length => b = ht.length + 1
         /\ Exists(ht, b) <=> (b = 1 \/ b <= ht.length)
<1>1. Shape' /\ WriteBlockEffect(b)
  BY WriteBlockShape
<1>2. \A n \in Nodes : Before(b, n) = ht.node[n]
  <2>1. ASSUME NEW n \in Nodes, n \in Missing(b)
        PROVE  ~Exists(ht, n)
    BY <2>1 DEF Missing, Exists, Shape, Tree
  <2>. QED BY <2>1 DEF Before, Grown
<1>3. b \in Nat /\ b >= 1 /\ ht.length \in Nat /\ ht.max_node_id \in Nat
  BY NodeNumbers DEF Shape, Tree
<1>4. b <= ht.length + 1
  BY DEF WriteBlock
<1>5. Exists(ht, b) <=> (b = 1 \/ b <= ht.length)
  BY <1>3 DEF Exists, Grown, Sized
<1>6. /\ \A n \in Nodes : n # b => ht'.node[n] = ht.node[n]
      /\ ht'.node[b].block = IF b \in ht.block_updated THEN ht.node[b].block
                                                       ELSE 1 - ht.node[b].block
      /\ ht'.node[b].tag = writes + 1
      /\ ht'.node[b].child = ht.node[b].child
      /\ ht'.node[b].hash = ht.node[b].hash
  BY <1>1, <1>2 DEF WriteBlockEffect
<1>. QED BY <1>1, <1>3, <1>4, <1>5, <1>6

(***************************************************************************)
(* The write goes to the version of the block that the committed tree does *)
(* not use: the committed file stays, and the tree in memory differs from  *)
(* it just where blocks were written.                                      *)
(***************************************************************************)
LEMMA WriteBlockInv ==
  ASSUME Shape, Inv, GoesOn = FALSE, NEW b \in Nodes, WriteBlock(b)
  PROVE  Inv'
<1>1. /\ opened /\ pc = "idle" /\ pc' = pc /\ opened' = opened /\ use' = use
      /\ hash' = hash /\ known' = known
      /\ UseHash => known \in {NoHash, hash}
  BY DEF WriteBlock, Idle
<1>2. Updating /\ Commits
  BY <1>1 DEF Inv
<1>3. Grown
  BY <1>2 DEF Updating
<1>4. /\ Shape'
      /\ \A n \in Nodes : n # b => ht'.node[n] = ht.node[n]
      /\ ht'.node[b].block = IF b \in ht.block_updated THEN ht.node[b].block
                                                       ELSE 1 - ht.node[b].block
      /\ ht'.node[b].tag = writes + 1
      /\ ht'.node[b].child = ht.node[b].child
      /\ ht'.node[b].hash = ht.node[b].hash
      /\ b > ht.length => b = ht.length + 1
      /\ Exists(ht, b) <=> (b = 1 \/ b <= ht.length)
  BY <1>3, WriteBlockSimple
<1>5. /\ ht'.counter = ht.counter
      /\ ht'.max_node_id = IF Exists(ht, b) THEN ht.max_node_id ELSE b
      /\ ht'.length = IF b > ht.length THEN b ELSE ht.length
      /\ ht'.dirty = ht.dirty \cup {b} \cup (IF b > ht.length THEN {1} ELSE {})
      /\ ht'.block_updated = ht.block_updated \cup {b}
      /\ ht'.ht_dirty = TRUE
      /\ disk'.head = disk.head /\ disk'.node = disk.node
      /\ \A n \in Nodes, v \in 0 .. 1 :
           disk'.block[n][v] = IF n = b /\ v = ht'.node[b].block
                                 THEN writes + 1 ELSE disk.block[n][v]
  BY WriteBlockShape DEF WriteBlockEffect
<1>6. Nodes' = Nodes /\ Idx' = Idx /\ Idx \in 0 .. 1
  BY <1>1, <1>5, IdxIs DEF Nodes, Idx
<1>7. \A v \in 0 .. 1 : LoadedNodes(v)' = LoadedNodes(v)
  BY <1>1, <1>4, <1>5, SameLoaded
<1>8. Base' = Base
  BY <1>6, <1>7 DEF Base
<1>9. /\ b \in Nat /\ b >= 1 /\ ht.length \in Nat /\ ht.max_node_id \in Nat
      /\ writes \in Nat /\ use.nodes \in Nat
      /\ disk.head[Idx].length \in Nat /\ disk.head[Idx].max_node_id \in Nat
  <2>1. Header(disk.head[Idx])
    BY <1>6 DEF Shape, Stored
  <2>2. use.nodes \in Nat /\ b \in Nat /\ b >= 1 /\ use.writes \in Nat
    BY NodeNumbers
  <2>. QED BY <2>1, <2>2 DEF Shape, Tree, Header
<1>10. Grown'
  <2>1. Sized(ht)'
    BY <1>3, <1>4, <1>5, <1>9 DEF Grown, Sized, Exists
  <2>2. /\ disk'.head[Idx].max_node_id <= ht'.max_node_id
        /\ disk'.head[Idx].length <= ht'.length
        /\ disk'.head[Idx].counter = ht'.counter
        /\ Sized(disk'.head[Idx])
    BY <1>3, <1>4, <1>5, <1>9 DEF Grown, Sized, Exists
  <2>3. ASSUME NEW n \in Nodes, ~Exists(ht', n)
        PROVE  ht'.node[n] = ZeroImage /\ n \notin ht'.dirty
    <3>1. n # 1 /\ n # b /\ ~Exists(ht, n)
      BY <1>3, <1>4, <1>5, <1>9, <2>3, NodeNumbers DEF Exists, Grown, Sized
    <3>. QED BY <1>3, <1>4, <1>5, <3>1 DEF Grown
  <2>4. (\A n \in Nodes : ~Exists(ht, n) => ht.node[n] = ZeroImage /\ n \notin ht.dirty)'
    BY <1>6, <2>3 DEF Exists, ZeroImage
  <2>5. (/\ disk.head[Idx].max_node_id <= ht.max_node_id
         /\ disk.head[Idx].length <= ht.length
         /\ disk.head[Idx].counter = ht.counter
         /\ Sized(disk.head[Idx]))'
    BY <1>6, <2>2 DEF Sized
  <2>. QED BY <2>1, <2>4, <2>5 DEF Grown
<1>11. \A n \in 2 .. ht'.max_node_id : n # b => n \in 2 .. ht.max_node_id /\ n \in Nodes
  <2>1. ht'.max_node_id <= use.nodes
    BY <1>1, <1>4 DEF Shape, Tree
  <2>2. ht.max_node_id \in 0 .. use.nodes
    BY DEF Shape, Tree
  <2>. QED BY <1>3, <1>4, <1>5, <1>9, <2>1, <2>2 DEF Grown, Sized, Exists, Nodes
<1>12. ASSUME NEW n \in Nodes \ {1}
       PROVE  Flag(ht'.node, n) = Flag(ht.node, n)
  <2>1. Parent(n) \in Nodes
    BY NodeNumbers
  <2>. QED BY <1>4, <2>1 DEF Flag
<1>13. Written'
  <2>1. ASSUME NEW n \in 2 .. ht'.max_node_id, n \notin ht'.dirty
        PROVE  disk'.node[n][Flag(ht'.node, n)] = ht'.node[n]
    <3>1. n # b /\ n \notin ht.dirty
      BY <1>5, <2>1
    <3>2. n \in Nodes \ {1} /\ n \in 2 .. ht.max_node_id
      BY <1>11, <3>1
    <3>3. disk.node[n][Flag(ht.node, n)] = ht.node[n]
      BY <1>2, <3>1, <3>2 DEF Updating, Written
    <3>. QED BY <1>4, <1>5, <1>12, <3>1, <3>2, <3>3
  <2>. QED BY <2>1 DEF Written, Flag, Parent, Side
<1>14. Hashed'
  <2>1. ASSUME NEW n \in Nodes, Exists(ht', n), n \notin ht'.dirty, Children(n) \cap ht'.dirty = {}
        PROVE  ht'.node[n].hash = CalcNodeHash(ht', n)
    <3>1. n # b /\ n \notin ht.dirty /\ Children(n) \cap ht.dirty = {} /\ b \notin Children(n)
      BY <1>5, <2>1
    <3>2. n \in Nat /\ n >= 1 /\ (n # 1 => n \in 2 .. ht'.max_node_id)
      BY <1>4, <2>1, NodeNumbers DEF Exists, Shape, Tree
    <3>3. Exists(ht, n)
      BY <1>11, <3>1, <3>2 DEF Exists
    <3>4. ht.node[n].hash = CalcNodeHash(ht, n)
      BY <1>2, <3>1, <3>3 DEF Updating, Hashed
    <3>5. n = 1 => ht'.length = ht.length
      BY <1>5, <2>1
    <3>6. ASSUME NEW m \in {2 * n, 2 * n + 1}
          PROVE  /\ Exists(ht', m) = Exists(ht, m)
                 /\ Exists(ht, m) => ht'.node[m].hash = ht.node[m].hash
      <4>1. m \in Nat /\ m >= 2 /\ Parent(m) = n
        BY <3>2 DEF Parent
      <4>2. m # b
        BY <3>1, <4>1 DEF Children
      <4>3. ht'.max_node_id \in Nat /\ ht.max_node_id \in 0 .. use.nodes
        BY <1>4, <1>9 DEF Shape, Tree
      <4>4. Exists(ht', m) => Exists(ht, m)
        BY <1>11, <4>1, <4>2, <4>3 DEF Exists
      <4>5. Exists(ht, m) => Exists(ht', m)
        BY <1>4, <1>5, <1>9, <4>1, <4>3 DEF Exists
      <4>6. Exists(ht, m) => m \in Nodes
        BY <1>9, <4>1, <4>3 DEF Exists, Nodes
      <4>7. Exists(ht', m) = Exists(ht, m)
        BY <4>4, <4>5 DEF Exists
      <4>. QED BY <1>4, <4>2, <4>6, <4>7
    <3>7. Tree(ht, writes)
      BY DEF Shape
    <3>8. /\ ht'.node[n].block = ht.node[n].block /\ ht'.node[n].child = ht.node[n].child
          /\ ht'.node[n].tag = ht.node[n].tag /\ ht'.node[n].hash = ht.node[n].hash
      BY <1>4, <3>1
    <3>9. CalcNodeHash(ht', n) = CalcNodeHash(ht, n)
      BY <3>5, <3>6, <3>7, <3>8, SameHash
    <3>. QED BY <3>4, <3>8, <3>9
  <2>. QED BY <1>6, <2>1 DEF Hashed, Exists, Children, Parent, CalcNodeHash, ChildHash
<1>15. Steady
  BY <1>2 DEF Updating
<1>16. Apart'
  <2>1. ASSUME NEW n \in 2 .. disk.head[Idx].max_node_id
        PROVE  Flag(ht'.node, n) = Flag(Base, n)
    <3>1. n \in Nodes \ {1}
      <4>1. disk.head[Idx].max_node_id \in 0 .. use.nodes
        BY <1>6 DEF Shape, Stored, Header
      <4>. QED BY <1>9, <4>1 DEF Nodes
    <3>2. Parent(n) \in Nodes
      BY <3>1, NodeNumbers
    <3>. QED BY <1>1, <1>12, <1>15, <3>1, <3>2 DEF Steady, Flag
  <2>. QED BY <1>5, <1>6, <1>8, <2>1 DEF Apart, Flag, Parent, Side
<1>17. ASSUME NEW n \in Nodes
       PROVE  /\ ht'.node[n].child = Base[n].child
              /\ (ht'.node[n].block = Base[n].block) = (n \notin ht'.block_updated)
              /\ n \notin ht'.dirty => ht'.node[n] = Base[n]
  <2>1. /\ ht.node[n].child = Base[n].child
        /\ (ht.node[n].block = Base[n].block) = (n \notin ht.block_updated)
        /\ n \notin ht.dirty => ht.node[n] = Base[n]
    BY <1>1, <1>15 DEF Steady
  <2>2. CASE n # b
    BY <1>4, <1>5, <2>1, <2>2
  <2>3. CASE n = b
    <3>1. Base[b].block \in 0 .. 1 /\ ht.node[b].block \in 0 .. 1
      BY <1>6, LoadedImage DEF Base, Shape, Tree, Image
    <3>2. ht'.node[b].block # Base[b].block
      BY <1>4, <2>1, <2>3, <3>1
    <3>. QED BY <1>4, <1>5, <2>1, <2>3, <3>2
  <2>. QED BY <2>2, <2>3
<1>18. Steady'
  BY <1>6, <1>8, <1>17 DEF Steady
<1>19. RootDiffers'
  <2>1. ASSUME 1 \in ht'.dirty
        PROVE  \/ ht'.node[1].tag # Base[1].tag
               \/ ht'.node[1].child # Base[1].child
               \/ ht'.length # disk.head[Idx].length
    <3>1. 1 \in Nodes /\ Base[1].tag \in -1 .. writes
      BY <1>6, NodeNumbers, LoadedImage DEF Base
    <3>2. CASE b = 1
      BY <1>4, <1>9, <3>1, <3>2
    <3>3. CASE b # 1 /\ b > ht.length
      BY <1>3, <1>5, <1>9, <3>3 DEF Grown
    <3>4. CASE b # 1 /\ ~(b > ht.length)
      <4>1. 1 \in ht.dirty /\ ht'.length = ht.length /\ ht'.node[1] = ht.node[1]
        BY <1>4, <1>5, <2>1, <3>1, <3>4
      <4>. QED BY <1>1, <1>2, <4>1 DEF Updating, RootDiffers
    <3>. QED BY <3>2, <3>3, <3>4
  <2>. QED BY <1>5, <1>6, <1>8, <2>1 DEF RootDiffers
<1>20. RootWritten'
  BY <1>1 DEF RootWritten
<1>21. Clock'
  <2>1. ht'.dirty # {}
    BY <1>5
  <2>2. ht'.ht_dirty = (ht'.dirty # {})
    BY <1>5, <2>1
  <2>. QED BY <1>1, <1>5, <2>2 DEF Clock
<1>22. Present(ht.node, ht.length)'
  <2>1. ASSUME NEW n \in 1 .. ht'.length
        PROVE  disk'.block[n][ht'.node[n].block] = ht'.node[n].tag
    <3>1. n \in Nodes
      <4>1. ht'.length \in 0 .. use.nodes
        BY <1>1, <1>4 DEF Shape, Tree
      <4>. QED BY <1>9, <4>1 DEF Nodes
    <3>2. CASE n = b
      <4>1. ht'.node[b].block \in 0 .. 1
        BY <1>4, <1>6, <3>1 DEF Shape, Tree, Image
      <4>. QED BY <1>4, <1>5, <3>2, <4>1
    <3>3. CASE n # b
      <4>1. n \in 1 .. ht.length
        BY <1>4, <1>5, <1>9, <3>3
      <4>2. ht.node[n].block \in 0 .. 1
        BY <3>1 DEF Shape, Tree, Image
      <4>. QED BY <1>2, <1>4, <1>5, <3>1, <3>3, <4>1, <4>2 DEF Updating, Present
    <3>. QED BY <3>2, <3>3
  <2>. QED BY <2>1 DEF Present
<1>23. Sound(Idx)
  BY <1>1, <1>2 DEF Updating
<1>24. Sound(Idx)'
  <2>1. PICK v \in 0 .. 1 : v = Idx
    BY <1>6
  <2>2. Sound(v) /\ LoadedNodes(v)' = LoadedNodes(v) /\ disk'.head[v] = disk.head[v]
    BY <1>5, <1>7, <1>23, <2>1
  <2>3. ASSUME NEW n \in 1 .. disk.head[v].length
        PROVE  disk'.block[n][LoadedNodes(v)[n].block] = disk.block[n][LoadedNodes(v)[n].block]
    <3>1. n \in Nodes
      <4>1. disk.head[v].length \in 0 .. use.nodes
        BY DEF Shape, Stored, Header
      <4>. QED BY <1>9, <4>1 DEF Nodes
    <3>2. LoadedNodes(v)[n].block \in 0 .. 1
      BY <3>1, LoadedImage
    <3>3. n = b => LoadedNodes(v)[n].block # ht'.node[b].block
      BY <1>5, <1>17, <2>1, <3>1 DEF Base
    <3>. QED BY <1>5, <3>1, <3>2, <3>3
  <2>4. Sound(v)'
    BY <1>1, <1>4, <2>2, <2>3, SoundKept
  <2>. QED BY <1>6, <2>1, <2>4
<1>25. Updating'
  <2>1. hash' = disk'.node[1][Idx'].hash /\ hash' # NoHash
    BY <1>1, <1>2, <1>5, <1>6 DEF Updating
  <2>. QED BY <1>10, <1>13, <1>14, <1>16, <1>18, <1>19, <1>20, <1>21, <1>22, <1>24, <2>1
           DEF Updating, NoHash
<1>26. Commits'
  <2>1. Referenced' = Referenced /\ HeadIdx' = HeadIdx /\ UseHash' = UseHash
    BY <1>1, <1>5 DEF Referenced, HeadIdx, UseHash
  <2>2. Referenced => HeadIdx = Idx
    BY <1>1, <1>2, HeadIsIdx DEF Updating
  <2>3. Referenced' => HeadIdx' \in 0 .. 1 /\ Sound(HeadIdx)'
    BY <1>6, <1>24, <2>1, <2>2
  <2>. QED BY <1>1, <1>2, <1>5, <1>6, <2>1, <2>2, <2>3 DEF Commits, NoHash
<1>. QED BY <1>25, <1>26 DEF Inv

-----------------------------------------------------------------------------
(***************************************************************************)
(* A node is written.                                                      *)
(***************************************************************************)
LEMMA SameChild ==
  ASSUME Shape, NEW m \in Nodes, NEW n \in Nodes, Parent(m) = Parent(n), Side(m) = Side(n)
  PROVE  m = n
<1>1. m \in Nat /\ n \in Nat
  BY NodeNumbers
<1>. QED BY <1>1 DEF Parent, Side

(***************************************************************************)
(* What is clean below a node stays so, because no node below it is dirty. *)
(***************************************************************************)
LEMMA CleanStays ==
  ASSUME Shape, NEW n \in ht.dirty, use' = use,
         ht'.dirty = (ht.dirty \cup ParentSet(n)) \ {n},
         NEW m \in Nodes, CleanBelow(m)
  PROVE  CleanBelow(m)' /\ (n # 1 => Parent(n) # m)
<1>1. n \in Nodes /\ Nodes' = Nodes
  BY DEF Shape, Tree, Nodes
<1>2. PICK S \in SUBSET (Nodes \ ht.dirty) : \A k \in S \cup {m} : Children(k) \subseteq S
  BY DEF CleanBelow
<1>3. n \notin S
  BY <1>2
<1>4. n # 1 => Parent(n) \notin S \cup {m}
  BY <1>1, <1>2, <1>3 DEF Children
<1>5. S \in SUBSET (Nodes' \ ht'.dirty)
  BY <1>1, <1>2, <1>4 DEF ParentSet
<1>6. \A k \in S \cup {m} : Children(k)' \subseteq S
  BY <1>1, <1>2 DEF Children, Parent
<1>7. CleanBelow(m)'
  BY <1>5, <1>6 DEF CleanBelow
<1>. QED BY <1>4, <1>7

(***************************************************************************)
(* A dirty node is written to the version that the committed tree does not *)
(* use, because its parent still chooses the committed one; its hash is    *)
(* taken over children that are all written.                               *)
(***************************************************************************)
LEMMA SyncNodeInv ==
  ASSUME Shape, Inv, NEW n \in Nodes, SyncNode(n)
  PROVE  /\ Inv'
         /\ Base' = Base
         /\ Referenced => HeadIdx = Idx /\ HeadIdx' = Idx
         /\ \A m \in Nodes : ht'.node[m].tag = ht.node[m].tag
<1>1. /\ opened /\ pc \in {"sync", "create"} /\ pc' = pc /\ opened' = opened
      /\ use' = use /\ hash' = hash /\ known' = known /\ writes' = writes
      /\ n \in ht.dirty /\ CleanBelow(n)
  BY DEF SyncNode, Syncing
<1>2. Updating /\ Commits
  BY <1>1 DEF Inv
<1>3. Grown /\ Written /\ Hashed /\ Apart /\ RootDiffers /\ Clock
  BY <1>2 DEF Updating
<1>4. Shape' /\ SyncNodeEffect(n)
  BY SyncNodeShape
<1>5. /\ ht'.counter = ht.counter /\ ht'.max_node_id = ht.max_node_id
      /\ ht'.length = ht.length /\ ht'.ht_dirty = ht.ht_dirty
      /\ ht'.dirty = (ht.dirty \cup ParentSet(n)) \ {n}
      /\ ht'.block_updated = ht.block_updated \ {n}
      /\ disk'.head = disk.head /\ disk'.block = disk.block
  BY <1>4 DEF SyncNodeEffect
<1>6. /\ NodeVersion(n) \in 0 .. 1
      /\ disk'.node[n][NodeVersion(n)] = ht'.node[n]
      /\ \A m \in Nodes, u \in 0 .. 1 :
           m # n \/ u # NodeVersion(n) => disk'.node[m][u] = disk.node[m][u]
  BY <1>4 DEF SyncNodeEffect
<1>7. /\ \A m \in Nodes : m # n /\ m \notin ParentSet(n) => ht'.node[m] = ht.node[m]
      /\ ht'.node[n].block = ht.node[n].block
      /\ ht'.node[n].child = ht.node[n].child
      /\ ht'.node[n].tag = ht.node[n].tag
      /\ ht'.node[n].hash = CalcNodeHash(ht, n)
      /\ \A m \in ParentSet(n) :
           /\ ht'.node[m].block = ht.node[m].block
           /\ ht'.node[m].tag = ht.node[m].tag
           /\ ht'.node[m].hash = ht.node[m].hash
           /\ \A s \in 1 .. 2 :
                ht'.node[m].child[s] = IF s = Side(n) THEN NodeVersion(n)
                                                      ELSE ht.node[m].child[s]
  BY <1>4 DEF SyncNodeEffect
<1>8. Nodes' = Nodes /\ Idx' = Idx /\ Idx \in 0 .. 1
  BY <1>1, <1>5, IdxIs DEF Nodes, Idx
<1>9. /\ n \in Nat /\ n >= 1 /\ use.nodes \in Nat /\ 1 \in Nodes
      /\ ht.max_node_id \in 0 .. use.nodes /\ ht.length \in Nat
      /\ disk.head[Idx].max_node_id \in 0 .. use.nodes /\ disk.head[Idx].length \in Nat
  <2>1. Header(disk.head[Idx])
    BY <1>8 DEF Shape, Stored
  <2>2. n \in Nat /\ n >= 1 /\ use.nodes \in Nat /\ 1 \in Nodes
    BY NodeNumbers
  <2>. QED BY <2>1, <2>2 DEF Shape, Tree, Header
<1>10. \A m \in Nodes \ {1} :
         /\ Parent(m) \in Nodes /\ Parent(m) < m /\ Side(m) \in 1 .. 2
         /\ m \in Nat /\ m >= 2 /\ Parent(m) \in Nat /\ Parent(m) >= 1
  BY NodeNumbers
<1>11. /\ ParentSet(n) \subseteq Nodes /\ n \notin ParentSet(n)
       /\ n # 1 => ParentSet(n) = {Parent(n)}
       /\ n = 1 => ParentSet(n) = {}
  BY <1>10 DEF ParentSet
<1>12. Exists(ht, n)
  BY <1>1, <1>3 DEF Grown
(* The flags: only that of n changes. *)
<1>13. ASSUME NEW m \in Nodes \ {1}
       PROVE  Flag(ht'.node, m) = IF m = n THEN NodeVersion(n) ELSE Flag(ht.node, m)
  <2>1. /\ Parent(m) \in Nodes /\ Side(m) \in 1 .. 2
    BY <1>10
  <2>2. CASE m = n
    <3>1. Parent(n) \in ParentSet(n)
      BY <1>11, <2>2
    <3>. QED BY <1>7, <2>1, <2>2, <3>1 DEF Flag
  <2>3. CASE m # n /\ Parent(m) \in ParentSet(n)
    <3>1. n # 1 /\ Parent(m) = Parent(n)
      BY <1>11, <2>3
    <3>2. Side(m) # Side(n)
      BY <2>3, <3>1, SameChild
    <3>. QED BY <1>7, <2>1, <2>3, <3>2 DEF Flag
  <2>4. CASE m # n /\ Parent(m) \notin ParentSet(n)
    <3>1. ht'.node[Parent(m)].child = ht.node[Parent(m)].child
      BY <1>7, <2>1, <2>4
    <3>. QED BY <2>4, <3>1 DEF Flag
  <2>. QED BY <2>2, <2>3, <2>4
(* The tree in storage stays. *)
<1>14. ASSUME NEW m \in Nodes \ {1}, m <= disk.head[Idx].max_node_id, m \in ht.dirty
       PROVE  Flag(ht.node, m) = Flag(Base, m)
  <2>1. m \in 2 .. disk.head[Idx].max_node_id
    <3>1. m \in Nat /\ m >= 2
      BY <1>10, <1>14
    <3>2. disk.head[Idx].max_node_id \in Nat
      BY <1>9
    <3>. QED BY <1>14, <3>1, <3>2
  <2>. QED BY <1>3, <1>14, <2>1 DEF Apart
<1>15. n = 1 => NodeVersion(n) = 1 - Idx
  BY DEF NodeVersion, Idx
<1>16. n # 1 => NodeVersion(n) = 1 - Flag(ht.node, n)
  BY DEF NodeVersion, Flag
<1>17. LoadedNodes(Idx)' = LoadedNodes(Idx) /\ Base' = Base
  <2>1. PICK v \in 0 .. 1 : v = Idx
    BY <1>8
  <2>2. disk'.node[1][v] = disk.node[1][v]
    BY <1>6, <1>9, <1>15, <2>1
  <2>3. ASSUME NEW m \in Nodes \ {1}, m <= disk.head[v].max_node_id
        PROVE  disk'.node[m][Flag(LoadedNodes(v), m)] = disk.node[m][Flag(LoadedNodes(v), m)]
    <3>1. Flag(LoadedNodes(v), m) \in 0 .. 1
      BY <1>10, LoadedImage DEF Flag
    <3>2. m = n => Flag(LoadedNodes(v), m) # NodeVersion(n)
      BY <1>1, <1>14, <1>16, <2>1, <2>3, <3>1 DEF Base
    <3>. QED BY <1>6, <3>1, <3>2
  <2>4. LoadedNodes(v)' = LoadedNodes(v)
    BY <1>1, <1>4, <1>5, <2>2, <2>3, SameLoaded
  <2>5. LoadedNodes(Idx)' = LoadedNodes(v)'
    BY <1>8, <2>1
  <2>. QED BY <1>8, <2>1, <2>4, <2>5 DEF Base
<1>18. Grown'
  <2>1. ASSUME NEW m \in Nodes, ~Exists(ht', m)
        PROVE  ht'.node[m] = ZeroImage /\ m \notin ht'.dirty
    <3>1. ~Exists(ht, m) /\ m # n /\ m # 1
      BY <1>5, <1>12, <2>1 DEF Exists
    <3>2. m \notin ParentSet(n)
      BY <1>9, <1>10, <1>11, <1>12, <3>1 DEF Exists
    <3>. QED BY <1>3, <1>5, <1>7, <3>1, <3>2 DEF Grown
  <2>2. (\A m \in Nodes : ~Exists(ht, m) => ht.node[m] = ZeroImage /\ m \notin ht.dirty)'
    BY <1>8, <2>1 DEF Exists, ZeroImage
  <2>. QED BY <1>3, <1>5, <1>8, <2>2 DEF Grown, Sized
<1>19. Written'
  <2>1. ASSUME NEW m \in 2 .. ht.max_node_id, m \notin ht'.dirty
        PROVE  disk'.node[m][Flag(ht'.node, m)] = ht'.node[m]
    <3>1. m \in Nodes \ {1}
      BY <1>9 DEF Nodes
    <3>2. CASE m = n
      BY <1>6, <1>13, <3>1, <3>2
    <3>3. CASE m # n
      <4>1. m \notin ht.dirty /\ m \notin ParentSet(n)
        BY <1>5, <2>1, <3>3
      <4>2. disk.node[m][Flag(ht.node, m)] = ht.node[m]
        BY <1>3, <4>1 DEF Written
      <4>3. Flag(ht.node, m) \in 0 .. 1
        <5>1. PICK i : i = ht.node[Parent(m)]
          OBVIOUS
        <5>2. Parent(m) \in Nodes /\ Side(m) \in 1 .. 2
          BY <1>10, <3>1
        <5>3. Image(i, writes)
          BY <5>1, <5>2 DEF Shape, Tree
        <5>4. i.child[Side(m)] \in 0 .. 1
          BY <5>2, <5>3 DEF Image
        <5>. QED BY <5>1, <5>4 DEF Flag
      <4>. QED BY <1>6, <1>7, <1>13, <3>1, <3>3, <4>1, <4>2, <4>3
    <3>. QED BY <3>2, <3>3
  <2>. QED BY <1>5, <2>1 DEF Written, Flag, Parent, Side
<1>20. \A m \in Nodes : m # n => ht'.node[m].hash = ht.node[m].hash
  BY <1>7
<1>21. ASSUME NEW m \in Nodes, ht'.node[m].block = ht.node[m].block,
              ht'.node[m].child = ht.node[m].child, ht'.node[m].tag = ht.node[m].tag,
              m # n => n \notin Children(m)
       PROVE  CalcNodeHash(ht', m) = CalcNodeHash(ht, m)
  <2>1. Tree(ht, writes) /\ m \in Nat /\ m >= 1
    BY NodeNumbers DEF Shape
  <2>2. ASSUME NEW k \in {2 * m, 2 * m + 1}
        PROVE  /\ Exists(ht', k) = Exists(ht, k)
               /\ Exists(ht, k) => ht'.node[k].hash = ht.node[k].hash
    <3>1. k \in Nat /\ k >= 2 /\ Parent(k) = m /\ k # m
      BY <2>1 DEF Parent
    <3>2. Exists(ht, k) => k \in Nodes
      BY <1>9, <3>1 DEF Exists, Nodes
    <3>3. k # n
      BY <1>21, <3>1 DEF Children
    <3>4. Exists(ht', k) = Exists(ht, k)
      BY <1>5 DEF Exists
    <3>. QED BY <1>20, <3>2, <3>3, <3>4
  <2>. QED BY <1>5, <1>21, <2>1, <2>2, SameHash
<1>22. Hashed'
  <2>1. ASSUME NEW m \in Nodes, Exists(ht, m), m \notin ht'.dirty, Children(m) \cap ht'.dirty = {}
        PROVE  ht'.node[m].hash = CalcNodeHash(ht', m)
    <3>1. CASE m = n
      BY <1>7, <1>21, <3>1
    <3>2. CASE m # n
      <4>1. m \notin ParentSet(n) /\ m \notin ht.dirty
        BY <1>5, <2>1, <3>2
      <4>2. n \notin Children(m)
        <5>1. n = 1 => Parent(n) = 0
          BY DEF Parent
        <5>2. m # 0
          BY NodeNumbers
        <5>. QED BY <1>11, <4>1, <5>1, <5>2 DEF Children
      <4>3. Children(m) \cap ht.dirty = {}
        BY <1>5, <2>1, <4>2
      <4>4. ht.node[m].hash = CalcNodeHash(ht, m)
        BY <1>3, <2>1, <4>1, <4>3 DEF Hashed
      <4>5. ht'.node[m] = ht.node[m]
        BY <1>7, <3>2, <4>1
      <4>. QED BY <1>21, <4>2, <4>4, <4>5
    <3>. QED BY <3>1, <3>2
  <2>. QED BY <1>5, <1>8, <2>1
      DEF Hashed, Exists, Children, Parent, CalcNodeHash, ChildHash
<1>23. Apart'
  <2>1. ASSUME NEW m \in 2 .. disk.head[Idx].max_node_id, Flag(ht'.node, m) # Flag(Base, m)
        PROVE  m \notin ht'.dirty /\ CleanBelow(m)'
    <3>1. m \in Nodes \ {1}
      BY <1>9 DEF Nodes
    <3>2. CASE m = n
      BY <1>1, <1>5, <3>2, CleanStays
    <3>3. CASE m # n
      <4>1. m \notin ht.dirty /\ CleanBelow(m)
        BY <1>3, <1>13, <2>1, <3>1, <3>3 DEF Apart
      <4>2. CleanBelow(m)' /\ (n # 1 => Parent(n) # m)
        BY <1>1, <1>5, <3>1, <4>1, CleanStays
      <4>. QED BY <1>5, <1>11, <4>1, <4>2
    <3>. QED BY <3>2, <3>3
  <2>. QED BY <1>5, <1>8, <1>17, <2>1 DEF Apart, Flag, Parent, Side
<1>24. Steady'
  BY <1>1 DEF Steady
<1>25. RootDiffers'
  <2>1. ASSUME 1 \in ht'.dirty, pc # "create"
        PROVE  \/ ht'.node[1].tag # Base[1].tag
               \/ ht'.node[1].child # Base[1].child
               \/ ht'.length # disk.head[Idx].length
    <3>1. n # 1
      BY <1>5, <2>1
    <3>2. CASE Parent(n) # 1
      <4>1. 1 \in ht.dirty /\ ht'.node[1] = ht.node[1]
        BY <1>5, <1>7, <1>9, <1>11, <2>1, <3>1, <3>2
      <4>. QED BY <1>3, <1>5, <2>1, <4>1 DEF RootDiffers
    <3>3. CASE Parent(n) = 1 /\ n <= disk.head[Idx].max_node_id
      <4>1. Flag(ht.node, n) = Flag(Base, n)
        BY <1>1, <1>14, <3>1, <3>3
      <4>2. Flag(Base, n) \in 0 .. 1
        BY <1>8, <1>10, <3>1, LoadedImage DEF Flag, Base
      <4>3. Flag(ht'.node, n) # Flag(Base, n)
        BY <1>13, <1>16, <3>1, <4>1, <4>2
      <4>. QED BY <3>3, <4>3 DEF Flag
    <3>4. CASE n > disk.head[Idx].max_node_id
      BY <1>3, <1>5, <1>9, <1>12, <3>1, <3>4 DEF Grown, Sized, Exists
    <3>. QED BY <1>9, <3>2, <3>3, <3>4
  <2>. QED BY <1>1, <1>5, <1>8, <1>17, <2>1 DEF RootDiffers
<1>26. n = 1 => disk'.node[1][0].hash # disk'.node[1][1].hash
  <2> SUFFICES ASSUME n = 1 PROVE disk'.node[1][0].hash # disk'.node[1][1].hash
    OBVIOUS
  <2>1. disk'.node[1][1 - Idx].hash = CalcNodeHash(ht, 1) /\ disk'.node[1][Idx] = disk.node[1][Idx]
    BY <1>6, <1>7, <1>8, <1>15
  <2>2. CASE pc = "create"
    <3>1. disk.node[1][Idx].hash = << >> /\ Idx = 0
      BY <1>3, <2>2 DEF Clock, Idx, NoHash
    <3>2. CalcNodeHash(ht, 1) # << >>
      BY DEF CalcNodeHash
    <3>. QED BY <2>1, <3>1, <3>2
  <2>3. CASE pc # "create"
    <3>1. Verified(Loaded(Idx), Idx)
      BY <1>2, <2>3 DEF Updating, Sound
    <3>2. Base[1].hash = CalcNodeHash(Loaded(Idx), 1)
      BY <1>9, <3>1 DEF Verified, Loaded, Base, Exists
    <3>3. Base[1] = disk.node[1][Idx]
      BY <1>8, <1>9, LoadedIs DEF Solves, Follows, Base
    <3>4. Loaded(Idx).node = Base /\ Loaded(Idx).length = disk.head[Idx].length
      BY DEF Loaded, Base
    <3>5. \/ ht.node[1].tag # Base[1].tag
          \/ ht.node[1].child # Base[1].child
          \/ ht.length # disk.head[Idx].length
      BY <1>1, <1>3, <2>3 DEF RootDiffers
    <3>6. CalcNodeHash(ht, 1) # CalcNodeHash(Loaded(Idx), 1)
      BY <3>4, <3>5 DEF CalcNodeHash
    <3>7. disk'.node[1][1 - Idx].hash # disk'.node[1][Idx].hash
      BY <2>1, <3>2, <3>3, <3>6
    <3>. QED BY <1>8, <3>7
  <2>. QED BY <2>2, <2>3
<1>27. RootWritten'
  <2>1. ASSUME ht'.dirty = {}
        PROVE  /\ disk'.node[1][1 - Idx] = ht'.node[1]
               /\ disk'.node[1][0].hash # disk'.node[1][1].hash
    <3>1. n = 1
      BY <1>5, <1>11, <2>1
    <3>. QED BY <1>6, <1>15, <1>26, <3>1
  <2>. QED BY <1>8, <2>1 DEF RootWritten
<1>28. disk'.node[1][Idx] = disk.node[1][Idx]
  BY <1>6, <1>8, <1>9, <1>15
<1>29. Clock'
  <2>1. pc = "create" => disk'.node[1][0].hash = NoHash /\ ht'.block_updated = {}
    BY <1>3, <1>5, <1>28 DEF Clock, Idx
  <2>. QED BY <1>1, <1>3, <1>5, <2>1 DEF Clock, NoHash
<1>30. Present(ht.node, ht.length)'
  <2>1. ASSUME NEW m \in 1 .. ht.length
        PROVE  ht'.node[m].block = ht.node[m].block /\ ht'.node[m].tag = ht.node[m].tag
    <3>1. m \in Nodes
      BY <1>9 DEF Shape, Tree, Nodes
    <3>. QED BY <1>7, <3>1
  <2>2. Present(ht.node, ht.length)
    BY <1>2 DEF Updating
  <2>. QED BY <1>5, <2>1, <2>2 DEF Present
<1>31. pc # "create" => Sound(Idx)'
  <2>1. PICK v \in 0 .. 1 : v = Idx
    BY <1>8
  <2>2. LoadedNodes(v)' = LoadedNodes(v) /\ disk'.head[v] = disk.head[v]
    <3>1. LoadedNodes(Idx)' = LoadedNodes(v)'
      BY <1>8, <2>1
    <3>. QED BY <1>5, <1>17, <2>1, <3>1
  <2>3. Sound(v) => Sound(v)'
    BY <1>1, <1>4, <1>5, <2>2, SoundKept
  <2>. QED BY <1>2, <1>8, <2>1, <2>3 DEF Updating
<1>32. Updating'
  <2>1. pc # "create" => hash' = disk'.node[1][Idx'].hash /\ hash' # NoHash
    BY <1>1, <1>2, <1>8, <1>28 DEF Updating
  <2>. QED BY <1>1, <1>18, <1>19, <1>22, <1>23, <1>24, <1>25, <1>27, <1>29, <1>30, <1>31, <2>1
           DEF Updating, NoHash
<1>33. pc # "create" => disk'.node[1][0].hash # disk'.node[1][1].hash
  <2>1. n # 1 => disk'.node[1][0] = disk.node[1][0] /\ disk'.node[1][1] = disk.node[1][1]
    BY <1>6, <1>9
  <2>. QED BY <1>2, <1>26, <2>1 DEF Commits
<1>34. Commits' /\ (Referenced => HeadIdx = Idx /\ HeadIdx' = Idx)
  <2>1. Referenced' = Referenced /\ UseHash' = UseHash
    BY <1>1 DEF Referenced, UseHash
  <2>2. Referenced => pc # "create"
    BY <1>2 DEF Referenced, Commits
  <2>3. Referenced => HeadIdx = Idx
    BY <1>1, <1>2, <2>2, HeadIsIdx DEF Updating, Commits
  <2>4. Referenced => HeadIdx' = Idx
    <3>1. CASE UseHash
      <4>1. Referenced => known = disk'.node[1][Idx].hash
        BY <1>1, <1>2, <1>28, <2>2, <3>1 DEF Referenced, Updating, Commits
      <4>. QED BY <1>1, <1>8, <1>33, <2>1, <2>2, <3>1, <4>1 DEF HeadIdx
    <3>2. CASE ~UseHash
      BY <1>5, <2>1, <2>3, <3>2 DEF HeadIdx
    <3>. QED BY <3>1, <3>2
  <2>5. Referenced' => HeadIdx' \in 0 .. 1 /\ Sound(HeadIdx)'
    BY <1>8, <1>31, <2>1, <2>2, <2>4
  <2>6. Commits'
    BY <1>1, <1>2, <1>5, <1>8, <1>33, <2>1, <2>4, <2>5 DEF Commits, NoHash
  <2>. QED BY <2>3, <2>4, <2>6
<1>. QED BY <1>7, <1>17, <1>32, <1>34 DEF Inv

-----------------------------------------------------------------------------
(***************************************************************************)
(* The steps that leave the storage alone.                                 *)
(***************************************************************************)
LEMMA QuietDisk ==
  ASSUME Shape, Shape', UNCHANGED <<use, disk>>, NEW v \in 0 .. 1
  PROVE  LoadedNodes(v)' = LoadedNodes(v) /\ (Sound(v) => Sound(v)')
<1>1. LoadedNodes(v)' = LoadedNodes(v)
  BY SameLoaded
<1>2. Sound(v) => Sound(v)'
  BY <1>1, SoundKept
<1>. QED BY <1>1, <1>2

(***************************************************************************)
(* The tree in memory against the storage, when neither changes.           *)
(***************************************************************************)
LEMMA QuietUpdating ==
  ASSUME Shape, Shape', UNCHANGED <<use, ht, disk, hash>>, Updating,
         pc' = pc \/ (pc = "idle" /\ pc' = "sync" /\ ht.dirty # {})
  PROVE  Updating'
<1>1. Nodes' = Nodes /\ Idx' = Idx /\ Idx \in 0 .. 1
  BY IdxIs DEF Nodes, Idx
<1>2. LoadedNodes(Idx)' = LoadedNodes(Idx) /\ (Sound(Idx) => Sound(Idx)')
  <2>1. PICK v \in 0 .. 1 : v = Idx
    BY <1>1
  <2>2. LoadedNodes(v)' = LoadedNodes(v) /\ (Sound(v) => Sound(v)')
    BY QuietDisk
  <2>. QED BY <1>1, <2>1, <2>2
<1>3. Base' = Base
  BY <1>2 DEF Base
<1>4. Grown' /\ Written'
  BY <1>1
      DEF Updating, Grown, Written, Sized, Exists, Flag, Parent, Side, ZeroImage,
          NoHash
<1>5. Hashed'
  BY <1>1 DEF Updating, Hashed, Exists, Children, Parent, CalcNodeHash, ChildHash
<1>6. Apart'
  <2>1. \A n : CleanBelow(n) => CleanBelow(n)'
    BY <1>1 DEF CleanBelow, Children, Parent
  <2>. QED BY <1>1, <1>3, <2>1 DEF Updating, Apart, Flag, Parent, Side
<1>7. Steady' /\ RootDiffers'
  BY <1>1, <1>3 DEF Updating, Steady, RootDiffers
<1>8. RootWritten' /\ Clock'
  BY <1>1 DEF Updating, RootWritten, Clock, NoHash
<1>9. Present(ht.node, ht.length)'
  BY DEF Updating, Present
<1>. QED BY <1>1, <1>2, <1>4, <1>5, <1>6, <1>7, <1>8, <1>9 DEF Updating, NoHash

(***************************************************************************)
(* The committed file, when neither the storage nor the record of the root *)
(* hash changes.                                                           *)
(***************************************************************************)
LEMMA QuietCommits ==
  ASSUME Shape, Shape', Commits, UNCHANGED <<use, ht, disk, known>>,
         Referenced' => Referenced
  PROVE  /\ HeadIdx' = HeadIdx
         /\ Referenced' => HeadIdx' \in 0 .. 1 /\ Sound(HeadIdx)'
         /\ (opened' => opened) =>
              (~UseHash' /\ Referenced' =>
                /\ disk'.head[0].counter % 2 = 0 /\ disk'.head[1].counter % 2 = 1
                /\ opened' => HeadIdx' = Idx')
<1>1. HeadIdx' = HeadIdx /\ UseHash' = UseHash /\ Idx' = Idx
  BY DEF HeadIdx, UseHash, Idx
<1>2. Referenced' => HeadIdx' \in 0 .. 1 /\ Sound(HeadIdx)'
  <2> SUFFICES ASSUME Referenced' PROVE HeadIdx' \in 0 .. 1 /\ Sound(HeadIdx)'
    OBVIOUS
  <2>1. PICK v \in 0 .. 1 : v = HeadIdx
    BY DEF Commits
  <2>2. Sound(v)
    BY <2>1 DEF Commits
  <2>3. Sound(v)'
    BY <2>2, QuietDisk
  <2>. QED BY <1>1, <2>1, <2>3
<1>. QED BY <1>1, <1>2 DEF Commits

(***************************************************************************)
(* A crash or a close loses the tree in memory only; what was committed is *)
(* what is found.                                                          *)
(***************************************************************************)
LEMMA CloseInv ==
  ASSUME Shape, Inv, Close
  PROVE  Inv'
<1>1. /\ opened /\ Referenced /\ opened' = FALSE /\ pc' = "idle"
      /\ UNCHANGED <<use, ht, disk, hash, known, writes>>
  BY DEF Close
<1>2. Shape'
  BY <1>1, QuietShape
<1>3. Commits
  BY DEF Inv
<1>4. Referenced' /\ pc # "create"
  BY <1>1, <1>3 DEF Referenced, UseHash, Commits, NoHash
<1>5. disk'.node[1][0].hash # disk'.node[1][1].hash
  BY <1>1, <1>3, <1>4 DEF Commits
<1>6. /\ HeadIdx' \in 0 .. 1 /\ Sound(HeadIdx)'
      /\ ~UseHash' => disk'.head[0].counter % 2 = 0 /\ disk'.head[1].counter % 2 = 1
  BY <1>1, <1>2, <1>3, <1>4, QuietCommits
<1>. QED BY <1>1, <1>4, <1>5, <1>6 DEF Inv, Commits

(***************************************************************************)
(* A sync begins only when there is a node to write, so the root will be   *)
(* written before the header.                                              *)
(***************************************************************************)
LEMMA SyncInv ==
  ASSUME Shape, Inv, GoesOn = FALSE, Sync
  PROVE  Inv'
<1>1. /\ opened /\ pc = "idle" /\ pc' = "sync" /\ opened' = opened /\ ht.ht_dirty
      /\ UNCHANGED <<use, ht, disk, hash, known, writes>>
      /\ UseHash => known \in {NoHash, hash}
  BY DEF Sync, Idle
<1>2. Shape'
  BY <1>1, QuietShape DEF Shape
<1>3. Updating /\ Commits
  BY <1>1 DEF Inv
<1>4. ht.dirty # {}
  BY <1>1, <1>3 DEF Updating, Clock
<1>5. Updating'
  BY <1>1, <1>2, <1>3, <1>4, QuietUpdating
<1>6. Referenced' = Referenced
  BY <1>1 DEF Referenced, UseHash, NoHash
<1>7. /\ Referenced' => HeadIdx' \in 0 .. 1 /\ Sound(HeadIdx)'
      /\ ~UseHash' /\ Referenced' =>
                /\ disk'.head[0].counter % 2 = 0 /\ disk'.head[1].counter % 2 = 1
                /\ opened' => HeadIdx' = Idx'
  BY <1>1, <1>2, <1>3, <1>6, QuietCommits
<1>8. UseHash' = UseHash
  BY <1>1 DEF UseHash
<1>. QED BY <1>1, <1>3, <1>5, <1>6, <1>7, <1>8 DEF Inv, Commits, NoHash

(***************************************************************************)
(* Recording the root hash makes an open find the tree that was synced.    *)
(***************************************************************************)
LEMMA CommitHashInv ==
  ASSUME Shape, Inv, CommitHash
  PROVE  Inv' /\ HeadIdx' = Idx /\ Referenced'
<1>1. /\ UseHash /\ opened /\ pc = "idle" /\ ~ht.ht_dirty /\ known' = hash
      /\ UNCHANGED <<use, opened, ht, disk, pc, hash, writes>>
  BY DEF CommitHash
<1>2. Shape'
  BY <1>1, QuietShape DEF Shape
<1>3. Updating /\ Commits
  BY <1>1 DEF Inv
<1>4. Updating'
  BY <1>1, <1>2, <1>3, QuietUpdating
<1>5. UseHash' /\ Idx \in 0 .. 1
  BY <1>1, IdxIs DEF UseHash
<1>6. /\ hash = disk.node[1][Idx].hash /\ hash # NoHash
      /\ disk.node[1][0].hash # disk.node[1][1].hash /\ Sound(Idx)
  BY <1>1, <1>3 DEF Updating, Commits
<1>7. HeadIdx' = Idx
  BY <1>1, <1>5, <1>6 DEF HeadIdx
<1>8. Sound(HeadIdx)'
  <2>1. PICK v \in 0 .. 1 : v = Idx
    BY <1>5
  <2>2. Sound(v)'
    BY <1>1, <1>2, <1>6, <2>1, QuietDisk
  <2>. QED BY <1>7, <2>1, <2>2
<1>9. Referenced'
  BY <1>1, <1>5, <1>6 DEF Referenced, NoHash
<1>10. Commits'
  BY <1>1, <1>5, <1>6, <1>7, <1>8, <1>9 DEF Commits
<1>. QED BY <1>4, <1>7, <1>9, <1>10 DEF Inv

(***************************************************************************)
(* Nothing happens.                                                        *)
(***************************************************************************)
LEMMA StutterInv ==
  ASSUME Shape, Inv, UNCHANGED vars
  PROVE  Inv'
<1>1. UNCHANGED <<use, opened, ht, disk, pc, hash, known, writes>>
  BY DEF vars
<1>2. Shape'
  BY <1>1, QuietShape DEF Shape
<1>3. Referenced' = Referenced /\ UseHash' = UseHash
  BY <1>1 DEF Referenced, UseHash, NoHash
<1>4. opened' => Updating'
  BY <1>1, <1>2, QuietUpdating DEF Inv
<1>5. /\ Referenced' => HeadIdx' \in 0 .. 1 /\ Sound(HeadIdx)'
      /\ ~UseHash' /\ Referenced' =>
                /\ disk'.head[0].counter % 2 = 0 /\ disk'.head[1].counter % 2 = 1
                /\ opened' => HeadIdx' = Idx'
  BY <1>1, <1>2, <1>3, QuietCommits DEF Inv
<1>6. Commits'
  BY <1>1, <1>3, <1>5 DEF Inv, Commits, NoHash
<1>. QED BY <1>4, <1>6 DEF Inv

-----------------------------------------------------------------------------
(***************************************************************************)
(* The header is written: the tree in memory is now the one in storage.    *)
(***************************************************************************)
LEMMA RootHashIs ==
  ASSUME NEW h
  PROVE  CalcNodeHash(h, 1) # NoHash
BY DEF CalcNodeHash, NoHash

(***************************************************************************)
(* A header together with the tree that its version of the root leads to.  *)
(***************************************************************************)
LEMMA SoundNext ==
  ASSUME Shape, Shape', use' = use, NEW w \in 0 .. 1, LoadedNodes(w)' = ht.node,
         disk'.head[w].max_node_id = ht.max_node_id,
         disk'.head[w].length = ht.length,
         disk'.head[w].root = ht.node[1].hash,
         disk'.head[w].counter % 2 = w,
         disk'.block = disk.block,
         Grown, Hashed, ht.dirty = {}, Present(ht.node, ht.length)
  PROVE  Sound(w)'
<1>1. Nodes' = Nodes
  BY DEF Nodes
<1>2. Sized(disk.head[w])'
  BY DEF Grown, Sized
<1> DEFINE h == Loaded(w)'
<1>3. h.node = ht.node /\ h.max_node_id = ht.max_node_id /\ h.length = ht.length
  BY DEF Loaded
<1> HIDE DEF h
<1>4. ASSUME NEW n \in Nodes, Exists(h, n)
      PROVE  h.node[n].hash = CalcNodeHash(h, n)
  <2>1. Exists(ht, n)
    BY <1>3, <1>4 DEF Exists
  <2>2. ht.node[n].hash = CalcNodeHash(ht, n)
    BY <2>1 DEF Hashed
  <2>3. CalcNodeHash(h, n) = CalcNodeHash(ht, n)
    BY <1>3 DEF CalcNodeHash, ChildHash, Exists
  <2>. QED BY <1>3, <2>2, <2>3
<1>5. Verified(Loaded(w), w)'
  <2>1. disk'.head[w].root = h.node[1].hash
    BY <1>3
  <2>2. (\A n \in Nodes : Exists(Loaded(w), n) => Loaded(w).node[n].hash = CalcNodeHash(Loaded(w), n))'
    BY <1>1, <1>4 DEF h, Exists, CalcNodeHash, ChildHash
  <2>. QED BY <2>1, <2>2 DEF Verified, h
<1>6. Present(LoadedNodes(w), disk.head[w].length)'
  BY DEF Present
<1>. QED BY <1>2, <1>5, <1>6 DEF Sound

(***************************************************************************)
(* With the header the tree in memory is complete in storage. For a user's *)
(* file an open still finds the tree whose hash is recorded; the directory *)
(* file is found by the counter, so this write commits it.                 *)
(***************************************************************************)
LEMMA WriteHeadInv ==
  ASSUME Shape, Inv, WriteHead
  PROVE  /\ Inv'
         /\ Base' = ht.node
         /\ UseHash /\ Referenced => HeadIdx' = HeadIdx /\ HeadIdx = Idx
         /\ Referenced' = Referenced
         /\ ~UseHash /\ Referenced => HeadIdx' = Idx'
         /\ Idx' = 1 - Idx
<1>1. /\ opened /\ pc \in {"sync", "create"} /\ opened' = opened
      /\ pc' = IF pc = "create" THEN "dummy" ELSE "idle"
      /\ hash' = ht.node[1].hash /\ use' = use /\ known' = known /\ writes' = writes
  BY DEF WriteHead, Syncing
<1>2. Updating /\ Commits
  BY <1>1 DEF Inv
<1>3. Grown /\ Written /\ Hashed /\ RootWritten /\ Clock /\ Present(ht.node, ht.length)
  BY <1>2 DEF Updating
<1>4. Shape' /\ WriteHeadEffect
  BY WriteHeadShape
<1>5. /\ ht'.node = ht.node /\ ht'.counter = ht.counter + 1
      /\ ht'.max_node_id = ht.max_node_id /\ ht'.length = ht.length
      /\ ht'.dirty = {} /\ ht.dirty = {}
      /\ ht'.block_updated = {} /\ ht'.ht_dirty = FALSE
      /\ disk'.node = disk.node /\ disk'.block = disk.block
  BY <1>4 DEF WriteHeadEffect
<1>6. ht.counter \in Nat
  BY DEF Shape, Tree
<1>7. PICK w \in 0 .. 1 : w = 1 - Idx
  BY IdxIs
<1>8. w = Idx' /\ w = (ht.counter + 1) % 2 /\ Idx \in 0 .. 1 /\ Idx # w
  BY <1>5, <1>6, <1>7 DEF Idx
<1>9. /\ disk'.head[w].counter = ht.counter + 1
      /\ disk'.head[w].max_node_id = ht.max_node_id
      /\ disk'.head[w].length = ht.length
      /\ disk'.head[w].root = ht.node[1].hash
      /\ disk'.head[Idx] = disk.head[Idx]
  BY <1>4, <1>8 DEF WriteHeadEffect
<1>10. disk.node[1][w] = ht.node[1] /\ disk.node[1][0].hash # disk.node[1][1].hash
  BY <1>1, <1>3, <1>5, <1>7 DEF RootWritten
<1>11. Nodes' = Nodes /\ 1 \in Nodes
  BY <1>1, NodeNumbers DEF Nodes
<1>12. LoadedNodes(w)' = ht.node
  <2>1. ht.node = [n \in Nodes |-> ht.node[n]]
    BY DEF Shape, Tree
  <2>2. ASSUME NEW n \in Nodes
        PROVE  Follows(disk', w, ht.node, n)
    <3>1. CASE n = 1
      BY <1>5, <1>10, <3>1 DEF Follows
    <3>2. CASE n # 1 /\ n <= ht.max_node_id
      <4>1. n \in 2 .. ht.max_node_id
        <5>1. n \in Nat /\ n >= 1 /\ ht.max_node_id \in Nat
          BY NodeNumbers DEF Shape, Tree
        <5>. QED BY <3>2, <5>1
      <4>2. disk.node[n][Flag(ht.node, n)] = ht.node[n]
        BY <1>3, <1>5, <4>1 DEF Written
      <4>. QED BY <1>5, <1>9, <3>2, <4>2 DEF Follows, Flag
    <3>3. CASE n # 1 /\ ~(n <= ht.max_node_id)
      BY <1>3, <1>9, <3>3 DEF Follows, Grown, Exists
    <3>. QED BY <3>1, <3>2, <3>3
  <2>3. Solves(disk', w, ht.node)
    BY <2>1, <2>2 DEF Solves
  <2>. QED BY <1>1, <1>4, <2>3, LoadedNext
<1>13. Base' = ht.node
  <2>1. LoadedNodes(Idx)' = LoadedNodes(w)'
    BY <1>8
  <2>. QED BY <1>8, <1>12, <2>1 DEF Base
<1>14. Sound(w)'
  <2>1. disk'.head[w].counter % 2 = w
    BY <1>8, <1>9
  <2>. QED BY <1>1, <1>3, <1>4, <1>5, <1>9, <1>12, <2>1, SoundNext
<1>15. Grown'
  <2>1. (\A n \in Nodes : ~Exists(ht, n) => ht.node[n] = ZeroImage /\ n \notin ht.dirty)'
    BY <1>3, <1>5, <1>11 DEF Grown, Exists, ZeroImage, NoHash
  <2>2. ht.max_node_id \in Nat /\ ht.length \in Nat
    BY DEF Shape, Tree
  <2>. QED BY <1>3, <1>5, <1>8, <1>9, <2>1, <2>2 DEF Grown, Sized
<1>16. Written'
  BY <1>3, <1>5 DEF Written, Flag, Parent, Side
<1>17. Hashed'
  BY <1>3, <1>5, <1>11 DEF Hashed, Exists, Children, Parent, CalcNodeHash, ChildHash
<1>18. Apart'
  BY <1>5, <1>13 DEF Apart, Flag, Parent, Side
<1>19. Steady'
  BY <1>5, <1>13 DEF Steady
<1>20. RootDiffers' /\ RootWritten'
  BY <1>1, <1>5 DEF RootDiffers, RootWritten
<1>21. Clock'
  <2>1. pc' = "dummy" => ht'.counter = 1 /\ disk'.head[0].counter = 0
    BY <1>1, <1>3, <1>5, <1>8, <1>9 DEF Clock, Idx
  <2>. QED BY <1>1, <1>5, <1>8, <1>9, <2>1 DEF Clock
<1>22. Present(ht.node, ht.length)'
  BY <1>3, <1>5 DEF Present
<1>23. hash' = disk'.node[1][Idx'].hash /\ hash' # NoHash
  <2>1. ht.node[1].hash = CalcNodeHash(ht, 1)
    BY <1>3, <1>5, <1>11 DEF Hashed, Exists
  <2>. QED BY <1>1, <1>5, <1>8, <1>10, <2>1, RootHashIs
<1>24. Updating'
  <2>1. Sound(Idx)'
    BY <1>8, <1>14
  <2>. QED BY <1>15, <1>16, <1>17, <1>18, <1>19, <1>20, <1>21, <1>22, <1>23, <2>1
      DEF Updating, NoHash
<1>25. UseHash' = UseHash /\ Referenced' = Referenced
  BY <1>1 DEF UseHash, Referenced, NoHash
<1>26. ASSUME UseHash, Referenced
       PROVE  HeadIdx = Idx /\ HeadIdx' = HeadIdx /\ Sound(HeadIdx)'
  <2>1. pc # "create"
    BY <1>2, <1>26 DEF Referenced, Commits
  <2>2. HeadIdx = Idx
    BY <1>1, <1>2, <1>26, <2>1, HeadIsIdx DEF Updating, Commits
  <2>3. HeadIdx' = HeadIdx
    BY <1>1, <1>5, <1>25, <1>26 DEF HeadIdx
  <2>4. PICK v \in 0 .. 1 : v = Idx
    BY <1>8
  <2>5. Sound(v)
    BY <1>2, <2>1, <2>4 DEF Updating
  <2>6. disk'.head[v] = disk.head[v]
    BY <1>9, <2>4
  <2>7. LoadedNodes(v)' = LoadedNodes(v)
    BY <1>1, <1>4, <1>5, <2>6, SameLoaded
  <2>8. Sound(v)'
    BY <1>1, <1>4, <1>5, <2>5, <2>6, <2>7, SoundKept
  <2>. QED BY <2>2, <2>3, <2>4, <2>8
<1>27. ASSUME ~UseHash, Referenced
       PROVE  /\ HeadIdx' = Idx' /\ Sound(HeadIdx)'
              /\ disk'.head[0].counter % 2 = 0 /\ disk'.head[1].counter % 2 = 1
  <2>1. HeadIdx = Idx /\ disk.head[0].counter % 2 = 0 /\ disk.head[1].counter % 2 = 1
    BY <1>1, <1>2, <1>27 DEF Commits
  <2>2. disk'.head[Idx].counter = ht.counter /\ disk'.head[w].counter = ht.counter + 1
    BY <1>3, <1>9 DEF Grown
  <2>3. disk'.head[0].counter % 2 = 0 /\ disk'.head[1].counter % 2 = 1
    BY <1>8, <1>9, <2>1
  <2>4. HeadIdx' = w
    <3>1. HeadIdx' = IdxFromCounter(disk'.head[0].counter, disk'.head[1].counter)
      BY <1>25, <1>27 DEF HeadIdx
    <3>2. w = 0 \/ w = 1
      OBVIOUS
    <3>. QED BY <1>6, <1>8, <2>2, <2>3, <3>1, <3>2 DEF IdxFromCounter
  <2>. QED BY <1>8, <1>14, <2>3, <2>4
<1>28. Commits'
  <2>1. disk'.node[1][0].hash # disk'.node[1][1].hash
    BY <1>5, <1>10
  <2>2. Referenced' => HeadIdx' \in 0 .. 1 /\ Sound(HeadIdx)'
    BY <1>8, <1>25, <1>26, <1>27
  <2>3. pc' \in {"create", "dummy"} => known' = NoHash'
    BY <1>1, <1>2 DEF Commits, NoHash
  <2>4. pc' # "idle" => pc' = "dummy"
    BY <1>1
  <2>. QED BY <1>1, <1>5, <1>8, <1>25, <1>27, <2>1, <2>2, <2>3, <2>4 DEF Commits, NoHash
<1>. QED BY <1>7, <1>8, <1>13, <1>24, <1>25, <1>26, <1>27, <1>28 DEF Inv

(***************************************************************************)
(* The dummy header has the lower counter, so the directory file is found  *)
(* under header 1 from now on.                                             *)
(***************************************************************************)
LEMMA WriteDummyHeadInv ==
  ASSUME Shape, Inv, WriteDummyHead
  PROVE  /\ Inv'
         /\ LoadedNodes(Idx)' = LoadedNodes(Idx)
         /\ ~UseHash => HeadIdx' = Idx /\ Referenced'
         /\ UseHash => ~Referenced /\ ~Referenced'
         /\ disk'.block = disk.block /\ Idx' = Idx /\ disk'.head[Idx] = disk.head[Idx]
<1>1. /\ opened /\ pc = "dummy" /\ pc' = "idle"
      /\ UNCHANGED <<use, opened, ht, hash, known, writes>>
  BY DEF WriteDummyHead
<1>2. Updating /\ Commits
  BY <1>1 DEF Inv
<1>3. /\ Shape'
      /\ disk'.node = disk.node /\ disk'.block = disk.block
      /\ disk'.head[0] = BlankHead /\ disk'.head[1] = disk.head[1]
  BY WriteDummyHeadShape
<1>4. Idx = 1 /\ Idx' = 1 /\ Nodes' = Nodes /\ ht.counter = 1 /\ 1 \in 0 .. 1
  BY <1>1, <1>2 DEF Updating, Clock, Idx, Nodes
<1>5. LoadedNodes(1)' = LoadedNodes(1)
  BY <1>1, <1>3, <1>4, SameLoaded
<1>6. Base' = Base
  BY <1>4, <1>5 DEF Base
<1>7. Sound(1)'
  <2>1. Sound(1)
    BY <1>1, <1>2, <1>4 DEF Updating
  <2>. QED BY <1>1, <1>3, <1>4, <1>5, <2>1, SoundKept
<1>8. Grown' /\ Written'
  BY <1>1, <1>2, <1>3, <1>4
      DEF Updating, Grown, Written, Sized, Exists, Flag, Parent, Side, ZeroImage,
          NoHash
<1>9. Hashed'
  BY <1>1, <1>2, <1>4
      DEF Updating, Hashed, Exists, Children, Parent, CalcNodeHash, ChildHash
<1>10. Apart'
  <2>1. \A n : CleanBelow(n) => CleanBelow(n)'
    BY <1>1, <1>4 DEF CleanBelow, Children, Parent
  <2>. QED BY <1>1, <1>2, <1>3, <1>4, <1>6, <2>1 DEF Updating, Apart, Flag, Parent, Side
<1>11. Steady' /\ RootDiffers' /\ RootWritten'
  BY <1>1, <1>2, <1>3, <1>4, <1>6 DEF Updating, Steady, RootDiffers, RootWritten
<1>12. Clock'
  BY <1>1, <1>2, <1>3, <1>4 DEF Updating, Clock
<1>13. Present(ht.node, ht.length)'
  BY <1>1, <1>2, <1>3 DEF Updating, Present
<1>14. Updating'
  <2>1. hash' = disk'.node[1][Idx'].hash /\ hash' # NoHash
    BY <1>1, <1>2, <1>3, <1>4 DEF Updating
  <2>2. Sound(Idx)'
    BY <1>4, <1>7
  <2>. QED BY <1>8, <1>9, <1>10, <1>11, <1>12, <1>13, <2>1, <2>2 DEF Updating, NoHash
<1>15. /\ UseHash' = UseHash /\ (UseHash => ~Referenced /\ ~Referenced')
       /\ ~UseHash => Referenced'
  BY <1>1, <1>2 DEF UseHash, Commits, Referenced, NoHash
<1>16. ASSUME ~UseHash
       PROVE  HeadIdx' = 1 /\ disk'.head[0].counter = 0 /\ disk'.head[1].counter = 1
  <2>1. disk'.head[0].counter = 0 /\ disk'.head[1].counter = 1
    BY <1>2, <1>3, <1>4 DEF Updating, Grown, BlankHead
  <2>. QED BY <1>15, <1>16, <2>1 DEF HeadIdx, IdxFromCounter
<1>17. Commits'
  <2>1. disk'.node[1][0].hash # disk'.node[1][1].hash
    BY <1>1, <1>2, <1>3 DEF Commits
  <2>2. Referenced' => HeadIdx' = 1 /\ Sound(HeadIdx)'
    BY <1>7, <1>15, <1>16
  <2>. QED BY <1>1, <1>2, <1>4, <1>15, <1>16, <2>1, <2>2 DEF Commits, NoHash
<1>. QED BY <1>3, <1>4, <1>5, <1>14, <1>15, <1>16, <1>17 DEF Inv

(***************************************************************************)
(* The committed tree is loaded.                                           *)
(***************************************************************************)
LEMMA OpenInv ==
  ASSUME Shape, Inv, Open
  PROVE  Inv'
<1>1. /\ ~opened /\ Opens /\ opened' = TRUE /\ ht' = Loaded(HeadIdx)
      /\ hash' = disk.node[1][HeadIdx].hash
      /\ UNCHANGED <<use, disk, pc, known, writes>>
  BY DEF Open
<1>2. Commits /\ Referenced /\ pc = "idle"
  BY <1>1 DEF Inv, Commits
<1>3. PICK v \in 0 .. 1 : v = HeadIdx
  BY <1>2 DEF Commits
<1>4. Sound(v) /\ Shape'
  BY <1>2, <1>3, OpenShape DEF Commits
<1>5. Sound(v)' /\ LoadedNodes(v)' = LoadedNodes(v)
  BY <1>1, <1>4, QuietDisk
<1>6. /\ ht'.node = LoadedNodes(v) /\ ht'.counter = disk.head[v].counter
      /\ ht'.max_node_id = disk.head[v].max_node_id
      /\ ht'.length = disk.head[v].length /\ ht'.dirty = {}
      /\ ht'.block_updated = {} /\ ht'.ht_dirty = FALSE
  BY <1>1, <1>3 DEF Loaded
<1>7. Idx' = v /\ Nodes' = Nodes /\ 1 \in Nodes
  BY <1>1, <1>4, <1>6, NodeNumbers DEF Idx, Sound, Nodes
<1>8. Base' = LoadedNodes(v)
  <2>1. LoadedNodes(Idx)' = LoadedNodes(v)'
    BY <1>7
  <2>. QED BY <1>5, <2>1 DEF Base
<1>9. Solves(disk, v, LoadedNodes(v))
  BY LoadedIs
<1>10. Grown'
  <2>1. \A n \in Nodes : ~Exists(ht', n) => ht'.node[n] = ZeroImage
    BY <1>6, <1>9 DEF Exists, Solves, Follows
  <2>2. (\A n \in Nodes : ~Exists(ht, n) => ht.node[n] = ZeroImage /\ n \notin ht.dirty)'
    BY <1>6, <1>7, <2>1 DEF Exists, ZeroImage, NoHash
  <2>3. disk.head[v].max_node_id \in Nat /\ disk.head[v].length \in Nat
    <3>1. Header(disk.head[v])
      BY DEF Shape, Stored
    <3>. QED BY <3>1, NodeNumbers DEF Header
  <2>. QED BY <1>1, <1>4, <1>6, <1>7, <2>2, <2>3 DEF Grown, Sized, Sound
<1>11. Written'
  <2>1. ASSUME NEW n \in 2 .. disk.head[v].max_node_id
        PROVE  disk.node[n][Flag(LoadedNodes(v), n)] = LoadedNodes(v)[n]
    <3>1. disk.head[v].max_node_id \in 0 .. use.nodes /\ use.nodes \in Nat
      <4>1. Header(disk.head[v])
        BY DEF Shape, Stored
      <4>. QED BY <4>1, NodeNumbers DEF Header
    <3>2. n \in Nodes /\ n # 1 /\ n <= disk.head[v].max_node_id
      BY <3>1 DEF Nodes
    <3>. QED BY <1>9, <3>2 DEF Solves, Follows, Flag
  <2>. QED BY <1>1, <1>6, <2>1 DEF Written, Flag, Parent, Side
<1>12. Hashed'
  <2>1. \A n \in Nodes : Exists(ht', n) => ht'.node[n].hash = CalcNodeHash(ht', n)
    BY <1>1, <1>3, <1>4 DEF Sound, Verified
  <2>. QED BY <1>7, <2>1 DEF Hashed, Exists, CalcNodeHash, ChildHash
<1>13. Apart'
  BY <1>6, <1>8 DEF Apart, Flag, Parent, Side
<1>14. Steady'
  BY <1>6, <1>8 DEF Steady
<1>15. RootDiffers' /\ RootWritten'
  BY <1>1, <1>2, <1>6 DEF RootDiffers, RootWritten
<1>16. Clock'
  BY <1>1, <1>2, <1>6, <1>7 DEF Clock
<1>17. Present(ht.node, ht.length)'
  BY <1>1, <1>4, <1>6 DEF Sound, Present
<1>18. hash' = disk'.node[1][Idx'].hash /\ hash' # NoHash
  <2>1. LoadedNodes(v)[1] = disk.node[1][v]
    BY <1>7, <1>9 DEF Solves, Follows
  <2>2. LoadedNodes(v)[1].hash = CalcNodeHash(Loaded(v), 1)
    BY <1>4, <1>7 DEF Sound, Verified, Exists, Loaded
  <2>. QED BY <1>1, <1>3, <1>7, <2>1, <2>2, RootHashIs
<1>19. Updating'
  <2>1. Sound(Idx)'
    BY <1>5, <1>7
  <2>. QED BY <1>10, <1>11, <1>12, <1>13, <1>14, <1>15, <1>16, <1>17, <1>18, <2>1
      DEF Updating, NoHash
<1>20. HeadIdx' = v /\ UseHash' = UseHash /\ Referenced' = Referenced
  BY <1>1, <1>3 DEF HeadIdx, UseHash, Referenced, NoHash
<1>21. Commits'
  <2>1. Sound(HeadIdx)'
    BY <1>5, <1>20
  <2>. QED BY <1>1, <1>2, <1>6, <1>7, <1>20, <2>1 DEF Commits, NoHash
<1>. QED BY <1>19, <1>21 DEF Inv

(***************************************************************************)
(* The invariant holds of a file about to be created.                      *)
(***************************************************************************)
LEMMA InitInv == Init => Inv
<1> SUFFICES ASSUME Init PROVE Inv
  OBVIOUS
<1>1. Shape
  BY InitShape
<1>2. /\ opened = TRUE /\ pc = "create" /\ hash = NoHash /\ known = NoHash
      /\ ht = [EmptyTree EXCEPT !.node[1].hash = CalcNodeHash(EmptyTree, 1)]
  BY DEF Init
<1>3. 1 \in Nodes
  BY <1>1, NodeNumbers
<1>4. /\ ht.counter = 0 /\ ht.max_node_id = 0 /\ ht.length = 0
      /\ ht.dirty = {1} /\ ht.block_updated = {}
      /\ \A n \in Nodes : n # 1 => ht.node[n] = ZeroImage
  <2> DEFINE x == CalcNodeHash(EmptyTree, 1)
  <2> HIDE DEF x
  <2>1. ht = [EmptyTree EXCEPT !.node[1].hash = x]
    BY <1>2 DEF x
  <2> HIDE DEF ZeroImage
  <2>. QED BY <1>3, <2>1 DEF EmptyTree
<1>5. /\ disk.head[0] = BlankHead /\ disk.node[1][0] = ZeroImage
  <2>1. 0 \in 0 .. 1
    OBVIOUS
  <2>2. disk = [head |-> [v \in 0 .. 1 |-> BlankHead],
             node |-> [n \in Nodes |-> [v \in 0 .. 1 |-> ZeroImage]],
             block |-> [n \in Nodes |-> [v \in 0 .. 1 |-> 0]]]
    BY DEF Init
  <2> HIDE DEF BlankHead, ZeroImage
  <2>. QED BY <1>3, <2>1, <2>2
<1>6. Idx = 0 /\ disk.head[0].counter = 0 /\ disk.head[0].max_node_id = 0
        /\ disk.head[0].length = 0 /\ disk.node[1][0].hash = NoHash
  BY <1>4, <1>5 DEF Idx, BlankHead, ZeroImage
<1>7. Grown
  BY <1>4, <1>6 DEF Grown, Sized, Exists
<1>8. Written /\ Apart
  BY <1>4, <1>6 DEF Written, Apart
<1>9. Hashed
  <2>1. \A n \in Nodes : Exists(ht, n) => n = 1
    BY <1>1, <1>4, NodeNumbers DEF Exists
  <2>. QED BY <1>4, <2>1 DEF Hashed
<1>10. Steady /\ RootDiffers /\ RootWritten /\ Clock
  BY <1>2, <1>4, <1>6 DEF Steady, RootDiffers, RootWritten, Clock
<1>11. Present(ht.node, ht.length)
  BY <1>4 DEF Present
<1>12. Updating
  BY <1>2, <1>7, <1>8, <1>9, <1>10, <1>11 DEF Updating
<1>13. Commits
  BY <1>2 DEF Commits, Referenced
<1>. QED BY <1>12, <1>13 DEF Inv

-----------------------------------------------------------------------------
(***************************************************************************)
(* The invariant, for a file that is not truncated by a caller that does   *)
(* not go on after a failed commit.                                        *)
(***************************************************************************)
Safe == Shape /\ (~use.truncates => Inv)

(***************************************************************************)
(* Every step keeps it.                                                    *)
(***************************************************************************)
LEMMA NextSafe ==
  ASSUME GoesOn = FALSE, Safe, [Next]_vars
  PROVE  Safe'
<1>1. Shape /\ Shape'
  BY NextShape DEF Safe
<1>2. use' = use
  BY DEF Next, vars, Open, Close, WriteBlock, Truncate, TruncateFails, Sync,
         SyncNode, WriteHead, WriteDummyHead, CommitHash
<1> SUFFICES ASSUME ~use.truncates PROVE Inv'
  BY <1>1, <1>2 DEF Safe
<1>3. Inv
  BY DEF Safe
<1>4. CASE Open
  BY <1>1, <1>3, <1>4, OpenInv
<1>5. CASE Close
  BY <1>1, <1>3, <1>5, CloseInv
<1>6. ASSUME NEW b \in Nodes, WriteBlock(b) PROVE Inv'
  BY <1>1, <1>3, <1>6, WriteBlockInv
<1>7. ASSUME NEW l \in 0 .. use.nodes, Truncate(l) \/ TruncateFails(l) PROVE FALSE
  BY <1>7 DEF Truncate, TruncateFails, MayTruncate
<1>8. CASE Sync
  BY <1>1, <1>3, <1>8, SyncInv
<1>9. ASSUME NEW n \in Nodes, SyncNode(n) PROVE Inv'
  BY <1>1, <1>3, <1>9, SyncNodeInv
<1>10. CASE WriteHead
  BY <1>1, <1>3, <1>10, WriteHeadInv
<1>11. CASE WriteDummyHead
  BY <1>1, <1>3, <1>11, WriteDummyHeadInv
<1>12. CASE CommitHash
  BY <1>1, <1>3, <1>12, CommitHashInv
<1>13. CASE UNCHANGED vars
  BY <1>1, <1>3, <1>13, StutterInv
<1>. QED BY <1>4, <1>5, <1>6, <1>7, <1>8, <1>9, <1>10, <1>11, <1>12, <1>13 DEF Next

(***************************************************************************)
(* So it holds throughout.                                                 *)
(***************************************************************************)
LEMMA SafeHolds == GoesOn = FALSE => (Spec => []Safe)
<1> SUFFICES ASSUME GoesOn = FALSE PROVE Spec => []Safe
  OBVIOUS
<1>1. Init => Safe
  BY InitShape, InitInv DEF Safe
<1>2. Safe /\ [Next]_vars => Safe'
  BY NextSafe
<1>. QED BY <1>1, <1>2, PTL DEF Spec

-----------------------------------------------------------------------------
(***************************************************************************)
(* What the invariant says of the committed file.                          *)
(***************************************************************************)
LEMMA SoundOpens ==
  ASSUME Inv, Referenced
  PROVE  Opens
BY DEF Inv, Commits, Sound, Opens

(***************************************************************************)
(* What a tree says its blocks hold: the tags that the blocks match.       *)
(***************************************************************************)
Tags(f, len) == [b \in 1 .. len |-> f[b].tag]

(***************************************************************************)
(* The tags make a sequence as long as the file.                           *)
(***************************************************************************)
LEMMA TagsIs ==
  ASSUME Shape, NEW f, NEW len \in 0 .. use.nodes,
         \A n \in Nodes : f[n].tag \in -1 .. writes
  PROVE  Tags(f, len) \in Seq(Int) /\ Len(Tags(f, len)) = len
<1>1. len \in Nat /\ writes \in Nat
  BY NodeNumbers DEF Shape
<1>2. \A b \in 1 .. len : f[b].tag \in Int
  BY <1>1, NodeNumbers DEF Nodes
<1>. QED BY <1>1, <1>2 DEF Tags

(***************************************************************************)
(* Reading the blocks of a complete tree gives those tags, and none is     *)
(* missing.                                                                *)
(***************************************************************************)
LEMMA ContentIs ==
  ASSUME Shape, NEW h, Present(h.node, h.length), Sized(h), h.length \in 0 .. use.nodes,
         \A n \in Nodes : h.node[n].block \in 0 .. 1
  PROVE  /\ Content(h) = Tags(h.node, h.length)
         /\ \A b \in 1 .. h.length : h.node[b].tag # -1
<1>1. h.length \in Nat /\ use.nodes \in Nat
  BY NodeNumbers
<1>2. ASSUME NEW b \in 1 .. h.length
      PROVE  /\ Exists(h, b) /\ disk.block[b][h.node[b].block] = h.node[b].tag
             /\ h.node[b].tag # -1
  <2>1. Exists(h, b)
    BY <1>1 DEF Exists, Sized
  <2>2. disk.block[b][h.node[b].block] = h.node[b].tag
    BY DEF Present
  <2>3. b \in Nodes /\ h.node[b].block \in 0 .. 1
    BY <1>1 DEF Nodes
  <2>4. disk.block[b][h.node[b].block] \in 0 .. writes
    BY <2>3 DEF Shape, Stored
  <2>. QED BY <2>1, <2>2, <2>4
<1>. QED BY <1>2 DEF Content, Tags

(***************************************************************************)
(* So it is for a tree in storage ...                                      *)
(***************************************************************************)
LEMMA LoadedContent ==
  ASSUME Shape, NEW v \in 0 .. 1, Sound(v)
  PROVE  /\ Content(Loaded(v)) = Tags(LoadedNodes(v), disk.head[v].length)
         /\ \A b \in 1 .. disk.head[v].length : LoadedNodes(v)[b].tag # -1
         /\ Tags(LoadedNodes(v), disk.head[v].length) \in Seq(Int)
<1>1. PICK h : h = Loaded(v)
  OBVIOUS
<1>2. h.node = LoadedNodes(v) /\ h.length = disk.head[v].length
        /\ h.max_node_id = disk.head[v].max_node_id
  BY <1>1 DEF Loaded
<1>3. Header(disk.head[v])
  BY DEF Shape, Stored
<1>4. h.length \in 0 .. use.nodes /\ Sized(h) /\ Present(h.node, h.length)
  BY <1>2, <1>3 DEF Header, Sound, Sized
<1>5. \A n \in Nodes : h.node[n].block \in 0 .. 1 /\ h.node[n].tag \in -1 .. writes
  BY <1>2, LoadedImage
<1>6. Content(h) = Tags(h.node, h.length) /\ \A b \in 1 .. h.length : h.node[b].tag # -1
  BY <1>4, <1>5, ContentIs
<1>7. Tags(h.node, h.length) \in Seq(Int)
  BY <1>4, <1>5, TagsIs
<1>. QED BY <1>1, <1>2, <1>6, <1>7

(***************************************************************************)
(* ... and for the tree in memory.                                         *)
(***************************************************************************)
LEMMA CopyContent ==
  ASSUME Shape, Inv, opened
  PROVE  /\ Content(ht) = Tags(ht.node, ht.length)
         /\ Tags(ht.node, ht.length) \in Seq(Int)
         /\ Len(Tags(ht.node, ht.length)) = ht.length
<1>1. Sized(ht) /\ Present(ht.node, ht.length) /\ ht.length \in 0 .. use.nodes
  BY DEF Inv, Updating, Grown, Shape, Tree
<1>2. ASSUME NEW n \in Nodes
      PROVE  ht.node[n].block \in 0 .. 1 /\ ht.node[n].tag \in -1 .. writes
  <2>1. PICK i : i = ht.node[n]
    OBVIOUS
  <2>2. Image(i, writes)
    BY <2>1 DEF Shape, Tree
  <2>. QED BY <2>1, <2>2 DEF Image
<1>3. Content(ht) = Tags(ht.node, ht.length)
  BY <1>1, <1>2, ContentIs
<1>. QED BY <1>1, <1>2, <1>3, TagsIs

(***************************************************************************)
(* At rest the tree in memory is the one that an open finds.               *)
(***************************************************************************)
LEMMA RestIs ==
  ASSUME Shape, Inv, opened, pc \in {"idle", "dummy"}, ~ht.ht_dirty
  PROVE  /\ ht.length = disk.head[Idx].length
         /\ Tags(LoadedNodes(Idx), disk.head[Idx].length) = Tags(ht.node, ht.length)
<1>1. ht.length = disk.head[Idx].length /\ ht.dirty = {} /\ Steady
  BY DEF Inv, Updating, Clock
<1>2. \A n \in Nodes : ht.node[n] = LoadedNodes(Idx)[n]
  BY <1>1 DEF Steady, Base
<1>3. \A b \in 1 .. ht.length : b \in Nodes
  BY NodeNumbers DEF Shape, Tree, Nodes
<1>. QED BY <1>1, <1>2, <1>3 DEF Tags

(***************************************************************************)
(* What the invariant is for.                                              *)
(***************************************************************************)
LEMMA CommittedStands ==
  ASSUME Shape, Inv
  PROVE  CommittedVerifies /\ CommittedBlocksPresent /\ SyncedFileOpens
<1>1. CommittedVerifies
  BY SoundOpens DEF CommittedVerifies
<1>2. ASSUME Referenced
      PROVE  \A b \in DOMAIN Content(Loaded(HeadIdx)) : Content(Loaded(HeadIdx))[b] # -1
  <2>1. PICK v \in 0 .. 1 : v = HeadIdx
    BY <1>2 DEF Inv, Commits
  <2>2. Sound(v)
    BY <1>2, <2>1 DEF Inv, Commits
  <2>3. /\ Content(Loaded(v)) = Tags(LoadedNodes(v), disk.head[v].length)
        /\ \A b \in 1 .. disk.head[v].length : LoadedNodes(v)[b].tag # -1
    BY <2>2, LoadedContent
  <2>4. \A b \in DOMAIN Content(Loaded(v)) : Content(Loaded(v))[b] # -1
    BY <2>3 DEF Tags
  <2>. QED BY <2>1, <2>4
<1>3. CommittedBlocksPresent
  BY <1>2 DEF CommittedBlocksPresent
<1>4. ASSUME AtRest
      PROVE  Opens /\ Loaded(HeadIdx).length = ht.length
  <2>1. opened /\ pc = "idle" /\ ~ht.ht_dirty /\ (UseHash => known = hash)
    BY <1>4 DEF AtRest
  <2>2. Updating /\ Commits
    BY <2>1 DEF Inv
  <2>3. Referenced
    BY <2>1, <2>2 DEF Updating, Referenced
  <2>4. HeadIdx = Idx
    BY <2>1, <2>2, <2>3, HeadIsIdx DEF Updating
  <2>5. Opens
    BY <2>3, SoundOpens
  <2>6. ht.length = disk.head[Idx].length
    BY <2>1, RestIs
  <2>. QED BY <2>4, <2>5, <2>6 DEF Loaded
<1>. QED BY <1>1, <1>3, <1>4 DEF SyncedFileOpens

(***************************************************************************)
(* THEOREM. Whatever part of an update has reached the storage, the file   *)
(* as of the last commit can be opened, every node of it verifies and      *)
(* every one of its blocks matches its tag: for every file that is not     *)
(* truncated, of any size, opened by a caller that closes it when a commit *)
(* fails.                                                                  *)
(***************************************************************************)
THEOREM CommittedFileStands ==
  GoesOn = FALSE =>
    (Spec => [](~use.truncates => CommittedVerifies /\ CommittedBlocksPresent))
<1> SUFFICES ASSUME GoesOn = FALSE
             PROVE  Spec => [](~use.truncates => CommittedVerifies /\ CommittedBlocksPresent)
  OBVIOUS
<1>1. Spec => []Safe
  BY SafeHolds
<1>2. Safe => (~use.truncates => CommittedVerifies /\ CommittedBlocksPresent)
  BY CommittedStands DEF Safe
<1>. QED BY <1>1, <1>2, PTL

(***************************************************************************)
(* THEOREM. When all is synced and the root hash is recorded, a fresh open *)
(* verifies every node and finds the length that the writer has given the  *)
(* file, for every file that is not truncated: the block writes, syncs,    *)
(* crashes and opens before may have come in any order.                    *)
(***************************************************************************)
THEOREM SyncedFileCorrect ==
  GoesOn = FALSE => (Spec => [](~use.truncates => SyncedFileOpens))
<1> SUFFICES ASSUME GoesOn = FALSE
             PROVE  Spec => [](~use.truncates => SyncedFileOpens)
  OBVIOUS
<1>1. Spec => []Safe
  BY SafeHolds
<1>2. Safe => (~use.truncates => SyncedFileOpens)
  BY CommittedStands DEF Safe
<1>. QED BY <1>1, <1>2, PTL

-----------------------------------------------------------------------------
(***************************************************************************)
(* The refinement.                                                         *)
(***************************************************************************)
FileNow ==
  IF Referenced THEN Tags(LoadedNodes(HeadIdx), disk.head[HeadIdx].length) ELSE None

(***************************************************************************)
(* What the writer reads back.                                             *)
(***************************************************************************)
CopyNow == IF opened THEN Tags(ht.node, ht.length) ELSE None

(***************************************************************************)
(* The two halves of the refinement mapping, without the checks that the   *)
(* invariant shows to succeed.                                             *)
(***************************************************************************)
LEMMA FileIs ==
  Safe /\ ~use.truncates =>
    /\ CommittedFile = FileNow /\ WorkingCopy = CopyNow
    /\ Referenced => FileNow # None
    /\ opened => CopyNow # None /\ Len(CopyNow) = ht.length
<1> SUFFICES ASSUME Safe, ~use.truncates
             PROVE  /\ CommittedFile = FileNow /\ WorkingCopy = CopyNow
                    /\ Referenced => FileNow # None
                    /\ opened => CopyNow # None /\ Len(CopyNow) = ht.length
  OBVIOUS
<1>1. Shape /\ Inv
  BY DEF Safe
<1>2. ASSUME Referenced
      PROVE  CommittedFile = FileNow /\ FileNow # None
  <2>1. PICK v \in 0 .. 1 : v = HeadIdx
    BY <1>1, <1>2 DEF Inv, Commits
  <2>2. Sound(v)
    BY <1>1, <1>2, <2>1 DEF Inv, Commits
  <2>3. /\ Content(Loaded(v)) = Tags(LoadedNodes(v), disk.head[v].length)
        /\ Tags(LoadedNodes(v), disk.head[v].length) \in Seq(Int)
    BY <1>1, <2>2, LoadedContent
  <2>4. Content(Loaded(HeadIdx)) = FileNow /\ FileNow \in Seq(Int)
    BY <1>2, <2>1, <2>3 DEF FileNow
  <2>5. Opens
    BY <1>1, <1>2, SoundOpens
  <2>. QED BY <1>2, <2>4, <2>5, FsHtreeAssumption DEF CommittedFile
<1>3. ~Referenced => CommittedFile = FileNow
  BY DEF CommittedFile, FileNow
<1>4. ASSUME opened
      PROVE  WorkingCopy = CopyNow /\ CopyNow # None /\ Len(CopyNow) = ht.length
  <2>1. /\ Content(ht) = CopyNow /\ CopyNow \in Seq(Int) /\ Len(CopyNow) = ht.length
    BY <1>1, <1>4, CopyContent DEF CopyNow
  <2>. QED BY <1>4, <2>1, FsHtreeAssumption DEF WorkingCopy
<1>5. ~opened => WorkingCopy = CopyNow
  BY DEF WorkingCopy, CopyNow
<1>. QED BY <1>2, <1>3, <1>4, <1>5

(***************************************************************************)
(* The same in the next state.                                             *)
(***************************************************************************)
LEMMA FileIsNext ==
  (Safe /\ ~use.truncates)' => (CommittedFile = FileNow /\ WorkingCopy = CopyNow)'
<1>1. Safe /\ ~use.truncates => CommittedFile = FileNow /\ WorkingCopy = CopyNow
  BY FileIs
<1>. QED BY <1>1, PTL

(***************************************************************************)
(* The file that an open finds is the same if the header, the tree under   *)
(* it and the choice of the header are.                                    *)
(***************************************************************************)
LEMMA SameFile ==
  ASSUME Shape, Inv, Referenced' = Referenced,
         Referenced => /\ HeadIdx' = HeadIdx
                       /\ LoadedNodes(HeadIdx)' = LoadedNodes(HeadIdx)
                       /\ disk'.head[HeadIdx].length = disk.head[HeadIdx].length
  PROVE  FileNow' = FileNow
BY DEF FileNow, Tags

(***************************************************************************)
(* An open makes the committed file the working copy.                      *)
(***************************************************************************)
LEMMA OpenStep ==
  ASSUME Safe, ~use.truncates, Safe', Open
  PROVE  Abstract!Next
<1>1. Shape /\ Inv /\ Shape'
  BY DEF Safe
<1>2. /\ ~opened /\ opened' = TRUE /\ ht' = Loaded(HeadIdx)
      /\ UNCHANGED <<use, disk, pc, known>>
  BY DEF Open
<1>3. Referenced /\ Referenced' /\ HeadIdx' = HeadIdx /\ HeadIdx \in 0 .. 1
  BY <1>1, <1>2 DEF Inv, Commits, Referenced, UseHash, HeadIdx, NoHash
<1>4. LoadedNodes(HeadIdx)' = LoadedNodes(HeadIdx)
  <2>1. PICK v \in 0 .. 1 : v = HeadIdx
    BY <1>3
  <2>2. LoadedNodes(v)' = LoadedNodes(v)
    BY <1>1, <1>2, QuietDisk
  <2>. QED BY <1>3, <2>1, <2>2
<1>5. FileNow' = FileNow
  BY <1>1, <1>2, <1>3, <1>4, SameFile
<1>6. CopyNow = None /\ CopyNow' = FileNow
  BY <1>2, <1>3 DEF CopyNow, FileNow, Loaded, Tags
<1>7. CommittedFile' = CommittedFile /\ WorkingCopy = None /\ WorkingCopy' = CommittedFile
       /\ CommittedFile # None
  BY <1>2, <1>3, <1>5, <1>6, FileIs, FileIsNext
<1>. QED BY <1>7 DEF Abstract!Next, Abstract!Open

(***************************************************************************)
(* A close or a crash drops the working copy and leaves the file.          *)
(***************************************************************************)
LEMMA CloseStep ==
  ASSUME Safe, ~use.truncates, Safe', Close
  PROVE  Abstract!Next
<1>1. Shape /\ Inv /\ Shape'
  BY DEF Safe
<1>2. /\ opened /\ opened' = FALSE /\ Referenced /\ pc' = "idle"
      /\ UNCHANGED <<use, ht, disk, known>>
  BY DEF Close
<1>3. Referenced' /\ HeadIdx' = HeadIdx /\ HeadIdx \in 0 .. 1
  BY <1>1, <1>2 DEF Inv, Commits, Referenced, UseHash, HeadIdx, NoHash
<1>4. LoadedNodes(HeadIdx)' = LoadedNodes(HeadIdx)
  <2>1. PICK v \in 0 .. 1 : v = HeadIdx
    BY <1>3
  <2>2. LoadedNodes(v)' = LoadedNodes(v)
    BY <1>1, <1>2, QuietDisk
  <2>. QED BY <1>3, <2>1, <2>2
<1>5. FileNow' = FileNow /\ CopyNow' = None
  BY <1>1, <1>2, <1>3, <1>4, SameFile DEF CopyNow
<1>6. CommittedFile' = CommittedFile /\ WorkingCopy # None /\ WorkingCopy' = None
  BY <1>2, <1>5, FileIs, FileIsNext
<1>. QED BY <1>6 DEF Abstract!Next, Abstract!Drop

(***************************************************************************)
(* A block write changes the working copy and nothing a reader would find. *)
(***************************************************************************)
LEMMA WriteBlockStep ==
  ASSUME Safe, ~use.truncates, Safe', NEW b \in Nodes, WriteBlock(b)
  PROVE  Abstract!Next
<1>1. Shape /\ Inv /\ Shape'
  BY DEF Safe
<1>2. /\ opened /\ pc = "idle" /\ opened' = opened /\ writes < use.writes
      /\ b <= ht.length + 1
      /\ UNCHANGED <<use, pc, known>>
  BY DEF WriteBlock, Idle
<1>3. Grown
  BY <1>1, <1>2 DEF Inv, Updating
<1>4. /\ \A n \in Nodes : n # b => ht'.node[n] = ht.node[n]
      /\ ht'.node[b].tag = writes + 1
  BY <1>1, <1>3, WriteBlockSimple
<1>5. /\ ht'.length = IF b > ht.length THEN b ELSE ht.length
      /\ disk'.head = disk.head /\ disk'.node = disk.node
  BY <1>1, WriteBlockShape DEF WriteBlockEffect
<1>6. /\ b \in Nat /\ b >= 1 /\ ht.length \in 0 .. use.nodes /\ use.nodes \in Nat
      /\ writes \in Nat /\ use.writes \in Nat /\ b <= use.nodes
  BY <1>1, NodeNumbers DEF Shape, Tree
<1>7. Referenced' = Referenced /\ HeadIdx' = HeadIdx
  BY <1>2, <1>5 DEF Referenced, UseHash, HeadIdx, NoHash
<1>8. Referenced => LoadedNodes(HeadIdx)' = LoadedNodes(HeadIdx)
  <2> SUFFICES ASSUME Referenced PROVE LoadedNodes(HeadIdx)' = LoadedNodes(HeadIdx)
    OBVIOUS
  <2>1. PICK v \in 0 .. 1 : v = HeadIdx
    BY <1>1 DEF Inv, Commits
  <2>2. LoadedNodes(v)' = LoadedNodes(v)
    BY <1>1, <1>2, <1>5, SameLoaded
  <2>. QED BY <1>7, <2>1, <2>2
<1>9. FileNow' = FileNow
  BY <1>1, <1>5, <1>7, <1>8, SameFile
<1>10. PICK d : d = writes + 1
  OBVIOUS
<1>11. d \in Data
  <2>1. use \in Uses /\ d \in 1 .. use.writes
    BY <1>1, <1>2, <1>6, <1>10 DEF Shape
  <2>. QED BY <2>1 DEF Data
<1>12. CopyNow = Tags(ht.node, ht.length) /\ CopyNow' = Tags(ht'.node, ht'.length)
  BY <1>2 DEF CopyNow, Tags
<1>13. CopyNow # None /\ Len(CopyNow) = ht.length
  BY <1>2, FileIs
<1>14. CopyNow' = [i \in 1 .. (IF b > ht.length THEN b ELSE ht.length)
                     |-> IF i = b THEN d ELSE CopyNow[i]]
  <2>1. ASSUME NEW i \in 1 .. ht'.length
        PROVE  ht'.node[i].tag = IF i = b THEN d ELSE CopyNow[i]
    <3>1. CASE i = b
      BY <1>4, <1>10, <3>1
    <3>2. CASE i # b
      <4>1. i \in 1 .. ht.length
        BY <1>2, <1>5, <1>6, <3>2
      <4>2. i \in Nodes
        BY <1>6, <4>1 DEF Nodes
      <4>. QED BY <1>4, <1>12, <3>2, <4>1, <4>2 DEF Tags
    <3>. QED BY <3>1, <3>2
  <2>2. CopyNow' = [i \in 1 .. ht'.length |-> ht'.node[i].tag]
    BY <1>12 DEF Tags
  <2>. QED BY <1>5, <2>1, <2>2
<1>15. b \in 1 .. Len(CopyNow) + 1
  BY <1>2, <1>6, <1>13
<1>16. /\ CommittedFile' = CommittedFile /\ WorkingCopy = CopyNow /\ WorkingCopy' = CopyNow'
  BY <1>2, <1>9, FileIs, FileIsNext
<1>17. Abstract!Write(b, d)
  BY <1>13, <1>14, <1>15, <1>16 DEF Abstract!Write
<1>18. b \in 1 .. (IF WorkingCopy = None THEN 0 ELSE Len(WorkingCopy) + 1)
  BY <1>13, <1>15, <1>16
<1>. QED BY <1>11, <1>17, <1>18 DEF Abstract!Next

(***************************************************************************)
(* Nothing that a reader or the writer sees changes.                       *)
(***************************************************************************)
Still == CommittedFile' = CommittedFile /\ WorkingCopy' = WorkingCopy

(***************************************************************************)
(* The start of a sync changes nothing.                                    *)
(***************************************************************************)
LEMMA QuietStep ==
  ASSUME Safe, ~use.truncates, Safe', Sync \/ UNCHANGED vars
  PROVE  Still
<1>1. Shape /\ Inv /\ Shape'
  BY DEF Safe
<1>2. /\ UNCHANGED <<use, ht, disk, known, opened>>
      /\ pc' = pc \/ (pc = "idle" /\ pc' = "sync")
  BY DEF Sync, Idle, vars
<1>3. Referenced' = Referenced /\ HeadIdx' = HeadIdx
  BY <1>2 DEF Referenced, UseHash, HeadIdx, NoHash
<1>4. Referenced => LoadedNodes(HeadIdx)' = LoadedNodes(HeadIdx)
  <2> SUFFICES ASSUME Referenced PROVE LoadedNodes(HeadIdx)' = LoadedNodes(HeadIdx)
    OBVIOUS
  <2>1. PICK v \in 0 .. 1 : v = HeadIdx
    BY <1>1 DEF Inv, Commits
  <2>2. LoadedNodes(v)' = LoadedNodes(v)
    BY <1>1, <1>2, QuietDisk
  <2>. QED BY <1>3, <2>1, <2>2
<1>5. FileNow' = FileNow
  BY <1>1, <1>2, <1>3, <1>4, SameFile
<1>6. CopyNow' = CopyNow
  BY <1>2 DEF CopyNow, Tags
<1>. QED BY <1>2, <1>5, <1>6, FileIs, FileIsNext DEF Still

(***************************************************************************)
(* The write of a node, of any node, is invisible.                         *)
(***************************************************************************)
LEMMA SyncNodeStep ==
  ASSUME Safe, ~use.truncates, Safe', NEW n \in Nodes, SyncNode(n)
  PROVE  Still
<1>1. Shape /\ Inv /\ Shape'
  BY DEF Safe
<1>2. opened /\ opened' /\ UNCHANGED <<use, pc, known>>
  BY DEF SyncNode, Syncing
<1>3. /\ Base' = Base
      /\ Referenced => HeadIdx = Idx /\ HeadIdx' = Idx
      /\ \A m \in Nodes : ht'.node[m].tag = ht.node[m].tag
  BY <1>1, SyncNodeInv
<1>4. ht'.length = ht.length /\ ht'.counter = ht.counter /\ disk'.head = disk.head
  BY <1>1, SyncNodeShape DEF SyncNodeEffect
<1>5. Referenced' = Referenced /\ Idx' = Idx
  BY <1>2, <1>4 DEF Referenced, UseHash, Idx, NoHash
<1>6. Referenced => LoadedNodes(HeadIdx)' = LoadedNodes(HeadIdx)
  <2> SUFFICES ASSUME Referenced PROVE LoadedNodes(HeadIdx)' = LoadedNodes(HeadIdx)
    OBVIOUS
  <2>1. LoadedNodes(HeadIdx)' = LoadedNodes(Idx)'
    BY <1>3, <1>5
  <2>. QED BY <1>3, <2>1 DEF Base
<1>7. FileNow' = FileNow
  BY <1>1, <1>3, <1>4, <1>5, <1>6, SameFile
<1>8. CopyNow' = CopyNow
  <2>1. ht.length \in 0 .. use.nodes /\ use.nodes \in Nat
    BY <1>1, NodeNumbers DEF Shape, Tree
  <2>2. \A i \in 1 .. ht.length : i \in Nodes
    BY <2>1 DEF Nodes
  <2>. QED BY <1>2, <1>3, <1>4, <2>2 DEF CopyNow, Tags
<1>. QED BY <1>2, <1>7, <1>8, FileIs, FileIsNext DEF Still

(***************************************************************************)
(* The committed file becomes the working copy.                            *)
(***************************************************************************)
LEMMA CommitIs ==
  ASSUME Safe, ~use.truncates, Safe', opened, opened', use' = use,
         CopyNow' = CopyNow, FileNow' = CopyNow
  PROVE  Abstract!Next
<1>1. WorkingCopy # None /\ CommittedFile' = WorkingCopy /\ WorkingCopy' = WorkingCopy
  BY FileIs, FileIsNext
<1>. QED BY <1>1 DEF Abstract!Next, Abstract!Commit

(***************************************************************************)
(* The write of the header commits the directory file, and is invisible in *)
(* a user's file.                                                          *)
(***************************************************************************)
LEMMA WriteHeadStep ==
  ASSUME Safe, ~use.truncates, Safe', WriteHead
  PROVE  Still \/ Abstract!Next
<1>1. Shape /\ Inv /\ Shape'
  BY DEF Safe
<1>2. opened /\ opened' /\ use' = use
  BY DEF WriteHead, Syncing
<1>3. /\ Base' = ht.node
      /\ UseHash /\ Referenced => HeadIdx' = HeadIdx /\ HeadIdx = Idx
      /\ Referenced' = Referenced
      /\ ~UseHash /\ Referenced => HeadIdx' = Idx'
      /\ Idx' = 1 - Idx
  BY <1>1, WriteHeadInv
<1>4. /\ ht'.node = ht.node /\ ht'.length = ht.length /\ ht'.counter = ht.counter + 1
      /\ disk'.node = disk.node
  BY <1>1, WriteHeadShape DEF WriteHeadEffect
<1>5. Idx \in 0 .. 1 /\ Idx' = (ht.counter + 1) % 2
  BY <1>1, <1>4, IdxIs DEF Idx
<1>6. disk'.head[Idx'].length = ht.length /\ disk'.head[Idx] = disk.head[Idx]
  <2>1. Idx # (ht.counter + 1) % 2
    BY <1>3, <1>5
  <2>. QED BY <1>1, <1>5, <2>1, WriteHeadShape DEF WriteHeadEffect
<1>7. CopyNow' = CopyNow
  BY <1>2, <1>4 DEF CopyNow, Tags
<1>8. CASE ~Referenced
  <2>1. FileNow' = FileNow
    BY <1>3, <1>8 DEF FileNow
  <2>. QED BY <1>2, <1>7, <2>1, FileIs, FileIsNext DEF Still
<1>9. CASE Referenced /\ UseHash
  <2>1. PICK v \in 0 .. 1 : v = Idx
    BY <1>5
  <2>2. LoadedNodes(v)' = LoadedNodes(v)
    BY <1>1, <1>2, <1>4, <1>6, <2>1, SameLoaded
  <2>3. HeadIdx = v /\ HeadIdx' = v
    BY <1>3, <1>9, <2>1
  <2>4. LoadedNodes(HeadIdx)' = LoadedNodes(HeadIdx)
    BY <2>2, <2>3
  <2>5. FileNow' = FileNow
    BY <1>1, <1>3, <1>6, <1>9, <2>1, <2>3, <2>4, SameFile
  <2>. QED BY <1>2, <1>7, <2>5, FileIs, FileIsNext DEF Still
<1>10. CASE Referenced /\ ~UseHash
  <2>1. HeadIdx' = Idx'
    BY <1>3, <1>10
  <2>2. LoadedNodes(HeadIdx)' = LoadedNodes(Idx)'
    BY <2>1
  <2>3. LoadedNodes(HeadIdx)' = ht.node /\ disk'.head[HeadIdx'].length = ht.length
    BY <1>3, <1>6, <2>1, <2>2 DEF Base
  <2>4. FileNow' = CopyNow
    BY <1>2, <1>3, <1>10, <2>3 DEF FileNow, CopyNow, Tags
  <2>. QED BY <1>2, <1>7, <2>4, CommitIs
<1>. QED BY <1>8, <1>9, <1>10

(***************************************************************************)
(* The dummy header completes the creation of the directory file, which    *)
(* commits it.                                                             *)
(***************************************************************************)
LEMMA WriteDummyHeadStep ==
  ASSUME Safe, ~use.truncates, Safe', WriteDummyHead
  PROVE  Still \/ Abstract!Next
<1>1. Shape /\ Inv /\ Shape'
  BY DEF Safe
<1>2. /\ opened /\ opened' /\ pc = "dummy" /\ UNCHANGED <<use, ht>>
  BY DEF WriteDummyHead
<1>3. /\ LoadedNodes(Idx)' = LoadedNodes(Idx)
      /\ ~UseHash => HeadIdx' = Idx /\ Referenced'
      /\ UseHash => ~Referenced /\ ~Referenced'
      /\ Idx' = Idx /\ disk'.head[Idx] = disk.head[Idx]
  BY <1>1, WriteDummyHeadInv
<1>4. CopyNow' = CopyNow
  BY <1>2 DEF CopyNow, Tags
<1>5. CASE UseHash
  <2>1. FileNow' = FileNow
    BY <1>3, <1>5 DEF FileNow
  <2>. QED BY <1>2, <1>4, <2>1, FileIs, FileIsNext DEF Still
<1>6. CASE ~UseHash
  <2>1. ~ht.ht_dirty
    BY <1>1, <1>2 DEF Inv, Updating, Clock
  <2>2. Tags(LoadedNodes(Idx), disk.head[Idx].length) = Tags(ht.node, ht.length)
    BY <1>1, <1>2, <2>1, RestIs
  <2>3. LoadedNodes(HeadIdx)' = LoadedNodes(Idx)'
    BY <1>3, <1>6
  <2>4. FileNow' = Tags(LoadedNodes(Idx), disk.head[Idx].length)
    BY <1>3, <1>6, <2>3 DEF FileNow, Tags
  <2>5. FileNow' = CopyNow
    BY <1>2, <2>2, <2>4 DEF CopyNow
  <2>. QED BY <1>2, <1>4, <2>5, CommitIs
<1>. QED BY <1>5, <1>6

(***************************************************************************)
(* The record of the root hash commits a user's file.                      *)
(***************************************************************************)
LEMMA CommitHashStep ==
  ASSUME Safe, ~use.truncates, Safe', CommitHash
  PROVE  Abstract!Next
<1>1. Shape /\ Inv /\ Shape'
  BY DEF Safe
<1>2. /\ opened /\ opened' /\ pc = "idle" /\ ~ht.ht_dirty /\ UNCHANGED <<use, ht, disk>>
  BY DEF CommitHash
<1>3. HeadIdx' = Idx /\ Referenced' /\ Idx \in 0 .. 1
  BY <1>1, CommitHashInv, IdxIs
<1>4. CopyNow' = CopyNow
  BY <1>2 DEF CopyNow, Tags
<1>5. Tags(LoadedNodes(Idx), disk.head[Idx].length) = Tags(ht.node, ht.length)
  BY <1>1, <1>2, RestIs
<1>6. LoadedNodes(HeadIdx)' = LoadedNodes(Idx)
  <2>1. PICK v \in 0 .. 1 : v = Idx
    BY <1>3
  <2>2. LoadedNodes(v)' = LoadedNodes(v)
    BY <1>1, <1>2, QuietDisk
  <2>3. LoadedNodes(HeadIdx)' = LoadedNodes(v)'
    BY <1>3, <2>1
  <2>. QED BY <2>1, <2>2, <2>3
<1>7. FileNow' = Tags(LoadedNodes(Idx), disk.head[Idx].length)
  BY <1>2, <1>3, <1>6 DEF FileNow, Tags
<1>8. FileNow' = CopyNow
  BY <1>2, <1>5, <1>7 DEF CopyNow
<1>. QED BY <1>2, <1>4, <1>8, CommitIs

(***************************************************************************)
(* THEOREM. The tree with its two versions of everything implements a file *)
(* that is committed in one step: each write to storage is invisible to a  *)
(* reader but for the one that commits, after which an open finds just     *)
(* what the writer had read and written; a crash at any point loses        *)
(* exactly what was not committed. (A file that is truncated is left out   *)
(* by the refinement mapping.)                                             *)
(***************************************************************************)
THEOREM AtomicUpdates == GoesOn = FALSE => (Spec => ImplementsAtomicFile)
<1> SUFFICES ASSUME GoesOn = FALSE PROVE Spec => ImplementsAtomicFile
  OBVIOUS
<1>1. Init => Abstract!Init
  <2> SUFFICES ASSUME Init PROVE CommittedFile = None /\ WorkingCopy = << >>
    BY DEF Abstract!Init
  <2>1. ~Referenced
    BY DEF Init, Referenced
  <2>2. opened = TRUE /\ ht.length = 0
    BY DEF Init, EmptyTree
  <2>3. Content(ht) = << >>
    BY <2>2 DEF Content
  <2>. QED BY <2>1, <2>2, <2>3 DEF CommittedFile, WorkingCopy
<1>2. Safe /\ Safe' /\ [Next]_vars => [Abstract!Next]_<<CommittedFile, WorkingCopy>>
  <2> SUFFICES ASSUME Safe, Safe', [Next]_vars
               PROVE  Abstract!Next \/ Still
    BY DEF Still
  <2>1. use' = use
    BY DEF Next, vars, Open, Close, WriteBlock, Truncate, TruncateFails, Sync,
           SyncNode, WriteHead, WriteDummyHead, CommitHash
  <2>2. CASE use.truncates
    BY <2>1, <2>2 DEF CommittedFile, WorkingCopy, Still
  <2>3. CASE ~use.truncates
    <3>1. ASSUME NEW l \in 0 .. use.nodes, Truncate(l) \/ TruncateFails(l) PROVE FALSE
      BY <2>3, <3>1 DEF Truncate, TruncateFails, MayTruncate
    <3>2. ASSUME NEW b \in Nodes, WriteBlock(b) PROVE Abstract!Next
      BY <2>3, <3>2, WriteBlockStep
    <3>3. ASSUME NEW n \in Nodes, SyncNode(n) PROVE Still
      BY <2>3, <3>3, SyncNodeStep
    <3>4. CASE Open
      BY <2>3, <3>4, OpenStep
    <3>5. CASE Close
      BY <2>3, <3>5, CloseStep
    <3>6. CASE Sync \/ UNCHANGED vars
      BY <2>3, <3>6, QuietStep
    <3>7. CASE WriteHead
      BY <2>3, <3>7, WriteHeadStep
    <3>8. CASE WriteDummyHead
      BY <2>3, <3>8, WriteDummyHeadStep
    <3>9. CASE CommitHash
      BY <2>3, <3>9, CommitHashStep
    <3>. QED BY <3>1, <3>2, <3>3, <3>4, <3>5, <3>6, <3>7, <3>8, <3>9 DEF Next
  <2>. QED BY <2>2, <2>3
<1>3. Spec => []Safe
  BY SafeHolds
<1>. QED BY <1>1, <1>2, <1>3, PTL
    DEF Spec, ImplementsAtomicFile, Abstract!Spec, Abstract!vars
=============================================================================
