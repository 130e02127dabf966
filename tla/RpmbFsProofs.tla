---------------------------- MODULE RpmbFsProofs ----------------------------
(***************************************************************************)
(* The RPMB file system of module RpmbFs, for every set of names, contents *)
(* and buffers, and every size of the partition, of the cache, of the      *)
(* traversal buffer and of the temporary block: its layout, its cache,     *)
(* what a creation leaves, and that it implements module FileStore.        *)
(***************************************************************************)
EXTENDS RpmbFs, FiniteSetTheorems, SequenceTheorems, WellFoundedInduction, TLAPS

-----------------------------------------------------------------------------
(***************************************************************************)
(* Sequences by their indices: the cache, the writes that are left and the *)
(* contents of files, whatever their elements are.                         *)
(***************************************************************************)
IsTuple(s) == \E n \in Nat : s = [i \in 1 .. n |-> s[i]]

(***************************************************************************)
(* A function on 1 .. n is a sequence of length n.                         *)
(***************************************************************************)
LEMMA TupleLen ==
  ASSUME NEW s, NEW n \in Nat, s = [i \in 1 .. n |-> s[i]]
  PROVE  Len(s) = n /\ DOMAIN s = 1 .. n /\ IsTuple(s)
<1> DEFINE S == {s[i] : i \in 1 .. n}
<1>1. s \in [1 .. n -> S]
  OBVIOUS
<1>2. s \in Seq(S)
  BY <1>1
<1>3. DOMAIN s = 1 .. n /\ DOMAIN s = 1 .. Len(s) /\ Len(s) \in Nat
  BY <1>1, <1>2, LenProperties
<1>. QED BY <1>3 DEF IsTuple

(***************************************************************************)
(* What is known of a sequence.                                            *)
(***************************************************************************)
LEMMA TupleHas ==
  ASSUME NEW s, IsTuple(s)
  PROVE  /\ Len(s) \in Nat /\ DOMAIN s = 1 .. Len(s)
         /\ s = [i \in 1 .. Len(s) |-> s[i]]
         /\ s \in Seq({s[i] : i \in 1 .. Len(s)})
<1>1. PICK n \in Nat : s = [i \in 1 .. n |-> s[i]]
  BY DEF IsTuple
<1>2. Len(s) = n /\ DOMAIN s = 1 .. n
  BY <1>1, TupleLen
<1>3. s \in [1 .. n -> {s[i] : i \in 1 .. n}]
  BY <1>1
<1>. QED BY <1>1, <1>2, <1>3

(***************************************************************************)
(* The empty sequence.                                                     *)
(***************************************************************************)
LEMMA TupleEmpty ==
  IsTuple(<<>>) /\ Len(<<>>) = 0
<1>1. <<>> = [i \in 1 .. 0 |-> <<>>[i]]
  OBVIOUS
<1>. QED BY <1>1, TupleLen

(***************************************************************************)
(* Any other one has an element.                                           *)
(***************************************************************************)
LEMMA TupleNotEmpty ==
  ASSUME NEW s, IsTuple(s), s # <<>>
  PROVE  Len(s) \in Nat \ {0}
BY TupleHas, EmptySeq

(***************************************************************************)
(* Tail drops the first element.                                           *)
(***************************************************************************)
LEMMA TupleTail ==
  ASSUME NEW s, IsTuple(s), s # <<>>
  PROVE  /\ IsTuple(Tail(s)) /\ Len(Tail(s)) = Len(s) - 1
         /\ \A i \in 1 .. Len(s) - 1 : Tail(s)[i] = s[i + 1]
<1> DEFINE S == {s[i] : i \in 1 .. Len(s)}
<1>1. s \in Seq(S) /\ Len(s) \in Nat \ {0}
  BY TupleHas, TupleNotEmpty
<1>2. Tail(s) \in Seq(S) /\ Len(Tail(s)) = Len(s) - 1
         /\ \A i \in 1 .. Len(s) - 1 : Tail(s)[i] = s[i + 1]
  BY <1>1, HeadTailProperties
<1>3. Tail(s) = [i \in 1 .. Len(s) - 1 |-> Tail(s)[i]]
  BY <1>1, <1>2, LenProperties
<1>4. PICK k \in Nat : k = Len(s) - 1
  BY <1>1
<1>5. IsTuple(Tail(s))
  BY <1>3, <1>4, TupleLen
<1>. QED BY <1>2, <1>5

(***************************************************************************)
(* A sequence with one more element.                                       *)
(***************************************************************************)
LEMMA TupleAppend ==
  ASSUME NEW s, IsTuple(s), NEW w
  PROVE  /\ IsTuple(s \o <<w>>) /\ Len(s \o <<w>>) = Len(s) + 1
         /\ s \o <<w>> # <<>>
         /\ \A i \in 1 .. Len(s) : (s \o <<w>>)[i] = s[i]
         /\ (s \o <<w>>)[Len(s) + 1] = w
<1> DEFINE S == {s[i] : i \in 1 .. Len(s)} \cup {w}
           u == s \o <<w>>
<1>1. s \in Seq(S) /\ Len(s) \in Nat
  <2>1. Len(s) \in Nat /\ s = [i \in 1 .. Len(s) |-> s[i]]
    BY TupleHas
  <2>2. \A i \in 1 .. Len(s) : s[i] \in S
    OBVIOUS
  <2>3. s \in [1 .. Len(s) -> S]
    BY <2>1, <2>2
  <2>. QED BY <2>1, <2>3
<1>2. <<w>> \in Seq(S) /\ Len(<<w>>) = 1 /\ <<w>>[1] = w
  OBVIOUS
<1>3. u \in Seq(S) /\ Len(u) = Len(s) + 1
         /\ \A i \in 1 .. Len(s) : u[i] = s[i]
  BY <1>1, <1>2, ConcatProperties
<1>4. u[Len(s) + 1] = w
  BY <1>1, <1>2, ConcatProperties
<1>5. u = [i \in 1 .. Len(s) + 1 |-> u[i]]
  BY <1>1, <1>3, LenProperties
<1>6. IsTuple(u)
  <2>1. PICK k \in Nat : k = Len(s) + 1
    BY <1>1
  <2>. QED BY <1>5, <2>1, TupleLen
<1>. QED BY <1>1, <1>3, <1>4, <1>6, TupleEmpty

(***************************************************************************)
(* A sequence of one element.                                              *)
(***************************************************************************)
LEMMA TupleOne ==
  ASSUME NEW w
  PROVE  IsTuple(<<w>>) /\ Len(<<w>>) = 1 /\ <<w>>[1] = w /\ <<w>> # <<>>
<1>1. <<w>> = [i \in 1 .. 1 |-> <<w>>[i]]
  OBVIOUS
<1>2. IsTuple(<<w>>) /\ Len(<<w>>) = 1
  BY <1>1, TupleLen
<1>. QED BY <1>2

(***************************************************************************)
(* Nothing before it.                                                      *)
(***************************************************************************)
LEMMA EmptyAppend ==
  ASSUME NEW w
  PROVE  <<>> \o <<w>> = <<w>>
<1>1. <<w>> \in Seq({w})
  OBVIOUS
<1>. QED BY <1>1, ConcatEmptySeq

(***************************************************************************)
(* Least and greatest of a finite set of numbers, by which Free, SlotOf    *)
(* and the place of a moved file are chosen.                               *)
(***************************************************************************)
LEMMA GreatestExists ==
  ASSUME NEW S, S \subseteq Nat, IsFiniteSet(S), S # {}
  PROVE  \E x \in S : \A y \in S : x >= y
<1> DEFINE Bad == {U \in SUBSET S : U # {} /\ ~ \E x \in U : \A y \in U : x >= y}
<1> HIDE DEF Bad
<1>1. IsWellFoundedOn(StrictSubsetOrdering(S), SUBSET S)
  BY FS_StrictSubsetOrderingWellFounded, FS_FiniteSubsetsOfFinite
<1>2. ASSUME Bad # {} PROVE FALSE
  <2>1. PICK U \in Bad : \A W \in Bad : ~ (<<W, U>> \in StrictSubsetOrdering(S))
    <3>1. Bad \subseteq SUBSET S
      BY DEF Bad
    <3>. QED BY <1>1, <1>2, <3>1, WFMin
  <2>2. PICK e \in U : TRUE
    BY DEF Bad
  <2>3. U \ {e} \notin Bad
    BY <2>1, <2>2 DEF StrictSubsetOrdering, Bad
  <2>4. CASE U \ {e} = {}
    BY <2>2, <2>4 DEF Bad
  <2>5. CASE \E x \in U \ {e} : \A y \in U \ {e} : x >= y
    <3>1. PICK x \in U \ {e} : \A y \in U \ {e} : x >= y
      BY <2>5
    <3>2. x \in Nat /\ e \in Nat
      BY <2>2 DEF Bad
    <3>3. CASE x >= e
      BY <3>1, <3>3 DEF Bad
    <3>4. CASE e >= x
      BY <2>2, <3>1, <3>2, <3>4 DEF Bad
    <3>. QED BY <3>2, <3>3, <3>4
  <2>. QED BY <2>2, <2>3, <2>4, <2>5 DEF Bad
<1>. QED BY <1>2 DEF Bad

(***************************************************************************)
(* The same for the least.                                                 *)
(***************************************************************************)
LEMMA LeastExists ==
  ASSUME NEW S, S \subseteq Nat, IsFiniteSet(S), S # {}
  PROVE  \E x \in S : \A y \in S : x =< y
<1> DEFINE Bad == {U \in SUBSET S : U # {} /\ ~ \E x \in U : \A y \in U : x =< y}
<1> HIDE DEF Bad
<1>1. IsWellFoundedOn(StrictSubsetOrdering(S), SUBSET S)
  BY FS_StrictSubsetOrderingWellFounded, FS_FiniteSubsetsOfFinite
<1>2. ASSUME Bad # {} PROVE FALSE
  <2>1. PICK U \in Bad : \A W \in Bad : ~ (<<W, U>> \in StrictSubsetOrdering(S))
    <3>1. Bad \subseteq SUBSET S
      BY DEF Bad
    <3>. QED BY <1>1, <1>2, <3>1, WFMin
  <2>2. PICK e \in U : TRUE
    BY DEF Bad
  <2>3. U \ {e} \notin Bad
    BY <2>1, <2>2 DEF StrictSubsetOrdering, Bad
  <2>4. CASE U \ {e} = {}
    BY <2>2, <2>4 DEF Bad
  <2>5. CASE \E x \in U \ {e} : \A y \in U \ {e} : x =< y
    <3>1. PICK x \in U \ {e} : \A y \in U \ {e} : x =< y
      BY <2>5
    <3>2. x \in Nat /\ e \in Nat
      BY <2>2 DEF Bad
    <3>3. CASE x =< e
      BY <3>1, <3>3 DEF Bad
    <3>4. CASE e =< x
      BY <2>2, <3>1, <3>2, <3>4 DEF Bad
    <3>. QED BY <3>2, <3>3, <3>4
  <2>. QED BY <2>2, <2>3, <2>4, <2>5 DEF Bad
<1>. QED BY <1>2 DEF Bad

(***************************************************************************)
(* Min is a member.                                                        *)
(***************************************************************************)
LEMMA MinIsIn ==
  ASSUME NEW S, S \subseteq Nat, IsFiniteSet(S), S # {}
  PROVE  Min(S) \in S
BY LeastExists DEF Min

(***************************************************************************)
(* Max is a member above all others.                                       *)
(***************************************************************************)
LEMMA MaxIsAbove ==
  ASSUME NEW S, S \subseteq Nat, IsFiniteSet(S), S # {}
  PROVE  Max(S) \in S /\ \A x \in S : Max(S) >= x
BY GreatestExists DEF Max

-----------------------------------------------------------------------------
(***************************************************************************)
(* Blocks that are not entries of the table.  A traversal tells the two    *)
(* apart by where they lie, and so do the definitions below.               *)
(***************************************************************************)
Data == Vals \cup {Zero}

(***************************************************************************)
(* Block c belongs to the file of entry e.                                 *)
(***************************************************************************)
In(e, c) == e.active /\ e.start <= c /\ c < e.start + e.size

(***************************************************************************)
(* The table of memory m is 1 .. l: entries, of which the last one is      *)
(* flagged FILE_IS_LAST_ENTRY and is not in use.  That it is never in use  *)
(* is what lets it be the end: rpmb_fs_open_internal() writes a new last   *)
(* entry before it takes the old one.                                      *)
(***************************************************************************)
Ends(m, l) ==
  /\ l \in Addrs
  /\ \A a \in 1 .. l : m[a] \in Entries
  /\ m[l].last = TRUE /\ m[l].active = FALSE
  /\ \A a \in 1 .. l - 1 : m[a].last = FALSE

(***************************************************************************)
(* The contents that entry e would have in slot k lie in the partition,    *)
(* beyond the table and apart from those of the other entries.             *)
(***************************************************************************)
Fits(m, l, k, e) ==
  /\ e \in Entries
  /\ \A c \in Nat : In(e, c) =>
       /\ c \in Addrs /\ c > l
       /\ \A b \in 1 .. l : b # k => ~In(m[b], c)

(***************************************************************************)
(* So it is for all entries.                                               *)
(***************************************************************************)
Apart(m, l) == \A a \in 1 .. l : Fits(m, l, a, m[a])

(***************************************************************************)
(* The cache c holds what m does.                                          *)
(***************************************************************************)
Fresh(c, m, l) == \A a \in 1 .. l : a <= Len(c) => c[a] = m[a]

(***************************************************************************)
(* There is one end.                                                       *)
(***************************************************************************)
LEMMA EndIs ==
  ASSUME NEW m, NEW l, Ends(m, l)
  PROVE  LastAddr(m) = l /\ l \in Addrs
<1>1. l \in Addrs /\ Addrs \subseteq Nat
  BY DEF Ends, Addrs
<1>2. m[l].last /\ \A b \in 1 .. l - 1 : ~m[b].last
  BY DEF Ends
<1>3. ASSUME NEW a \in Addrs, m[a].last, \A b \in 1 .. a - 1 : ~m[b].last
      PROVE  a = l
  <2>1. a < l => a \in 1 .. l - 1
    BY <1>1 DEF Addrs
  <2>2. l < a => l \in 1 .. a - 1
    BY <1>1 DEF Addrs
  <2>3. ~(a < l) /\ ~(l < a)
    BY <1>2, <1>3, <2>1, <2>2
  <2>. QED BY <1>1, <2>3 DEF Addrs
<1>. QED BY <1>1, <1>2, <1>3 DEF LastAddr

(***************************************************************************)
(* The fields of an entry.                                                 *)
(***************************************************************************)
LEMMA EntryIs ==
  ASSUME NEW e \in Entries
  PROVE  /\ e.start \in Nat /\ e.size \in Nat
         /\ e.active \in BOOLEAN /\ e.last \in BOOLEAN
         /\ e.file \in Files \cup {None}
         /\ e = [file |-> e.file, start |-> e.start, size |-> e.size,
                 active |-> e.active, last |-> e.last]
BY DEF Entries

(***************************************************************************)
(* An entry that has been removed, and one that ends the table.            *)
(***************************************************************************)
LEMMA ClearedIs ==
  /\ Cleared \in Entries /\ LastEntry \in Entries
  /\ Cleared.active = FALSE /\ Cleared.last = FALSE /\ Cleared.size = 0
  /\ LastEntry.active = FALSE /\ LastEntry.last = TRUE
<1>1. Cleared \in Entries /\ Cleared.active = FALSE /\ Cleared.last = FALSE
        /\ Cleared.size = 0
  BY DEF Entries, Cleared
<1>2. PICK c \in Entries : c = Cleared
  BY <1>1
<1>3. PICK k : k = [c EXCEPT !.last = TRUE]
  OBVIOUS
<1>4. k \in Entries
  BY <1>2, <1>3 DEF Entries
<1>5. k.last = TRUE
  BY <1>2, <1>3 DEF Entries
<1>6. k.active = c.active
  BY <1>2, <1>3 DEF Entries
<1>. QED BY <1>1, <1>2, <1>3, <1>4, <1>5, <1>6 DEF LastEntry

(***************************************************************************)
(* The entry of a file that has been created.                              *)
(***************************************************************************)
LEMMA NewEntryIs ==
  ASSUME NEW f \in Files, NEW e, e = NewEntry(f)
  PROVE  e \in Entries /\ e.file = f /\ e.active = TRUE /\ e.last = FALSE
           /\ e.size = 0 /\ e.start = 0
<1>1. e = [file |-> f, start |-> 0, size |-> 0, active |-> TRUE,
            last |-> FALSE]
  BY DEF NewEntry, Cleared
<1>. QED BY <1>1 DEF Entries

(***************************************************************************)
(* Region, by its members.                                                 *)
(***************************************************************************)
LEMMA RegionIs ==
  ASSUME NEW e \in Entries, NEW c
  PROVE  c \in Region(e) <=> c \in Nat /\ In(e, c)
<1>1. e.start \in Nat /\ e.size \in Nat
  BY EntryIs
<1>. QED BY <1>1 DEF Region, In

(***************************************************************************)
(* The three ways in which operations change an entry.                     *)
(***************************************************************************)
MovedE(e, s, n) == [e EXCEPT !.start = s, !.size = n]

ResizedE(e, n) == [e EXCEPT !.size = n]

RenamedE(e, g) == [e EXCEPT !.file = g]

(***************************************************************************)
(* A file that has moved.                                                  *)
(***************************************************************************)
LEMMA MovedEntry ==
  ASSUME NEW e \in Entries, NEW s \in Nat, NEW n \in Nat,
         NEW k, k = MovedE(e, s, n)
  PROVE  k \in Entries /\ k.file = e.file /\ k.active = e.active
           /\ k.last = e.last /\ k.start = s /\ k.size = n
<1>1. PICK f, b, d, x, y :
        e = [file |-> f, start |-> b, size |-> d, active |-> x, last |-> y]
  BY EntryIs
<1>2. k = [file |-> f, start |-> s, size |-> n, active |-> x, last |-> y]
  BY <1>1 DEF MovedE
<1>3. e.file = f /\ e.active = x /\ e.last = y
  BY <1>1
<1>. QED BY <1>2, <1>3, EntryIs DEF Entries

(***************************************************************************)
(* A file that has been cut.                                               *)
(***************************************************************************)
LEMMA ResizedEntry ==
  ASSUME NEW e \in Entries, NEW n \in Nat, NEW k, k = ResizedE(e, n)
  PROVE  k \in Entries /\ k.file = e.file /\ k.active = e.active
           /\ k.last = e.last /\ k.start = e.start /\ k.size = n
<1>1. k = [file |-> e.file, start |-> e.start, size |-> n,
                 active |-> e.active, last |-> e.last]
  BY EntryIs DEF ResizedE
<1>. QED BY <1>1, EntryIs DEF Entries

(***************************************************************************)
(* A file that has been renamed.                                           *)
(***************************************************************************)
LEMMA RenamedEntry ==
  ASSUME NEW e \in Entries, NEW g \in Files, NEW k, k = RenamedE(e, g)
  PROVE  k \in Entries /\ k.file = g /\ k.active = e.active
           /\ k.last = e.last /\ k.start = e.start /\ k.size = e.size
<1>1. k = [file |-> g, start |-> e.start, size |-> e.size,
                 active |-> e.active, last |-> e.last]
  BY EntryIs DEF RenamedE
<1>. QED BY <1>1, EntryIs DEF Entries

(***************************************************************************)
(* With a fresh cache, what a traversal sees is what the device holds.     *)
(***************************************************************************)
LEMMA TableIs ==
  ASSUME NEW l, Ends(mem, l), Fresh(cache, mem, l), IsTuple(cache)
  PROVE  /\ LastAddr(Table) = l /\ Fat = 1 .. l
         /\ \A a \in 1 .. l : Entry(a) = mem[a]
         /\ \A f : Slot(f) = {a \in 1 .. l : mem[a].active /\ mem[a].file = f}
<1>1. l \in Addrs /\ 1 .. l \subseteq Addrs /\ Addrs \subseteq Nat /\ l \in Nat
  BY RpmbFsAssumption DEF Ends, Addrs
<1>2. \A a \in 1 .. l : Entry(a) = mem[a]
  BY DEF Entry, Fresh
<1>3. \A a \in 1 .. l : Table[a] = mem[a]
  BY <1>1, <1>2 DEF Table
<1>4. l \in 1 .. l /\ 1 .. l - 1 \subseteq 1 .. l
  BY <1>1 DEF Addrs
<1>5. Ends(Table, l)
  BY <1>1, <1>3, <1>4 DEF Ends
<1>6. LastAddr(Table) = l
  BY <1>5, EndIs
<1>. QED BY <1>2, <1>6 DEF Fat, Slot

(***************************************************************************)
(* So a lookup by name finds an entry in use, and not the last one.        *)
(***************************************************************************)
LEMMA SlotIs ==
  ASSUME NEW l, Ends(mem, l), Fresh(cache, mem, l), IsTuple(cache), NEW f
  PROVE  /\ Exists(f) <=> \E a \in 1 .. l : mem[a].active /\ mem[a].file = f
         /\ Exists(f) => /\ SlotOf(f) \in 1 .. l - 1
                         /\ mem[SlotOf(f)].active = TRUE
                         /\ mem[SlotOf(f)].file = f
                         /\ mem[SlotOf(f)].last = FALSE
                         /\ mem[SlotOf(f)] \in Entries
                         /\ Entry(SlotOf(f)) = mem[SlotOf(f)]
<1> DEFINE S == {a \in 1 .. l : mem[a].active /\ mem[a].file = f}
<1>1. Slot(f) = S
  BY TableIs
<1>2. Exists(f) <=> S # {}
  BY <1>1 DEF Exists
<1>3. ASSUME S # {}
      PROVE  SlotOf(f) \in S
  <2>1. l \in Nat /\ S \subseteq 1 .. l
    BY DEF Ends, Addrs
  <2>2. IsFiniteSet(S)
    BY <2>1, FS_Interval, FS_Subset
  <2>3. S \subseteq Nat
    BY <2>1
  <2>. QED BY <1>1, <1>3, <2>2, <2>3, MinIsIn DEF SlotOf
<1>4. ASSUME NEW a \in S
      PROVE  a \in 1 .. l - 1 /\ mem[a].active = TRUE /\ mem[a].file = f
               /\ mem[a].last = FALSE /\ mem[a] \in Entries
               /\ Entry(a) = mem[a]
  <2>1. a \in 1 .. l /\ l \in Nat /\ a # l
    BY DEF Ends, Addrs
  <2>2. a \in 1 .. l - 1
    BY <2>1
  <2>3. mem[a] \in Entries /\ mem[a].last = FALSE
    BY <2>1, <2>2 DEF Ends
  <2>4. mem[a].active = TRUE
    BY <2>3, EntryIs
  <2>. QED BY <2>1, <2>2, <2>3, <2>4, TableIs
<1>. QED BY <1>2, <1>3, <1>4

(***************************************************************************)
(* And the pool of read_fat() has all of the table and of the contents.    *)
(***************************************************************************)
LEMMA TakenIs ==
  ASSUME NEW l, Ends(mem, l), Fresh(cache, mem, l), IsTuple(cache),
         NEW c \in Nat
  PROVE  c \in Taken <=> c \in 1 .. l \/ \E a \in 1 .. l : In(mem[a], c)
<1>1. Fat = 1 .. l /\ \A a \in 1 .. l : Entry(a) = mem[a]
  BY TableIs
<1>2. \A a \in 1 .. l : mem[a] \in Entries
  BY DEF Ends
<1>3. \A a \in 1 .. l : c \in Region(mem[a]) <=> In(mem[a], c)
  BY <1>2, RegionIs
<1>. QED BY <1>1, <1>3 DEF Taken

(***************************************************************************)
(* Min and Max of two numbers.                                             *)
(***************************************************************************)
LEMMA LesserOf ==
  ASSUME NEW a \in Nat, NEW b \in Nat
  PROVE  Min({a, b}) \in {a, b}
<1>1. \E x \in {a, b} : \A y \in {a, b} : x =< y
  <2>1. CASE a =< b
    BY <2>1
  <2>2. CASE b =< a
    BY <2>2
  <2>. QED BY <2>1, <2>2
<1>. QED BY <1>1 DEF Min

(***************************************************************************)
(* The greater one.                                                        *)
(***************************************************************************)
LEMMA GreaterOf ==
  ASSUME NEW a \in Nat, NEW b \in Nat
  PROVE  Max({a, b}) = IF a > b THEN a ELSE b
<1>1. \E x \in {a, b} : \A y \in {a, b} : x >= y
  <2>1. CASE a >= b
    BY <2>1
  <2>2. CASE b >= a
    BY <2>2
  <2>. QED BY <2>1, <2>2
<1>. QED BY <1>1 DEF Max

(***************************************************************************)
(* How far the buffer of a traversal reaches is a number.                  *)
(***************************************************************************)
LEMMA BufferedNat ==
  ASSUME NEW k \in Nat
  PROVE  Buffered(k) \in Nat
<1>1. CacheEntries \in Nat /\ RdEntries \in Nat /\ RdEntries > 0
  BY RpmbFsAssumption
<1>2. PICK n \in Nat : n = Min({CacheEntries, RdEntries})
  BY <1>1, LesserOf
<1>3. CASE k =< n
  BY <1>2, <1>3 DEF Buffered
<1>4. CASE k > n
  <2>1. PICK p \in Nat : p = k - n + RdEntries - 1
    BY <1>1, <1>2, <1>4
  <2>2. PICK q \in Nat : q = p \div RdEntries
    BY <1>1, <2>1
  <2>3. Buffered(k) = n + RdEntries * q
    BY <1>2, <1>4, <2>1, <2>2 DEF Buffered
  <2>4. RdEntries * q \in Nat
    BY <1>1, <2>2
  <2>. QED BY <1>2, <2>3, <2>4
<1>. QED BY <1>2, <1>3, <1>4

(***************************************************************************)
(* The cache that a traversal leaves behind.                               *)
(***************************************************************************)
LEMMA TraversedIs ==
  ASSUME IsTuple(cache), NEW k \in Nat
  PROVE  /\ IsTuple(Traversed(k))
         /\ \A a \in 1 .. Len(Traversed(k)) : Traversed(k)[a] = Entry(a)
<1> DEFINE n == IF CacheEntries = 0 THEN 0 ELSE Min({CacheEntries, Buffered(k)})
<1>1. n \in Nat
  <2>1. CacheEntries \in Nat /\ Buffered(k) \in Nat
    BY RpmbFsAssumption, BufferedNat
  <2>. QED BY <2>1, LesserOf
<1>2. Len(cache) \in Nat
  BY TupleHas
<1>3. PICK h \in Nat : h = IF n > Len(cache) THEN n ELSE Len(cache)
  BY <1>1, <1>2
<1>4. Traversed(k) = [a \in 1 .. h |-> Entry(a)]
  BY <1>3 DEF Traversed
<1> HIDE DEF n
<1>5. \A a \in 1 .. h : Traversed(k)[a] = Entry(a)
  BY <1>4
<1>6. Traversed(k) = [a \in 1 .. h |-> Traversed(k)[a]]
  BY <1>4, <1>5
<1>7. IsTuple(Traversed(k)) /\ Len(Traversed(k)) = h
  BY <1>6, TupleLen
<1>. QED BY <1>5, <1>7

(***************************************************************************)
(* It is as fresh as the one it was made from.                             *)
(***************************************************************************)
LEMMA TraversedFresh ==
  ASSUME IsTuple(cache), NEW l, Ends(mem, l), Fresh(cache, mem, l), NEW k \in Nat
  PROVE  IsTuple(Traversed(k)) /\ Fresh(Traversed(k), mem, l)
<1>1. \A a \in 1 .. l : Entry(a) = mem[a]
  BY TableIs
<1>2. Len(Traversed(k)) \in Nat
  BY TraversedIs, TupleHas
<1>3. ASSUME NEW a \in 1 .. l, a <= Len(Traversed(k))
      PROVE  Traversed(k)[a] = mem[a]
  <2>1. l \in Nat
    BY DEF Ends, Addrs
  <2>2. a \in 1 .. Len(Traversed(k))
    BY <1>2, <1>3, <2>1
  <2>. QED BY <1>1, <2>2, TraversedIs
<1>. QED BY <1>3, TraversedIs DEF Fresh

-----------------------------------------------------------------------------
(***************************************************************************)
(* The table can grow by one entry.                                        *)
(***************************************************************************)
Spare(m, l) == l + 1 \in Addrs /\ \A b \in 1 .. l : ~In(m[b], l + 1)

(***************************************************************************)
(* A write that is not the last one of an operation: to a block beyond the *)
(* table, or of an entry that is cleared.                                  *)
(***************************************************************************)
Early(l, w) ==
  \/ w[1] \in Nat /\ w[1] > l
  \/ w[1] \in 1 .. l - 1 /\ w[2] = Cleared

(***************************************************************************)
(* Entry e may be written to slot k below the end of the table.            *)
(***************************************************************************)
Suits(m, l, k, e) == k \in 1 .. l - 1 /\ Fits(m, l, k, e) /\ e.last = FALSE

(***************************************************************************)
(* Entry e, new or cleared, may take the place of the last one, at the end *)
(* of the table; it has no contents.                                       *)
(***************************************************************************)
Grows(m, l, k, e) ==
  /\ k = l /\ e \in Entries /\ e.last = FALSE /\ e.size = 0
  /\ Spare(m, l)

(***************************************************************************)
(* The new end of the table has been written.                              *)
(***************************************************************************)
NextEnd(m, l, c) ==
  m[l + 1] = LastEntry /\ (l + 1 <= Len(c) => c[l + 1] = LastEntry)

(***************************************************************************)
(* It has been, or is about to be.                                         *)
(***************************************************************************)
Marked(m, l, t, c) ==
  \/ Len(t) = 1 /\ NextEnd(m, l, c)
  \/ Len(t) = 2 /\ t[1] = <<l + 1, LastEntry>>

(***************************************************************************)
(* The last write of an operation: to a block of contents, to an entry     *)
(* below the end, or the one that makes the table grow.                    *)
(***************************************************************************)
Final(m, l, t, c) ==
  \E k, e :
    /\ t[Len(t)] = <<k, e>>
    /\ \/ k \in Nat /\ k > l
       \/ Suits(m, l, k, e)
       \/ Grows(m, l, k, e) /\ Marked(m, l, t, c)

(***************************************************************************)
(* The writes that are left leave the layout sound wherever they stop.     *)
(***************************************************************************)
Plan(m, l, t, c) ==
  /\ \A i \in 1 .. Len(t) - 1 : Early(l, t[i])
  /\ t # <<>> => Final(m, l, t, c)

(***************************************************************************)
(* A file f exists.                                                        *)
(***************************************************************************)
Has(m, l, f) == \E a \in 1 .. l : m[a].active /\ m[a].file = f

(***************************************************************************)
(* Slot k is not in use.                                                   *)
(***************************************************************************)
FreeIs(m, l, k) == k \in 1 .. l /\ m[k].active = FALSE

(***************************************************************************)
(* File f is in slot k.                                                    *)
(***************************************************************************)
Slotted(m, l, f, k) ==
  k \in 1 .. l - 1 /\ m[k] \in Entries /\ m[k].active = TRUE /\ m[k].file = f
    /\ m[k].last = FALSE

(***************************************************************************)
(* The file that is being created exists, or will after the writes that    *)
(* are left, none of which takes it away: rpmb_fs_create() finds it.       *)
(***************************************************************************)
Ready(m, l, t, f) ==
  /\ \A i \in 1 .. Len(t) - 1 : t[i][1] \in Nat /\ t[i][1] > l
  /\ \/ /\ t # <<>> /\ t[Len(t)][1] \in 1 .. l
        /\ t[Len(t)][2].active /\ t[Len(t)][2].file = f
     \/ Has(m, l, f) /\ \A i \in 1 .. Len(t) : t[i][1] \in Nat /\ t[i][1] > l

(***************************************************************************)
(* Until it exists, the slot k of the handle is the one that the last      *)
(* write is for.                                                           *)
(***************************************************************************)
Takes(m, l, t, k) == t # <<>> /\ t[Len(t)][1] = k /\ FreeIs(m, l, k)

(***************************************************************************)
(* The temporary file keeps its name until the last write.                 *)
(***************************************************************************)
Renames(m, l, t, f) ==
  \E k : /\ Slotted(m, l, f, k) /\ t[Len(t)][1] = k
         /\ \A i \in 1 .. Len(t) - 1 : t[i][1] # k

(***************************************************************************)
(* Slot k, of a file that has not come to exist, may be cleared: it is not *)
(* in use and is below the end, or the table has its new end beyond it.    *)
(***************************************************************************)
Clears(m, l, c, k) ==
  \/ k \in 1 .. l - 1 /\ m[k].active = FALSE
  \/ k = l /\ Spare(m, l) /\ NextEnd(m, l, c)

(***************************************************************************)
(* What each stage of a creation can rely on, the removal after an error   *)
(* included.  A failure leaves no writes.                                  *)
(***************************************************************************)
Creates(m, l, c, t, o, s) ==
  /\ t # <<>> => s \in {"open", "head", "data", "rename", "undo", "cut"}
  /\ s \in {"open", "head", "data"} => Ready(m, l, t, o.file)
  /\ s = "open" => Has(m, l, o.file) \/ Takes(m, l, t, o.slot)
  /\ s \in {"head", "data"} => Has(m, l, o.file)
  /\ s = "rename" /\ t # <<>> => Renames(m, l, t, o.file)
  /\ s = "fail" => Has(m, l, o.file) \/ Clears(m, l, c, o.slot)

Creating(m, l, c, t, o, s) ==
  /\ s \in {"fail", "full"} => t = <<>>
  /\ o # None /\ o.kind \in {"create", "raw"} => Creates(m, l, c, t, o, s)

(***************************************************************************)
(* Memory m with its table of l entries, the cache and the writes to come. *)
(***************************************************************************)
LayoutOf(m, l, c, t) ==
  /\ DOMAIN m = Addrs /\ IsTuple(c) /\ IsTuple(t)
  /\ Ends(m, l) /\ Apart(m, l) /\ Fresh(c, m, l)
  /\ Plan(m, l, t, c)

(***************************************************************************)
(* The inductive invariant for the layout: LayoutSound and CacheFresh say  *)
(* nothing of the writes of an operation that are still to be done, nor of *)
(* the file that a creation works on, which is what the next step needs.   *)
(* The write that clears the last entry is no part of a sound plan.        *)
(***************************************************************************)
Left == IF stage = "cut" THEN <<>> ELSE todo

LInv ==
  /\ LayoutOf(mem, LastAddr(mem), cache, Left)
  /\ Creating(mem, LastAddr(mem), cache, todo, op, stage)
  /\ IsTuple(todo) /\ (stage = "cut" => op # None /\ Len(todo) = 1)

(***************************************************************************)
(* Nothing to write.                                                       *)
(***************************************************************************)
LEMMA PlanEmpty ==
  ASSUME NEW m, NEW l, NEW c
  PROVE  Plan(m, l, <<>>, c) /\ IsTuple(<<>>)
BY TupleEmpty DEF Plan

(***************************************************************************)
(* One block of contents.                                                  *)
(***************************************************************************)
LEMMA PlanOutside ==
  ASSUME NEW m, NEW l, NEW c, NEW k \in Nat, k > l, NEW v
  PROVE  Plan(m, l, << Put(k, v) >>, c) /\ IsTuple(<< Put(k, v) >>)
<1>1. PICK w : w = Put(k, v)
  OBVIOUS
<1>2. IsTuple(<<w>>) /\ Len(<<w>>) = 1 /\ <<w>>[1] = w
  BY TupleOne
<1>3. w = <<k, v>>
  BY <1>1 DEF Put
<1>4. Final(m, l, <<w>>, c)
  BY <1>2, <1>3 DEF Final
<1>. QED BY <1>1, <1>2, <1>4 DEF Plan

(***************************************************************************)
(* One entry.                                                              *)
(***************************************************************************)
LEMMA PlanOne ==
  ASSUME NEW m, NEW l, NEW c, NEW k, NEW e, Suits(m, l, k, e)
  PROVE  Plan(m, l, << Put(k, e) >>, c) /\ IsTuple(<< Put(k, e) >>)
<1>1. PICK w : w = Put(k, e)
  OBVIOUS
<1>2. IsTuple(<<w>>) /\ Len(<<w>>) = 1 /\ <<w>>[1] = w
  BY TupleOne
<1>3. w = <<k, e>>
  BY <1>1 DEF Put
<1>4. Final(m, l, <<w>>, c)
  BY <1>2, <1>3 DEF Final
<1>. QED BY <1>1, <1>2, <1>4 DEF Plan

(***************************************************************************)
(* Early writes and then an entry.                                         *)
(***************************************************************************)
LEMMA PlanAfter ==
  ASSUME NEW m, NEW l, NEW c, NEW k, NEW e, Suits(m, l, k, e),
         NEW u, IsTuple(u), \A i \in 1 .. Len(u) : Early(l, u[i])
  PROVE  /\ Plan(m, l, u \o << Put(k, e) >>, c)
         /\ IsTuple(u \o << Put(k, e) >>)
<1>1. PICK w : w = Put(k, e)
  OBVIOUS
<1>2. PICK t : t = u \o <<w>>
  OBVIOUS
<1>3. /\ IsTuple(t) /\ Len(t) = Len(u) + 1
      /\ \A i \in 1 .. Len(u) : t[i] = u[i]
      /\ t[Len(u) + 1] = w
  BY <1>2, TupleAppend
<1>4. Len(u) \in Nat
  BY TupleHas
<1>5. w = <<k, e>>
  BY <1>1 DEF Put
<1>6. Final(m, l, t, c)
  BY <1>3, <1>5 DEF Final
<1>7. Len(t) - 1 = Len(u)
  BY <1>3, <1>4
<1>8. \A i \in 1 .. Len(t) - 1 : Early(l, t[i])
  BY <1>3, <1>7
<1>. QED BY <1>1, <1>2, <1>3, <1>6, <1>8 DEF Plan

(***************************************************************************)
(* One write and then another.                                             *)
(***************************************************************************)
LEMMA SecondIs ==
  ASSUME NEW u, IsTuple(u), Len(u) = 1, NEW w
  PROVE  /\ IsTuple(u \o <<w>>) /\ Len(u \o <<w>>) = 2
         /\ (u \o <<w>>)[1] = u[1] /\ (u \o <<w>>)[2] = w
<1>1. PICK t : t = u \o <<w>>
  OBVIOUS
<1>2. /\ IsTuple(t) /\ Len(t) = Len(u) + 1
      /\ \A i \in 1 .. Len(u) : t[i] = u[i]
      /\ t[Len(u) + 1] = w
  BY <1>1, TupleAppend
<1>. QED BY <1>1, <1>2

(***************************************************************************)
(* Two writes.                                                             *)
(***************************************************************************)
LEMMA PairIs ==
  ASSUME NEW v, NEW w
  PROVE  /\ IsTuple(<<v>> \o <<w>>) /\ Len(<<v>> \o <<w>>) = 2
         /\ (<<v>> \o <<w>>)[1] = v /\ (<<v>> \o <<w>>)[2] = w
<1>1. IsTuple(<<v>>) /\ Len(<<v>>) = 1 /\ <<v>>[1] = v
  BY TupleOne
<1>. QED BY <1>1, SecondIs, Zenon

(***************************************************************************)
(* The new end and then the entry in place of the old one.                 *)
(***************************************************************************)
LEMMA PlanGrow ==
  ASSUME NEW m, NEW l \in Nat, NEW c, NEW e, Grows(m, l, l, e)
  PROVE  LET t == << Put(l + 1, LastEntry) >> \o << Put(l, e) >>
         IN  Plan(m, l, t, c) /\ IsTuple(t)
<1>1. PICK v, w : v = Put(l + 1, LastEntry) /\ w = Put(l, e)
  OBVIOUS
<1>2. PICK t : t = <<v>> \o <<w>>
  OBVIOUS
<1>4. IsTuple(t) /\ Len(t) = 2 /\ t[1] = v /\ t[2] = w
  BY <1>2, PairIs
<1>5. v = <<l + 1, LastEntry>> /\ w = <<l, e>>
  BY <1>1 DEF Put
<1>6. Final(m, l, t, c)
  BY <1>4, <1>5 DEF Final, Marked
<1>7. Early(l, v)
  BY <1>5 DEF Early
<1>8. \A i \in 1 .. Len(t) - 1 : Early(l, t[i])
  BY <1>4, <1>7
<1>. QED BY <1>1, <1>2, <1>4, <1>6, <1>8 DEF Plan

(***************************************************************************)
(* The blocks of contents x from place s on.                               *)
(***************************************************************************)
LEMMA WritesIs ==
  ASSUME NEW s, NEW x, IsTuple(x)
  PROVE  /\ IsTuple(Writes(s, x)) /\ Len(Writes(s, x)) = Len(x)
         /\ \A i \in 1 .. Len(x) : Writes(s, x)[i] = << s + i - 1, x[i] >>
<1>1. PICK u : u = Writes(s, x)
  OBVIOUS
<1>2. Len(x) \in Nat
  BY TupleHas
<1>3. u = [i \in 1 .. Len(x) |-> << s + i - 1, x[i] >>]
  BY <1>1 DEF Writes, Put
<1>4. \A i \in 1 .. Len(x) : u[i] = << s + i - 1, x[i] >>
  BY <1>3
<1>5. u = [i \in 1 .. Len(x) |-> u[i]]
  BY <1>3, <1>4
<1>6. IsTuple(u) /\ Len(u) = Len(x)
  BY <1>2, <1>5, TupleLen
<1>. QED BY <1>1, <1>4, <1>6

-----------------------------------------------------------------------------
(***************************************************************************)
(* What writing block b to address a does to the cache and the memory.     *)
(***************************************************************************)
CacheAfter(c, a, b) ==
  IF b \notin Vals \cup {Zero} /\ a <= Len(c) THEN [c EXCEPT ![a] = b] ELSE c

MemAfter(m, a, b) == [m EXCEPT ![a] = b]

(***************************************************************************)
(* An entry is not data.                                                   *)
(***************************************************************************)
LEMMA EntryNotData ==
  ASSUME NEW e \in Entries
  PROVE  e \notin Vals \cup {Zero}
BY RpmbFsAssumption

(***************************************************************************)
(* The cache after the write.                                              *)
(***************************************************************************)
LEMMA CacheAfterIs ==
  ASSUME NEW c, IsTuple(c), NEW a \in Nat, NEW b, NEW d, d = CacheAfter(c, a, b)
  PROVE  /\ IsTuple(d) /\ Len(d) = Len(c)
         /\ \A x \in 1 .. Len(c) : x # a => d[x] = c[x]
         /\ b \in Entries /\ a \in 1 .. Len(c) => d[a] = b
<1>1. Len(c) \in Nat /\ DOMAIN c = 1 .. Len(c) /\ c = [i \in 1 .. Len(c) |-> c[i]]
  BY TupleHas
<1>2. d = [i \in 1 .. Len(c) |-> d[i]]
        /\ (\A x \in 1 .. Len(c) : x # a => d[x] = c[x])
        /\ (b \in Entries /\ a \in 1 .. Len(c) => d[a] = b)
  <2>1. CASE b \notin Vals \cup {Zero} /\ a <= Len(c)
    <3>1. d = [c EXCEPT ![a] = b]
      BY <2>1 DEF CacheAfter
    <3>. QED BY <1>1, <3>1
  <2>2. CASE ~(b \notin Vals \cup {Zero} /\ a <= Len(c))
    <3>1. d = c
      BY <2>2 DEF CacheAfter
    <3>2. ~(b \in Entries /\ a \in 1 .. Len(c))
      BY <1>1, <2>2, EntryNotData
    <3>. QED BY <1>1, <3>1, <3>2
  <2>. QED BY <2>1, <2>2
<1>. QED BY <1>1, <1>2, TupleLen

(***************************************************************************)
(* The memory after the write.                                             *)
(***************************************************************************)
LEMMA BlockAfter ==
  ASSUME NEW m, DOMAIN m = Addrs, NEW a, NEW b, NEW n, n = MemAfter(m, a, b)
  PROVE  /\ DOMAIN n = Addrs
         /\ \A x \in Addrs : x # a => n[x] = m[x]
         /\ a \in Addrs => n[a] = b
BY DEF MemAfter

(***************************************************************************)
(* What is left after the first of several writes.                         *)
(***************************************************************************)
LEMMA TailPlan ==
  ASSUME NEW t, IsTuple(t), t # <<>>, Tail(t) # <<>>
  PROVE  /\ Len(t) \in Nat /\ Len(t) > 1 /\ IsTuple(Tail(t))
         /\ Len(Tail(t)) = Len(t) - 1
         /\ Tail(t)[Len(Tail(t))] = t[Len(t)]
         /\ \A i \in 1 .. Len(Tail(t)) : Tail(t)[i] = t[i + 1] /\ i + 1 \in 1 .. Len(t)
         /\ \A i \in 1 .. Len(Tail(t)) - 1 : i + 1 \in 1 .. Len(t) - 1
<1>1. /\ IsTuple(Tail(t)) /\ Len(Tail(t)) = Len(t) - 1
      /\ \A i \in 1 .. Len(t) - 1 : Tail(t)[i] = t[i + 1]
  BY TupleTail
<1>2. Len(t) \in Nat \ {0} /\ Len(Tail(t)) \in Nat \ {0}
  BY <1>1, TupleNotEmpty
<1>. QED BY <1>1, <1>2

(***************************************************************************)
(* A write beyond the table leaves the table and its plan as they are.     *)
(***************************************************************************)
LEMMA OutsideStep ==
  ASSUME NEW m, NEW l, NEW c, NEW t, LayoutOf(m, l, c, t), t # <<>>,
         NEW a \in Nat, NEW b, t[1][1] = a, t[1][2] = b, a > l,
         NEW n, n = MemAfter(m, a, b), NEW d, d = CacheAfter(c, a, b)
  PROVE  LayoutOf(n, l, d, Tail(t)) /\ \A x \in 1 .. l : n[x] = m[x]
<1>1. /\ DOMAIN m = Addrs /\ IsTuple(c) /\ IsTuple(t)
      /\ Ends(m, l) /\ Apart(m, l) /\ Fresh(c, m, l) /\ Plan(m, l, t, c)
  BY DEF LayoutOf
<1>2. /\ DOMAIN n = Addrs /\ (\A x \in Addrs : x # a => n[x] = m[x])
      /\ (a \in Addrs => n[a] = b)
  BY <1>1, BlockAfter
<1>3. l \in Nat /\ l >= 1 /\ l \in Addrs /\ 1 .. l \subseteq Addrs
        /\ 1 .. l - 1 \subseteq 1 .. l /\ l \in 1 .. l
  BY <1>1, RpmbFsAssumption DEF Ends, Addrs
<1>4. \A x \in 1 .. l : n[x] = m[x]
  BY <1>2, <1>3
<1>5. Ends(n, l)
  BY <1>1, <1>3, <1>4 DEF Ends
<1>6. \A k, e : Fits(m, l, k, e) => Fits(n, l, k, e)
  BY <1>4 DEF Fits
<1>7. Apart(n, l)
  BY <1>1, <1>4, <1>6 DEF Apart
<1>8. /\ IsTuple(d) /\ Len(d) = Len(c) /\ Len(c) \in Nat
      /\ \A x \in 1 .. Len(c) : x # a => d[x] = c[x]
      /\ (b \in Entries /\ a \in 1 .. Len(c) => d[a] = b)
  BY <1>1, CacheAfterIs, TupleHas
<1>9. Fresh(d, n, l)
  <2> SUFFICES ASSUME NEW x \in 1 .. l, x <= Len(d)
               PROVE  d[x] = n[x]
    BY DEF Fresh
  <2>1. x \in 1 .. Len(c) /\ x # a
    BY <1>3, <1>8
  <2>2. c[x] = m[x]
    BY <1>1, <1>8 DEF Fresh
  <2>. QED BY <1>4, <1>8, <2>1, <2>2
<1>10. IsTuple(Tail(t))
  BY <1>1, TupleTail
<1>11. Plan(n, l, Tail(t), d)
  <2>1. CASE Tail(t) = <<>>
    BY <2>1, PlanEmpty
  <2>2. CASE Tail(t) # <<>>
    <3>1. /\ Len(t) \in Nat /\ Len(t) > 1 /\ Len(Tail(t)) = Len(t) - 1
          /\ Tail(t)[Len(Tail(t))] = t[Len(t)]
          /\ \A i \in 1 .. Len(Tail(t)) : Tail(t)[i] = t[i + 1] /\ i + 1 \in 1 .. Len(t)
          /\ \A i \in 1 .. Len(Tail(t)) - 1 : i + 1 \in 1 .. Len(t) - 1
      BY <1>1, <2>2, TailPlan
    <3>2. ASSUME NEW i \in 1 .. Len(Tail(t)) - 1
          PROVE  Early(l, Tail(t)[i])
      <4>1. Early(l, t[i + 1])
        BY <1>1, <3>1 DEF Plan
      <4>2. i \in 1 .. Len(Tail(t))
        BY <3>1
      <4>. QED BY <3>1, <4>1, <4>2
    <3>3. PICK k, e : /\ t[Len(t)] = <<k, e>>
                      /\ \/ k \in Nat /\ k > l
                         \/ Suits(m, l, k, e)
                         \/ Grows(m, l, k, e) /\ Marked(m, l, t, c)
      BY <1>1 DEF Plan, Final
    <3>4. Suits(m, l, k, e) => Suits(n, l, k, e)
      BY <1>6 DEF Suits
    <3>5. ASSUME Grows(m, l, k, e), Marked(m, l, t, c)
          PROVE  Grows(n, l, k, e) /\ Marked(n, l, Tail(t), d)
      <4>1. Grows(n, l, k, e)
        BY <1>4, <3>5 DEF Grows, Spare
      <4>2. Len(t) = 2 /\ a = l + 1 /\ b = LastEntry /\ l + 1 \in Addrs
        BY <3>1, <3>5 DEF Marked, Grows, Spare
      <4>3. n[l + 1] = LastEntry
        BY <1>2, <4>2
      <4>4. l + 1 <= Len(d) => d[l + 1] = LastEntry
        <5>1. l + 1 <= Len(c) => a \in 1 .. Len(c)
          BY <1>3, <1>8, <4>2
        <5>. QED BY <1>8, <4>2, <5>1, ClearedIs
      <4>5. Len(Tail(t)) = 1
        BY <3>1, <4>2
      <4>. QED BY <4>1, <4>3, <4>4, <4>5 DEF Marked, NextEnd
    <3>6. Final(n, l, Tail(t), d)
      BY <3>1, <3>3, <3>4, <3>5 DEF Final
    <3>. QED BY <3>2, <3>6 DEF Plan
  <2>. QED BY <2>1, <2>2
<1>. QED BY <1>2, <1>4, <1>5, <1>7, <1>8, <1>9, <1>10, <1>11 DEF LayoutOf

(***************************************************************************)
(* A write of an entry that suits its slot: the table keeps its end, the   *)
(* contents stay apart, and the cache takes the entry too.                 *)
(***************************************************************************)
LEMMA EntryStep ==
  ASSUME NEW m, NEW l, NEW c, NEW t, LayoutOf(m, l, c, t), t # <<>>,
         NEW a, NEW b, t[1][1] = a, t[1][2] = b, Suits(m, l, a, b),
         b = Cleared \/ Len(t) = 1,
         NEW n, n = MemAfter(m, a, b), NEW d, d = CacheAfter(c, a, b)
  PROVE  LayoutOf(n, l, d, Tail(t)) /\ (\A x \in 1 .. l : x # a => n[x] = m[x])
           /\ n[a] = b
<1>1. /\ DOMAIN m = Addrs /\ IsTuple(c) /\ IsTuple(t)
      /\ Ends(m, l) /\ Apart(m, l) /\ Fresh(c, m, l) /\ Plan(m, l, t, c)
  BY DEF LayoutOf
<1>2. /\ DOMAIN n = Addrs /\ (\A x \in Addrs : x # a => n[x] = m[x])
      /\ (a \in Addrs => n[a] = b)
  BY <1>1, BlockAfter
<1>3. l \in Nat /\ l >= 1 /\ l \in Addrs /\ 1 .. l \subseteq Addrs
        /\ 1 .. l - 1 \subseteq 1 .. l /\ l \in 1 .. l
  BY <1>1, RpmbFsAssumption DEF Ends, Addrs
<1>4. a \in 1 .. l - 1 /\ a \in 1 .. l /\ a # l /\ b \in Entries /\ b.last = FALSE
        /\ Fits(m, l, a, b)
  BY <1>3 DEF Suits, Fits
<1>5. (\A x \in 1 .. l : x # a => n[x] = m[x]) /\ n[a] = b
  BY <1>2, <1>3, <1>4
<1>6. Ends(n, l)
  <2>1. \A x \in 1 .. l : n[x] \in Entries
    BY <1>1, <1>4, <1>5 DEF Ends
  <2>2. \A x \in 1 .. l - 1 : n[x].last = FALSE
    BY <1>1, <1>3, <1>4, <1>5 DEF Ends
  <2>3. n[l] = m[l]
    BY <1>3, <1>4, <1>5
  <2>. QED BY <1>1, <2>1, <2>2, <2>3 DEF Ends
<1>7. Apart(n, l)
  <2> SUFFICES ASSUME NEW x \in 1 .. l
               PROVE  Fits(n, l, x, n[x])
    BY DEF Apart
  <2>1. CASE x = a
    BY <1>4, <1>5, <2>1 DEF Fits
  <2>2. CASE x # a
    <3>1. Fits(m, l, x, m[x]) /\ n[x] = m[x] /\ n[x] \in Entries
      BY <1>1, <1>5, <2>2 DEF Apart, Ends
    <3>2. ASSUME NEW z \in Nat, In(n[x], z)
          PROVE  z \in Addrs /\ z > l /\ \A y \in 1 .. l : y # x => ~In(n[y], z)
      <4>1. z \in Addrs /\ z > l /\ \A y \in 1 .. l : y # x => ~In(m[y], z)
        BY <3>1, <3>2 DEF Fits
      <4>2. ~In(b, z)
        BY <1>4, <2>2, <3>1, <3>2 DEF Fits
      <4>. QED BY <1>5, <4>1, <4>2
    <3>. QED BY <3>1, <3>2 DEF Fits
  <2>. QED BY <2>1, <2>2
<1>8. /\ IsTuple(d) /\ Len(d) = Len(c) /\ Len(c) \in Nat
      /\ \A x \in 1 .. Len(c) : x # a => d[x] = c[x]
      /\ (a \in 1 .. Len(c) => d[a] = b)
  <2>1. a \in Nat
    BY <1>4
  <2>. QED BY <1>1, <1>4, <2>1, CacheAfterIs, TupleHas
<1>9. Fresh(d, n, l)
  <2> SUFFICES ASSUME NEW x \in 1 .. l, x <= Len(d)
               PROVE  d[x] = n[x]
    BY DEF Fresh
  <2>1. x \in 1 .. Len(c)
    BY <1>3, <1>8
  <2>2. c[x] = m[x]
    BY <1>1, <1>8 DEF Fresh
  <2>. QED BY <1>5, <1>8, <2>1, <2>2
<1>10. IsTuple(Tail(t))
  BY <1>1, TupleTail
<1>11. Plan(n, l, Tail(t), d)
  <2>1. CASE Tail(t) = <<>>
    BY <2>1, PlanEmpty
  <2>2. CASE Tail(t) # <<>>
    <3>1. /\ Len(t) \in Nat /\ Len(t) > 1 /\ Len(Tail(t)) = Len(t) - 1
          /\ Tail(t)[Len(Tail(t))] = t[Len(t)]
          /\ \A i \in 1 .. Len(Tail(t)) : Tail(t)[i] = t[i + 1] /\ i + 1 \in 1 .. Len(t)
          /\ \A i \in 1 .. Len(Tail(t)) - 1 : i + 1 \in 1 .. Len(t) - 1
      BY <1>1, <2>2, TailPlan
    <3>0. b = Cleared
      BY <3>1
    <3>2. ASSUME NEW i \in 1 .. Len(Tail(t)) - 1
          PROVE  Early(l, Tail(t)[i])
      <4>1. Early(l, t[i + 1])
        BY <1>1, <3>1 DEF Plan
      <4>2. i \in 1 .. Len(Tail(t))
        BY <3>1
      <4>. QED BY <3>1, <4>1, <4>2
    <3>3. PICK k, e : /\ t[Len(t)] = <<k, e>>
                      /\ \/ k \in Nat /\ k > l
                         \/ Suits(m, l, k, e)
                         \/ Grows(m, l, k, e) /\ Marked(m, l, t, c)
      BY <1>1 DEF Plan, Final
    <3>4. Suits(m, l, k, e) => Suits(n, l, k, e)
      <4>1. \A z : ~In(b, z)
        BY <3>0, ClearedIs DEF In
      <4>2. \A y \in 1 .. l : \A z : In(n[y], z) => In(m[y], z)
        BY <1>5, <4>1
      <4>. QED BY <4>2 DEF Suits, Fits
    <3>5. ~(Grows(m, l, k, e) /\ Marked(m, l, t, c))
      <4>1. l + 1 # a
        BY <1>3, <1>4
      <4>. QED BY <3>1, <4>1 DEF Marked
    <3>6. Final(n, l, Tail(t), d)
      BY <3>1, <3>3, <3>4, <3>5 DEF Final
    <3>. QED BY <3>2, <3>6 DEF Plan
  <2>. QED BY <2>1, <2>2
<1>. QED BY <1>2, <1>5, <1>6, <1>7, <1>8, <1>9, <1>10, <1>11 DEF LayoutOf

(***************************************************************************)
(* The write that takes the last entry into use: the table now ends where  *)
(* the write before it put the mark, which lies apart from all contents.   *)
(***************************************************************************)
LEMMA GrowStep ==
  ASSUME NEW m, NEW l, NEW c, NEW t, LayoutOf(m, l, c, t), t # <<>>,
         NEW a, NEW b, t[1][1] = a, t[1][2] = b, Len(t) = 1,
         Grows(m, l, a, b), Marked(m, l, t, c),
         NEW n, n = MemAfter(m, a, b), NEW d, d = CacheAfter(c, a, b)
  PROVE  /\ LayoutOf(n, l + 1, d, Tail(t)) /\ Tail(t) = <<>>
         /\ (\A x \in 1 .. l + 1 : x # a => n[x] = m[x])
         /\ n[a] = b /\ a = l /\ l \in Nat /\ n[l + 1] = LastEntry
<1>1. /\ DOMAIN m = Addrs /\ IsTuple(c) /\ IsTuple(t)
      /\ Ends(m, l) /\ Apart(m, l) /\ Fresh(c, m, l) /\ Plan(m, l, t, c)
  BY DEF LayoutOf
<1>2. /\ DOMAIN n = Addrs /\ (\A x \in Addrs : x # a => n[x] = m[x])
      /\ (a \in Addrs => n[a] = b)
  BY <1>1, BlockAfter
<1>3. /\ a = l /\ b \in Entries /\ b.last = FALSE /\ b.size = 0
      /\ l + 1 \in Addrs /\ \A y \in 1 .. l : ~In(m[y], l + 1)
  BY DEF Grows, Spare
<1>4. PICK h \in Nat : h = l + 1 /\ l \in Nat /\ l >= 1 /\ l \in Addrs
         /\ 1 .. l \subseteq 1 .. h /\ h \in 1 .. h /\ l = h - 1 /\ h \notin 1 .. l
         /\ l \in 1 .. l
         /\ 1 .. h \subseteq Addrs /\ (\A x \in 1 .. h : x = h \/ x = l \/ x \in 1 .. l - 1)
         /\ 1 .. l - 1 \subseteq 1 .. l
  BY <1>1, <1>3, RpmbFsAssumption DEF Ends, Addrs
<1>5. m[h] = LastEntry /\ (h <= Len(c) => c[h] = LastEntry)
  BY <1>4 DEF Marked, NextEnd
<1>6. n[l] = b /\ n[h] = LastEntry /\ \A x \in 1 .. h : x # l => n[x] = m[x]
  BY <1>2, <1>3, <1>4, <1>5
<1>7. Ends(n, h)
  <2>1. \A x \in 1 .. h : n[x] \in Entries
    BY <1>1, <1>3, <1>4, <1>6, ClearedIs DEF Ends
  <2>2. ASSUME NEW x \in 1 .. h - 1 PROVE n[x].last = FALSE
    <3>1. x = l \/ x \in 1 .. l - 1
      BY <1>4
    <3>2. x \in 1 .. l - 1 => n[x] = m[x] /\ m[x].last = FALSE
      <4>1. x \in 1 .. l - 1 => x # l
        BY <1>4
      <4>. QED BY <1>1, <1>4, <1>6, <4>1 DEF Ends
    <3>. QED BY <1>3, <1>6, <3>1, <3>2
  <2>3. n[h].last = TRUE /\ n[h].active = FALSE /\ h \in Addrs
    BY <1>3, <1>4, <1>6, ClearedIs
  <2>. QED BY <2>1, <2>2, <2>3 DEF Ends
<1>8. Apart(n, h)
  <2> SUFFICES ASSUME NEW x \in 1 .. h
               PROVE  Fits(n, h, x, n[x])
    BY DEF Apart
  <2>0. n[x] \in Entries /\ \A z \in Nat : ~In(b, z) /\ ~In(LastEntry, z)
    <3>1. \A z \in Nat : ~In(LastEntry, z)
      BY ClearedIs DEF In
    <3>2. \A z \in Nat : ~In(b, z)
      BY <1>3, EntryIs DEF In
    <3>. QED BY <1>7, <3>1, <3>2 DEF Ends
  <2>1. CASE x = l \/ x = h
    BY <1>6, <2>0, <2>1 DEF Fits
  <2>2. CASE x \in 1 .. l - 1
    <3>1. x # l /\ x \in 1 .. l
      BY <1>4, <2>2
    <3>2. Fits(m, l, x, m[x]) /\ n[x] = m[x]
      BY <1>1, <1>4, <1>6, <3>1 DEF Apart
    <3>3. ASSUME NEW z \in Nat, In(n[x], z)
          PROVE  z \in Addrs /\ z > h /\ \A y \in 1 .. h : y # x => ~In(n[y], z)
      <4>1. z \in Addrs /\ z > l /\ \A y \in 1 .. l : y # x => ~In(m[y], z)
        BY <3>2, <3>3 DEF Fits
      <4>2. z # h
        BY <1>3, <1>4, <3>1, <3>2, <3>3
      <4>3. z > h
        BY <1>4, <4>1, <4>2
      <4>4. ASSUME NEW y \in 1 .. h, y # x PROVE ~In(n[y], z)
        <5>1. CASE y = l \/ y = h
          BY <1>6, <2>0, <5>1
        <5>2. CASE y \in 1 .. l - 1
          <6>1. y \in 1 .. l /\ y # l
            BY <1>4, <5>2
          <6>. QED BY <1>6, <4>1, <4>4, <6>1
        <5>. QED BY <1>4, <5>1, <5>2
      <4>. QED BY <4>1, <4>3, <4>4
    <3>. QED BY <2>0, <3>3 DEF Fits
  <2>. QED BY <1>4, <2>1, <2>2
<1>9. /\ IsTuple(d) /\ Len(d) = Len(c) /\ Len(c) \in Nat
      /\ \A x \in 1 .. Len(c) : x # a => d[x] = c[x]
      /\ (a \in 1 .. Len(c) => d[a] = b)
  BY <1>1, <1>3, <1>4, CacheAfterIs, TupleHas
<1>10. Fresh(d, n, h)
  <2> SUFFICES ASSUME NEW x \in 1 .. h, x <= Len(d)
               PROVE  d[x] = n[x]
    BY DEF Fresh
  <2>1. x \in 1 .. Len(c)
    BY <1>4, <1>9
  <2>2. CASE x = l
    BY <1>3, <1>6, <1>9, <2>1, <2>2
  <2>3. CASE x = h
    BY <1>3, <1>4, <1>5, <1>6, <1>9, <2>1, <2>3
  <2>4. CASE x \in 1 .. l - 1
    <3>1. x \in 1 .. l /\ x # l
      BY <1>4, <2>4
    <3>2. c[x] = m[x]
      BY <1>1, <1>9, <3>1 DEF Fresh
    <3>. QED BY <1>3, <1>6, <1>9, <2>1, <3>1, <3>2
  <2>. QED BY <1>4, <2>2, <2>3, <2>4
<1>11. IsTuple(Tail(t)) /\ Tail(t) = <<>>
  <2>1. IsTuple(Tail(t)) /\ Len(Tail(t)) = Len(t) - 1
    BY <1>1, TupleTail
  <2>2. Len(Tail(t)) = 0
    BY <2>1
  <2>. QED BY <2>1, <2>2, TupleNotEmpty
<1>12. Plan(n, h, Tail(t), d)
  BY <1>11, PlanEmpty
<1>13. LayoutOf(n, h, d, Tail(t))
  BY <1>2, <1>7, <1>8, <1>9, <1>10, <1>11, <1>12 DEF LayoutOf
<1>. QED BY <1>3, <1>4, <1>6, <1>11, <1>13

(***************************************************************************)
(* The three kinds of step from memory m with l entries to memory n with   *)
(* h.                                                                      *)
(***************************************************************************)
Outside(m, l, a, n, h) == a \in Nat /\ a > l /\ h = l /\ \A x \in 1 .. l : n[x] = m[x]

Inside(m, l, t, a, b, n, h) ==
  /\ Suits(m, l, a, b) /\ (b = Cleared \/ Len(t) = 1) /\ h = l
  /\ \A x \in 1 .. l : x # a => n[x] = m[x]
  /\ n[a] = b

Growing(m, l, t, a, b, n, h) ==
  /\ Len(t) = 1 /\ Grows(m, l, a, b) /\ h = l + 1 /\ a = l /\ l \in Nat
  /\ \A x \in 1 .. l + 1 : x # a => n[x] = m[x]
  /\ n[a] = b /\ n[l + 1] = LastEntry

(***************************************************************************)
(* An entry may always be cleared.                                         *)
(***************************************************************************)
LEMMA ClearedSuits ==
  ASSUME NEW m, NEW l, NEW a \in 1 .. l - 1
  PROVE  Suits(m, l, a, Cleared)
BY ClearedIs DEF Suits, Fits, In

(***************************************************************************)
(* Every write is of one of these kinds and leaves the layout sound.       *)
(***************************************************************************)
LEMMA StepKinds ==
  ASSUME NEW m, NEW l, NEW c, NEW t, LayoutOf(m, l, c, t), t # <<>>,
         NEW a, NEW b, t[1][1] = a, t[1][2] = b,
         NEW n, n = MemAfter(m, a, b), NEW d, d = CacheAfter(c, a, b)
  PROVE  \E h :
           /\ LayoutOf(n, h, d, Tail(t))
           /\ \/ Outside(m, l, a, n, h)
              \/ Inside(m, l, t, a, b, n, h)
              \/ Growing(m, l, t, a, b, n, h)
<1>1. IsTuple(t) /\ Plan(m, l, t, c) /\ Len(t) \in Nat \ {0}
  BY TupleNotEmpty DEF LayoutOf
<1>2. ASSUME a \in Nat, a > l
      PROVE  LayoutOf(n, l, d, Tail(t)) /\ Outside(m, l, a, n, l)
  BY <1>2, OutsideStep DEF Outside
<1>3. ASSUME Suits(m, l, a, b), b = Cleared \/ Len(t) = 1
      PROVE  LayoutOf(n, l, d, Tail(t)) /\ Inside(m, l, t, a, b, n, l)
  BY <1>3, EntryStep DEF Inside
<1>4. ASSUME Len(t) = 1, Grows(m, l, a, b), Marked(m, l, t, c)
      PROVE  LayoutOf(n, l + 1, d, Tail(t)) /\ Growing(m, l, t, a, b, n, l + 1)
  BY <1>4, GrowStep DEF Growing
<1>5. CASE Len(t) > 1
  <2>1. Early(l, t[1])
    <3>1. 1 \in 1 .. Len(t) - 1
      BY <1>1, <1>5
    <3>. QED BY <1>1, <3>1 DEF Plan
  <2>. QED BY <1>2, <1>3, <2>1, ClearedSuits DEF Early
<1>6. CASE Len(t) = 1
  <2>1. PICK k, e : /\ t[Len(t)] = <<k, e>>
                    /\ \/ k \in Nat /\ k > l
                       \/ Suits(m, l, k, e)
                       \/ Grows(m, l, k, e) /\ Marked(m, l, t, c)
    BY <1>1 DEF Plan, Final
  <2>2. k = a /\ e = b
    BY <1>6, <2>1
  <2>. QED BY <1>2, <1>3, <1>4, <1>6, <2>1, <2>2
<1>7. Len(t) > 1 \/ Len(t) = 1
  <2>1. \A x \in Nat \ {0} : x > 1 \/ x = 1
    OBVIOUS
  <2>. QED BY <1>1, <2>1, Zenon
<1>. QED BY <1>5, <1>6, <1>7

(***************************************************************************)
(* No write takes away the file that is being created.                     *)
(***************************************************************************)
LEMMA ReadyStep ==
  ASSUME NEW m, NEW l, NEW c, NEW t, LayoutOf(m, l, c, t), t # <<>>,
         NEW a, NEW b, t[1][1] = a, t[1][2] = b, NEW n, NEW h,
         \/ Outside(m, l, a, n, h)
         \/ Inside(m, l, t, a, b, n, h)
         \/ Growing(m, l, t, a, b, n, h),
         NEW f, Ready(m, l, t, f)
  PROVE  Ready(n, h, Tail(t), f) /\ (Has(m, l, f) => Has(n, h, f))
<1>1. IsTuple(t) /\ Ends(m, l) /\ l \in Nat
  BY DEF LayoutOf, Ends, Addrs
<1>2. Len(t) \in Nat \ {0} /\ IsTuple(Tail(t)) /\ Len(Tail(t)) = Len(t) - 1
        /\ \A i \in 1 .. Len(t) - 1 : Tail(t)[i] = t[i + 1]
  BY <1>1, TupleNotEmpty, TupleTail
<1>3. h \in Nat /\ h >= l
  BY <1>1 DEF Outside, Inside, Growing
<1>6. \A i \in 1 .. Len(t) - 1 : t[i][1] \in Nat /\ t[i][1] > l
  BY DEF Ready
<1>7. ASSUME Tail(t) # <<>>
      PROVE  h = l /\ \A x \in 1 .. l : n[x] = m[x]
  <2>1. Len(t) > 1
    BY <1>1, <1>7, TailPlan
  <2>2. 1 \in 1 .. Len(t) - 1
    BY <1>2, <2>1
  <2>3. a \in Nat /\ a > l
    BY <1>6, <2>2
  <2>. QED BY <1>1, <2>3 DEF Outside, Inside, Growing, Suits
<1>8. \A i \in 1 .. Len(Tail(t)) - 1 : Tail(t)[i][1] \in Nat /\ Tail(t)[i][1] > h
  <2> SUFFICES ASSUME NEW i \in 1 .. Len(Tail(t)) - 1
               PROVE  Tail(t)[i][1] \in Nat /\ Tail(t)[i][1] > h
    OBVIOUS
  <2>1. Tail(t) # <<>>
    <3>1. CASE Tail(t) = <<>>
      <4>1. Len(Tail(t)) = 0
        BY <3>1, TupleEmpty
      <4>2. \A x : x \in 1 .. 0 - 1 => FALSE
        OBVIOUS
      <4>3. i \in 1 .. 0 - 1
        BY <4>1, Zenon
      <4>. QED BY <4>2, <4>3
    <3>. QED BY <3>1
  <2>2. i \in 1 .. Len(t) - 1 /\ i + 1 \in 1 .. Len(t) - 1
    BY <1>2
  <2>3. Tail(t)[i] = t[i + 1]
    BY <1>2, <2>2
  <2>. QED BY <1>6, <1>7, <2>1, <2>2, <2>3
<1>9. ASSUME Has(m, l, f), Tail(t) # <<>>
      PROVE  Has(n, h, f)
  BY <1>7, <1>9 DEF Has
<1>4. CASE /\ t[Len(t)][1] \in 1 .. l
           /\ t[Len(t)][2].active /\ t[Len(t)][2].file = f
  <2>1. CASE Tail(t) = <<>>
    <3>1. Len(t) = 1
      <4>1. Len(Tail(t)) = 0
        BY <2>1, TupleEmpty
      <4>2. \A x \in Nat : x - 1 = 0 => x = 1
        OBVIOUS
      <4>3. Len(t) \in Nat /\ Len(t) - 1 = 0
        BY <1>2, <4>1
      <4>. QED BY <4>2, <4>3
    <3>2. a \in 1 .. l /\ b.active /\ b.file = f
      BY <1>4, <3>1
    <3>3. n[a] = b
      BY <1>1, <3>2 DEF Outside, Inside, Growing
    <3>4. Has(n, h, f)
      <4>1. a \in 1 .. h
        BY <1>1, <1>3, <3>2
      <4>. QED BY <3>2, <3>3, <4>1 DEF Has
    <3>5. 1 .. Len(Tail(t)) = {}
      <4>1. Len(Tail(t)) = 0
        BY <2>1, TupleEmpty
      <4>2. 1 .. 0 = {}
        OBVIOUS
      <4>. QED BY <4>1, <4>2, Zenon
    <3>. QED BY <1>8, <3>4, <3>5 DEF Ready
  <2>2. CASE Tail(t) # <<>>
    <3>1. Tail(t)[Len(Tail(t))] = t[Len(t)]
      BY <1>1, <2>2, TailPlan
    <3>2. t[Len(t)][1] \in 1 .. h
      BY <1>1, <1>3, <1>4
    <3>. QED BY <1>4, <1>8, <1>9, <2>2, <3>1, <3>2 DEF Ready
  <2>. QED BY <2>1, <2>2
<1>5. CASE Has(m, l, f) /\ \A i \in 1 .. Len(t) : t[i][1] \in Nat /\ t[i][1] > l
  <2>1. a \in Nat /\ a > l
    BY <1>2, <1>5
  <2>2. h = l /\ \A x \in 1 .. l : n[x] = m[x]
    BY <1>1, <2>1 DEF Outside, Inside, Growing, Suits
  <2>3. Has(n, h, f)
    BY <1>5, <2>2 DEF Has
  <2>4. ASSUME NEW i \in 1 .. Len(Tail(t))
        PROVE  Tail(t)[i][1] \in Nat /\ Tail(t)[i][1] > l
    <3>1. i \in 1 .. Len(t) - 1 /\ i + 1 \in 1 .. Len(t)
      BY <1>2
    <3>. QED BY <1>2, <1>5, <3>1
  <2>. QED BY <1>8, <2>2, <2>3, <2>4 DEF Ready
<1>. QED BY <1>4, <1>5 DEF Ready

(***************************************************************************)
(* Nor does it take the slot from the handle, or the name from the         *)
(* temporary file before the last write.                                   *)
(***************************************************************************)
LEMMA CreatingStep ==
  ASSUME NEW m, NEW l, NEW c, NEW t, LayoutOf(m, l, c, t), t # <<>>,
         NEW a, NEW b, t[1][1] = a, t[1][2] = b, NEW n, NEW h,
         \/ Outside(m, l, a, n, h)
         \/ Inside(m, l, t, a, b, n, h)
         \/ Growing(m, l, t, a, b, n, h),
         NEW o, NEW s, Creating(m, l, c, t, o, s), NEW d
  PROVE  Creating(n, h, d, Tail(t), o, s)
<1> SUFFICES ASSUME o # None, o.kind \in {"create", "raw"}
             PROVE  Creates(n, h, d, Tail(t), o, s)
  BY DEF Creating
<1>1. Creates(m, l, c, t, o, s) /\ s \notin {"fail", "full"}
  BY DEF Creating
<1>2. IsTuple(t) /\ l \in Nat
  BY DEF LayoutOf, Ends, Addrs
<1>3. PICK f : f = o.file
  OBVIOUS
<1>4. s \in {"open", "head", "data"} =>
        Ready(n, h, Tail(t), f) /\ (Has(m, l, f) => Has(n, h, f))
  BY <1>1, <1>3, ReadyStep DEF Creates
<1>5. Tail(t) = <<>> /\ Ready(n, h, Tail(t), f) => Has(n, h, f)
  BY DEF Ready
<1>6. s = "open" => Has(n, h, f) \/ Takes(n, h, Tail(t), o.slot)
  <2> SUFFICES ASSUME s = "open", ~Has(m, l, f), Tail(t) # <<>>
               PROVE  Takes(n, h, Tail(t), o.slot)
    BY <1>4, <1>5
  <2>1. Takes(m, l, t, o.slot) /\ Ready(m, l, t, f)
    BY <1>1, <1>3 DEF Creates
  <2>2. Len(t) \in Nat /\ Len(t) > 1 /\ Tail(t)[Len(Tail(t))] = t[Len(t)]
    BY <1>2, TailPlan
  <2>3. 1 \in 1 .. Len(t) - 1
    BY <2>2
  <2>4. a \in Nat /\ a > l
    BY <2>1, <2>3 DEF Ready
  <2>5. h = l /\ \A x \in 1 .. l : n[x] = m[x]
    BY <1>2, <2>4 DEF Outside, Inside, Growing, Suits
  <2>. QED BY <2>1, <2>2, <2>5 DEF Takes, FreeIs
<1>7. s = "rename" /\ Tail(t) # <<>> => Renames(n, h, Tail(t), f)
  <2> SUFFICES ASSUME s = "rename", Tail(t) # <<>>
               PROVE  Renames(n, h, Tail(t), f)
    OBVIOUS
  <2>1. PICK k : /\ Slotted(m, l, f, k) /\ t[Len(t)][1] = k
                 /\ \A i \in 1 .. Len(t) - 1 : t[i][1] # k
    BY <1>1, <1>3 DEF Creates, Renames
  <2>2. /\ Len(t) \in Nat /\ Len(t) > 1 /\ Tail(t)[Len(Tail(t))] = t[Len(t)]
        /\ Len(Tail(t)) = Len(t) - 1
        /\ \A i \in 1 .. Len(Tail(t)) : Tail(t)[i] = t[i + 1] /\ i + 1 \in 1 .. Len(t)
        /\ \A i \in 1 .. Len(Tail(t)) - 1 : i + 1 \in 1 .. Len(t) - 1
    BY <1>2, TailPlan
  <2>3. a # k
    <3>1. 1 \in 1 .. Len(t) - 1
      BY <2>2
    <3>. QED BY <2>1, <3>1
  <2>4. h = l /\ \A x \in 1 .. l : x # a => n[x] = m[x]
    BY <2>2 DEF Outside, Inside, Growing
  <2>5. Slotted(n, h, f, k)
    <3>1. k \in 1 .. l
      BY <1>2, <2>1 DEF Slotted
    <3>2. n[k] = m[k]
      BY <2>3, <2>4, <3>1
    <3>. QED BY <2>1, <2>4, <3>2 DEF Slotted
  <2>6. \A i \in 1 .. Len(Tail(t)) - 1 : Tail(t)[i][1] # k
    <3> SUFFICES ASSUME NEW i \in 1 .. Len(Tail(t)) - 1
                 PROVE  Tail(t)[i][1] # k
      OBVIOUS
    <3>1. i \in 1 .. Len(Tail(t))
      BY <2>2
    <3>. QED BY <2>1, <2>2, <3>1
  <2>. QED BY <2>1, <2>2, <2>5, <2>6 DEF Renames
<1>8. s \in {"head", "data"} => Has(n, h, f)
  BY <1>1, <1>3, <1>4 DEF Creates
<1>9. s \in {"open", "head", "data", "rename", "undo", "cut"}
  BY <1>1 DEF Creates
<1>. QED BY <1>1, <1>3, <1>4, <1>6, <1>7, <1>8, <1>9 DEF Creates

(***************************************************************************)
(* The action WriteBlock, put this way.                                    *)
(***************************************************************************)
LEMMA WriteBlockKind ==
  ASSUME LInv, WriteBlock, stage # "cut"
  PROVE  LET l == LastAddr(mem)
             h == LastAddr(mem')
             a == todo[1][1]
             b == todo[1][2]
         IN  /\ LayoutOf(mem', h, cache', todo')
             /\ todo # <<>> /\ todo' = Tail(todo) /\ op' = op /\ stage' = stage
             /\ mem' = MemAfter(mem, a, b)
             /\ \/ Outside(mem, l, a, mem', h)
                \/ Inside(mem, l, todo, a, b, mem', h)
                \/ Growing(mem, l, todo, a, b, mem', h)
<1> DEFINE l == LastAddr(mem)
           a == todo[1][1]
           b == todo[1][2]
<1>1. LayoutOf(mem, l, cache, todo)
  BY DEF LInv, Left
<1>2. /\ todo # <<>> /\ mem' = MemAfter(mem, a, b)
      /\ cache' = CacheAfter(cache, a, b)
      /\ todo' = Tail(todo) /\ op' = op /\ stage' = stage
  BY DEF WriteBlock, CacheAfter, MemAfter
<1> HIDE DEF l, a, b
<1>3. PICK h : /\ LayoutOf(mem', h, cache', todo')
               /\ \/ Outside(mem, l, a, mem', h)
                  \/ Inside(mem, l, todo, a, b, mem', h)
                  \/ Growing(mem, l, todo, a, b, mem', h)
  <2>1. a = todo[1][1] /\ b = todo[1][2]
    BY DEF a, b
  <2>2. PICK n, d : n = mem' /\ d = cache'
    OBVIOUS
  <2>. QED BY <1>1, <1>2, <2>1, <2>2, StepKinds
<1>4. LastAddr(mem') = h
  BY <1>3, EndIs DEF LayoutOf
<1>. QED BY <1>2, <1>3, <1>4 DEF l, a, b

(***************************************************************************)
(* WriteBlock preserves the invariant, or cuts the table.                  *)
(***************************************************************************)
LEMMA WriteBlockLayout ==
  ASSUME LInv, WriteBlock
  PROVE  /\ stage # "cut" => LInv'
         /\ stage = "cut" => Cut' /\ op' # None
<1> DEFINE l == LastAddr(mem)
           h == LastAddr(mem')
           a == todo[1][1]
           b == todo[1][2]
<1>1. /\ Creating(mem, l, cache, todo, op, stage)
      /\ IsTuple(todo) /\ (stage = "cut" => op # None /\ Len(todo) = 1)
  BY DEF LInv
<1>2. CASE stage = "cut"
  <2>1. todo # <<>> /\ todo' = Tail(todo) /\ op' = op /\ stage' = stage
    BY DEF WriteBlock
  <2>2. IsTuple(Tail(todo)) /\ Len(Tail(todo)) = 0
    <3>1. IsTuple(Tail(todo)) /\ Len(Tail(todo)) = Len(todo) - 1
      BY <1>1, <2>1, TupleTail
    <3>. QED BY <1>1, <1>2, <3>1
  <2>3. Tail(todo) = <<>>
    BY <2>2, TupleNotEmpty
  <2>. QED BY <1>1, <1>2, <2>1, <2>3 DEF Cut
<1>3. CASE stage # "cut"
  <2>1. LayoutOf(mem, l, cache, todo)
    BY <1>3 DEF LInv, Left
  <2>2. /\ LayoutOf(mem', h, cache', todo')
        /\ todo # <<>> /\ todo' = Tail(todo) /\ op' = op /\ stage' = stage
        /\ \/ Outside(mem, l, a, mem', h)
           \/ Inside(mem, l, todo, a, b, mem', h)
           \/ Growing(mem, l, todo, a, b, mem', h)
    BY <1>3, WriteBlockKind
  <2> HIDE DEF l, h
  <2>3. Creating(mem', h, cache', Tail(todo), op, stage)
    <3>1. PICK n, d : n = mem' /\ d = cache'
      OBVIOUS
    <3>2. Creating(n, h, d, Tail(todo), op, stage)
      BY <1>1, <2>1, <2>2, <3>1, CreatingStep
    <3>. QED BY <3>1, <3>2
  <2>4. IsTuple(todo')
    BY <2>2 DEF LayoutOf
  <2>. QED BY <1>3, <2>2, <2>3, <2>4 DEF LInv, Left, h
<1>. QED BY <1>2, <1>3

-----------------------------------------------------------------------------
(***************************************************************************)
(* What the invariant gives for the start of an operation.                 *)
(***************************************************************************)
LEMMA LInvGives ==
  ASSUME LInv, NEW l, l = LastAddr(mem)
  PROVE  /\ DOMAIN mem = Addrs /\ IsTuple(cache) /\ IsTuple(todo)
         /\ Ends(mem, l) /\ Apart(mem, l) /\ Fresh(cache, mem, l)
         /\ l \in Nat /\ l >= 1 /\ l \in Addrs
         /\ LastAddr(Table) = l
<1>1. /\ DOMAIN mem = Addrs /\ IsTuple(cache) /\ IsTuple(todo)
      /\ Ends(mem, l) /\ Apart(mem, l) /\ Fresh(cache, mem, l)
  BY DEF LInv, LayoutOf
<1>2. l \in Addrs
  BY <1>1 DEF Ends
<1>3. l \in Nat /\ l >= 1
  BY <1>2 DEF Addrs
<1>4. LastAddr(Table) = l
  BY <1>1, TableIs
<1>. QED BY <1>1, <1>2, <1>3, <1>4

(***************************************************************************)
(* An operation that begins, or goes on, with a sound plan preserves it.   *)
(***************************************************************************)
LEMMA NewPlan ==
  ASSUME LInv, NEW l, l = LastAddr(mem), mem' = mem,
         \E j \in Nat : cache' = Traversed(j),
         IsTuple(todo'), Plan(mem, l, todo', cache'), stage' # "cut",
         Creating(mem, l, cache', todo', op', stage')
  PROVE  LInv'
<1>1. /\ DOMAIN mem = Addrs /\ IsTuple(cache)
      /\ Ends(mem, l) /\ Apart(mem, l) /\ Fresh(cache, mem, l)
  BY LInvGives
<1>2. IsTuple(cache') /\ Fresh(cache', mem, l)
  BY <1>1, TraversedFresh
<1>3. LastAddr(mem') = l
  OBVIOUS
<1>. QED BY <1>1, <1>2, <1>3 DEF LInv, LayoutOf, Left

(***************************************************************************)
(* Entry g is that of slot k moved to n free blocks from s on.             *)
(***************************************************************************)
MovedTo(m, l, k, s, n, g) ==
  /\ g \in Entries /\ g.file = m[k].file /\ g.active = TRUE /\ g.last = FALSE
  /\ g.start = s /\ g.size = n /\ s \in Nat /\ n \in Nat
  /\ \A c \in Nat : s <= c /\ c < s + n =>
       c \in Addrs /\ c > l /\ \A b \in 1 .. l : ~In(m[b], c)

(***************************************************************************)
(* The place that tee_mm_alloc() finds is free.                            *)
(***************************************************************************)
LEMMA PlaceIs ==
  ASSUME LInv, NEW l, l = LastAddr(mem), NEW n \in Nat, Places(n) # {},
         NEW s, s = Max(Places(n))
  PROVE  /\ s \in Nat
         /\ \A c \in Nat : s <= c /\ c < s + n =>
              c \in Addrs /\ c > l /\ \A b \in 1 .. l : ~In(mem[b], c)
<1>1. /\ IsTuple(cache) /\ Ends(mem, l) /\ Fresh(cache, mem, l) /\ l \in Nat
  BY LInvGives
<1>2. Places(n) \subseteq Addrs /\ Addrs \subseteq Nat
  BY DEF Places, Addrs
<1>3. IsFiniteSet(Places(n))
  BY <1>2, RpmbFsAssumption, FS_Interval, FS_Subset DEF Addrs
<1>4. s \in Places(n)
  BY <1>2, <1>3, MaxIsAbove
<1>5. s \in Addrs /\ s + n - 1 <= MaxAddr /\ s .. s + n - 1 \cap Taken = {}
  BY <1>4 DEF Places
<1>6. ASSUME NEW c \in Nat, s <= c, c < s + n
      PROVE  c \in Addrs /\ c > l /\ \A b \in 1 .. l : ~In(mem[b], c)
  <2>1. s \in Nat /\ s >= 1 /\ MaxAddr \in Nat
    BY <1>5, RpmbFsAssumption DEF Addrs
  <2>2. c \in s .. s + n - 1 /\ c >= 1 /\ c <= MaxAddr
    BY <1>5, <1>6, <2>1
  <2>3. c \notin Taken
    BY <1>5, <2>2
  <2>4. c \notin 1 .. l /\ \A b \in 1 .. l : ~In(mem[b], c)
    BY <1>1, <2>3, TakenIs
  <2>5. c \in Addrs
    BY <2>1, <2>2 DEF Addrs
  <2>. QED BY <1>1, <2>2, <2>4, <2>5
<1>. QED BY <1>2, <1>5, <1>6

(***************************************************************************)
(* So a file may move there.                                               *)
(***************************************************************************)
LEMMA MovedToIs ==
  ASSUME NEW m, NEW l, NEW k, NEW e \in Entries, e = m[k], e.active = TRUE,
         e.last = FALSE, NEW s \in Nat, NEW n \in Nat, NEW g, g = MovedE(e, s, n),
         \A c \in Nat : s <= c /\ c < s + n =>
           c \in Addrs /\ c > l /\ \A b \in 1 .. l : ~In(m[b], c)
  PROVE  MovedTo(m, l, k, s, n, g)
<1>1. g \in Entries
  BY MovedEntry
<1>2. g.file = e.file
  BY MovedEntry
<1>3. g.active = e.active
  BY MovedEntry
<1>4. g.last = e.last
  BY MovedEntry
<1>5. g.start = s
  BY MovedEntry
<1>6. g.size = n
  BY MovedEntry
<1>. QED BY <1>1, <1>2, <1>3, <1>4, <1>5, <1>6 DEF MovedTo

(***************************************************************************)
(* The writes of Moved.                                                    *)
(***************************************************************************)
LEMMA MovedIs ==
  ASSUME LInv, NEW l, l = LastAddr(mem), NEW f, Exists(f), NEW x, IsTuple(x),
         Places(Len(x)) # {}, NEW s, s = Max(Places(Len(x)))
  PROVE  \E g : /\ MovedTo(mem, l, SlotOf(f), s, Len(x), g)
                /\ Moved(f, s, x) = Writes(s, x) \o << Put(SlotOf(f), g) >>
<1>1. /\ IsTuple(cache) /\ Ends(mem, l) /\ Fresh(cache, mem, l)
  BY LInvGives
<1>2. PICK e \in Entries : e = Entry(SlotOf(f)) /\ e = mem[SlotOf(f)]
         /\ e.active = TRUE /\ e.last = FALSE
  BY <1>1, SlotIs
<1>3. PICK n \in Nat : n = Len(x)
  BY TupleHas
<1>4. s \in Nat /\ \A c \in Nat : s <= c /\ c < s + n =>
              c \in Addrs /\ c > l /\ \A b \in 1 .. l : ~In(mem[b], c)
  BY <1>3, PlaceIs
<1>5. PICK g : g = MovedE(e, s, n)
  OBVIOUS
<1>7. MovedTo(mem, l, SlotOf(f), s, n, g)
  BY <1>2, <1>4, <1>5, MovedToIs
<1>8. Moved(f, s, x) = Writes(s, x) \o << Put(SlotOf(f), g) >>
  BY <1>2, <1>3, <1>5 DEF Moved, MovedE
<1>. QED BY <1>3, <1>7, <1>8

(***************************************************************************)
(* Those writes one by one: the contents, beyond the table, then the       *)
(* entry.                                                                  *)
(***************************************************************************)
MovedBy(t, l, s, x, k, g) ==
  /\ t # <<>> /\ Len(t) = Len(x) + 1 /\ Len(x) \in Nat
  /\ t[Len(t)] = Put(k, g)
  /\ \A i \in 1 .. Len(x) :
       t[i] = << s + i - 1, x[i] >> /\ s + i - 1 \in Nat /\ s + i - 1 > l

(***************************************************************************)
(* A move is a sound plan.                                                 *)
(***************************************************************************)
LEMMA MovedPlan ==
  ASSUME NEW m, NEW l \in Nat, NEW k \in 1 .. l - 1, NEW s, NEW x, IsTuple(x),
         NEW g, MovedTo(m, l, k, s, Len(x), g), NEW c, NEW t,
         t = Writes(s, x) \o << Put(k, g) >>
  PROVE  IsTuple(t) /\ Plan(m, l, t, c) /\ MovedBy(t, l, s, x, k, g)
<1>1. PICK u : u = Writes(s, x)
  OBVIOUS
<1>2. /\ IsTuple(u) /\ Len(u) = Len(x)
      /\ \A i \in 1 .. Len(x) : u[i] = << s + i - 1, x[i] >>
  BY <1>1, WritesIs
<1>3. s \in Nat /\ Len(x) \in Nat
  BY DEF MovedTo
<1>4. ASSUME NEW i \in 1 .. Len(x)
      PROVE  s + i - 1 \in Nat /\ s + i - 1 > l
  <2>1. PICK c0 \in Nat : c0 = s + i - 1
    BY <1>3
  <2>2. s <= c0 /\ c0 < s + Len(x)
    BY <1>3, <2>1
  <2>. QED BY <2>1, <2>2 DEF MovedTo
<1>5. \A i \in 1 .. Len(u) : Early(l, u[i])
  BY <1>2, <1>4 DEF Early
<1>6. Suits(m, l, k, g)
  <2>1. ASSUME NEW c0 \in Nat, In(g, c0)
        PROVE  c0 \in Addrs /\ c0 > l /\ \A b \in 1 .. l : ~In(m[b], c0)
    <3>1. s <= c0 /\ c0 < s + Len(x)
      BY <2>1 DEF MovedTo, In
    <3>. QED BY <3>1 DEF MovedTo
  <2>2. g \in Entries /\ g.last = FALSE
    BY DEF MovedTo
  <2>. QED BY <2>1, <2>2 DEF Suits, Fits
<1>7. Plan(m, l, t, c) /\ IsTuple(t)
  BY <1>1, <1>2, <1>5, <1>6, PlanAfter
<1>8. PICK w : w = Put(k, g)
  OBVIOUS
<1>9. /\ t # <<>> /\ Len(t) = Len(u) + 1
      /\ \A i \in 1 .. Len(u) : t[i] = u[i]
      /\ t[Len(u) + 1] = w
  <2>1. t = u \o <<w>>
    BY <1>1, <1>8, Zenon
  <2>2. /\ Len(u \o <<w>>) = Len(u) + 1
        /\ u \o <<w>> # <<>>
        /\ \A i \in 1 .. Len(u) : (u \o <<w>>)[i] = u[i]
        /\ (u \o <<w>>)[Len(u) + 1] = w
    BY <1>2, TupleAppend, Zenon
  <2>. QED BY <2>1, <2>2, Zenon
<1>10. MovedBy(t, l, s, x, k, g)
  BY <1>2, <1>3, <1>4, <1>8, <1>9 DEF MovedBy
<1>. QED BY <1>7, <1>10

(***************************************************************************)
(* The slot that rpmb_fs_open_internal() takes.                            *)
(***************************************************************************)
LEMMA FreeGives ==
  ASSUME LInv, NEW l, l = LastAddr(mem)
  PROVE  FreeIs(mem, l, Free) /\ (Expands <=> Free = l)
           /\ (Room => Spare(mem, Free))
<1>1. /\ IsTuple(cache) /\ Ends(mem, l) /\ Fresh(cache, mem, l) /\ l \in Nat
      /\ LastAddr(Table) = l
  BY LInvGives
<1> DEFINE S == {a \in 1 .. l : ~mem[a].active}
<1>2. Free = Min(S)
  BY <1>1, TableIs DEF Free
<1>3. l \in S
  BY <1>1 DEF Ends, Addrs
<1>4. S \subseteq Nat /\ IsFiniteSet(S)
  <2>1. S \subseteq 1 .. l
    OBVIOUS
  <2>2. IsFiniteSet(S)
    <3>1. IsFiniteSet(1 .. l)
      BY <1>1, FS_Interval
    <3>. QED BY <2>1, <3>1, FS_Subset
  <2>. QED BY <1>1, <2>1, <2>2
<1>5. Free \in S
  BY <1>2, <1>3, <1>4, MinIsIn
<1>6. \A a \in 1 .. l : mem[a].active \in BOOLEAN
  BY <1>1, EntryIs DEF Ends
<1>7. FreeIs(mem, l, Free)
  BY <1>5, <1>6 DEF FreeIs
<1>8. Room => Spare(mem, Free)
  <2> SUFFICES ASSUME Room PROVE Spare(mem, Free)
    OBVIOUS
  <2>1. Free + 1 \in Addrs /\ Free + 1 \notin Taken /\ Free + 1 \in Nat
    BY DEF Room, Addrs
  <2>2. \A b \in 1 .. l : ~In(mem[b], Free + 1)
    BY <1>1, <2>1, TakenIs
  <2>3. 1 .. Free \subseteq 1 .. l
    BY <1>1, <1>5
  <2>. QED BY <2>1, <2>2, <2>3 DEF Spare
<1>. QED BY <1>1, <1>7, <1>8 DEF Expands

(***************************************************************************)
(* What an open with create of file f in slot k plans: nothing for a file  *)
(* that exists, else its entry, after the new end of the table if that has *)
(* to grow; or nothing because it fails.                                   *)
(***************************************************************************)
OpenDoes(m, l, f, k, t, s) ==
  \/ s = "full" /\ t = <<>>
  \/ s = "fail" /\ t = <<>> /\ (Has(m, l, f) \/ (FreeIs(m, l, k) /\ k # l))
  \/ Has(m, l, f) /\ t = <<>> /\ s = "open"
  \/ /\ ~Has(m, l, f) /\ s = "open" /\ FreeIs(m, l, k)
     /\ \E e :
          /\ e = NewEntry(f)
          /\ \/ k # l /\ t = << Put(k, e) >>
             \/ k = l /\ Spare(m, l)
                  /\ t = << Put(l + 1, LastEntry) >> \o << Put(l, e) >>

(***************************************************************************)
(* OpenFile does so.                                                       *)
(***************************************************************************)
LEMMA OpenFileDoes ==
  ASSUME LInv, NEW l, l = LastAddr(mem), NEW o, OpenFile(o), NEW k,
         k = IF Exists(o.file) THEN SlotOf(o.file) ELSE Free
  PROVE  OpenDoes(mem, l, o.file, k, todo', stage')
<1>1. /\ IsTuple(cache) /\ Ends(mem, l) /\ Fresh(cache, mem, l) /\ l \in Nat
  BY LInvGives
<1>2. Exists(o.file) <=> Has(mem, l, o.file)
  BY <1>1, SlotIs DEF Has
<1>3. FreeIs(mem, l, Free) /\ (Expands <=> Free = l) /\ (Room => Spare(mem, Free))
  BY FreeGives
<1>4. \/ /\ stage' = IF ~Exists(o.file) /\ Expands THEN "full" ELSE "fail"
         /\ todo' = <<>>
      \/ /\ ~Exists(o.file) /\ Expands => Room
         /\ stage' = "open"
         /\ todo' = IF Exists(o.file) THEN <<>>
                    ELSE (IF Expands THEN << Put(Free + 1, LastEntry) >>
                                     ELSE <<>>)
                           \o << Put(Free, NewEntry(o.file)) >>
  BY DEF OpenFile
<1>5. CASE /\ stage' = IF ~Exists(o.file) /\ Expands THEN "full" ELSE "fail"
           /\ todo' = <<>>
  <2>1. PICK s, t : s = stage' /\ t = todo'
    OBVIOUS
  <2>2. CASE ~Exists(o.file) /\ Expands
    <3>1. s = "full" /\ t = <<>>
      BY <1>5, <2>1, <2>2
    <3>. QED BY <2>1, <3>1 DEF OpenDoes
  <2>3. CASE Exists(o.file)
    <3>1. s = "fail" /\ t = <<>> /\ Has(mem, l, o.file)
      BY <1>2, <1>5, <2>1, <2>3
    <3>. QED BY <2>1, <3>1 DEF OpenDoes
  <2>4. CASE ~Exists(o.file) /\ ~Expands
    <3>1. s = "fail" /\ t = <<>> /\ FreeIs(mem, l, k) /\ k # l
      BY <1>3, <1>5, <2>1, <2>4
    <3>. QED BY <2>1, <3>1 DEF OpenDoes
  <2>. QED BY <2>2, <2>3, <2>4
<1>6. CASE Exists(o.file) /\ stage' = "open" /\ todo' = <<>>
  BY <1>2, <1>6 DEF OpenDoes
<1>7. CASE /\ ~Exists(o.file) /\ ~Expands /\ stage' = "open"
           /\ todo' = <<>> \o << Put(Free, NewEntry(o.file)) >>
  <2>1. PICK w : w = Put(Free, NewEntry(o.file))
    OBVIOUS
  <2>2. todo' = <<>> \o << w >>
    BY <1>7, <2>1
  <2>3. todo' = << w >>
    BY <2>2, EmptyAppend
  <2>. QED BY <1>2, <1>3, <1>7, <2>1, <2>3 DEF OpenDoes
<1>8. CASE /\ ~Exists(o.file) /\ Expands /\ Room /\ stage' = "open"
           /\ todo' = << Put(Free + 1, LastEntry) >> \o << Put(Free, NewEntry(o.file)) >>
  <2>1. todo' = << Put(l + 1, LastEntry) >> \o << Put(l, NewEntry(o.file)) >>
    BY <1>3, <1>8
  <2>2. Spare(mem, l)
    BY <1>3, <1>8
  <2>. QED BY <1>2, <1>3, <1>8, <2>1, <2>2 DEF OpenDoes
<1>. QED BY <1>4, <1>5, <1>6, <1>7, <1>8

(***************************************************************************)
(* A new entry suits any slot below the end.                               *)
(***************************************************************************)
LEMMA FreshSuits ==
  ASSUME NEW m, NEW l, NEW k \in 1 .. l - 1, NEW f \in Files, NEW e, e = NewEntry(f)
  PROVE  Suits(m, l, k, e)
<1>1. e \in Entries /\ e.last = FALSE /\ e.size = 0
  BY NewEntryIs
<1>2. \A c \in Nat : ~In(e, c)
  BY <1>1, EntryIs DEF In
<1>. QED BY <1>1, <1>2 DEF Suits, Fits

(***************************************************************************)
(* An open is a sound plan.                                                *)
(***************************************************************************)
LEMMA OpenPlan ==
  ASSUME NEW m, NEW l \in Nat, NEW f \in Files, NEW k, NEW t, NEW s,
         OpenDoes(m, l, f, k, t, s), NEW c
  PROVE  /\ IsTuple(t) /\ Plan(m, l, t, c) /\ s \in {"open", "fail", "full"}
         /\ s \in {"fail", "full"} => t = <<>>
         /\ s = "fail" => Has(m, l, f) \/ Clears(m, l, c, k)
         /\ s = "open" => Ready(m, l, t, f) /\ (Has(m, l, f) \/ Takes(m, l, t, k))
<1>0. CASE s \in {"fail", "full"} /\ t = <<>>
  <2>1. s = "fail" => Has(m, l, f) \/ (k \in 1 .. l - 1 /\ m[k].active = FALSE)
    BY <1>0 DEF OpenDoes, FreeIs
  <2>. QED BY <1>0, <2>1, PlanEmpty DEF Clears
<1>1. CASE Has(m, l, f) /\ t = <<>> /\ s = "open"
  <2>1. 1 .. Len(t) = {}
    <3>1. Len(t) = 0
      BY <1>1, TupleEmpty
    <3>2. 1 .. 0 = {}
      OBVIOUS
    <3>. QED BY <3>1, <3>2, Zenon
  <2>2. 1 .. Len(t) - 1 = {}
    <3>1. Len(t) = 0
      BY <1>1, TupleEmpty
    <3>2. 1 .. 0 - 1 = {}
      OBVIOUS
    <3>. QED BY <3>1, <3>2, Zenon
  <2>. QED BY <1>1, <2>1, <2>2, PlanEmpty DEF Ready
<1>2. CASE ~Has(m, l, f) /\ s = "open"
  <2>1. FreeIs(m, l, k) /\ \E e :
          /\ e = NewEntry(f)
          /\ \/ k # l /\ t = << Put(k, e) >>
             \/ k = l /\ Spare(m, l)
                  /\ t = << Put(l + 1, LastEntry) >> \o << Put(l, e) >>
    BY <1>2 DEF OpenDoes
  <2>0. PICK e :
          /\ e = NewEntry(f)
          /\ \/ k # l /\ t = << Put(k, e) >>
             \/ k = l /\ Spare(m, l)
                  /\ t = << Put(l + 1, LastEntry) >> \o << Put(l, e) >>
    BY <2>1
  <2>2. e \in Entries /\ e.file = f /\ e.active = TRUE /\ e.last = FALSE
           /\ e.size = 0 /\ k \in 1 .. l
    BY <2>0, <2>1, NewEntryIs DEF FreeIs
  <2>3. PICK v, w : w = Put(k, e) /\ v = Put(l + 1, LastEntry)
    OBVIOUS
  <2>4. w[1] = k /\ w[2] = e /\ v[1] = l + 1
    BY <2>3 DEF Put
  <2>5. CASE k # l /\ t = << Put(k, e) >>
    <3>1. k \in 1 .. l - 1
      BY <2>2, <2>5
    <3>2. Suits(m, l, k, e)
      BY <2>0, <3>1, FreshSuits
    <3>3. IsTuple(t) /\ Plan(m, l, t, c)
      BY <2>5, <3>2, PlanOne
    <3>4. Len(t) = 1 /\ t[1] = w /\ t # <<>>
      BY <2>3, <2>5, TupleOne
    <3>. QED BY <1>2, <2>1, <2>2, <2>4, <3>3, <3>4 DEF Ready, Takes
  <2>6. CASE k = l /\ Spare(m, l) /\ t = << Put(l + 1, LastEntry) >> \o << Put(l, e) >>
    <3>1. Grows(m, l, l, e)
      BY <2>2, <2>6 DEF Grows
    <3>2. IsTuple(t) /\ Plan(m, l, t, c)
      BY <2>6, <3>1, PlanGrow
    <3>3. t = <<v>> \o <<w>>
      BY <2>3, <2>6
    <3>4. Len(t) = 2 /\ t[1] = v /\ t[2] = w
      BY <3>3, PairIs
    <3>5. t # <<>>
      BY <3>4, TupleEmpty
    <3>6. \A i \in 1 .. Len(t) - 1 : t[i][1] \in Nat /\ t[i][1] > l
      BY <2>4, <3>4
    <3>. QED BY <1>2, <2>1, <2>2, <2>4, <3>2, <3>4, <3>5, <3>6 DEF Ready, Takes
  <2>. QED BY <2>0, <2>5, <2>6
<1>. QED BY <1>0, <1>1, <1>2 DEF OpenDoes

(***************************************************************************)
(* SlotOf is the slot of a file that exists.                               *)
(***************************************************************************)
LEMMA SlotGives ==
  ASSUME LInv, NEW l, l = LastAddr(mem), NEW f, Exists(f)
  PROVE  /\ Slotted(mem, l, f, SlotOf(f)) /\ Entry(SlotOf(f)) = mem[SlotOf(f)]
         /\ SlotOf(f) \in Nat /\ Has(mem, l, f)
<1>1. /\ IsTuple(cache) /\ Ends(mem, l) /\ Fresh(cache, mem, l) /\ l \in Nat
  BY LInvGives
<1>2. /\ Slotted(mem, l, f, SlotOf(f)) /\ Entry(SlotOf(f)) = mem[SlotOf(f)]
      /\ Has(mem, l, f)
  BY <1>1, SlotIs DEF Slotted, Has
<1>. QED BY <1>1, <1>2 DEF Slotted

(***************************************************************************)
(* Exists by the device rather than by the cache.                          *)
(***************************************************************************)
LEMMA ExistsIs ==
  ASSUME LInv, NEW l, l = LastAddr(mem), NEW f
  PROVE  Exists(f) <=> Has(mem, l, f)
<1>1. /\ IsTuple(cache) /\ Ends(mem, l) /\ Fresh(cache, mem, l)
  BY LInvGives
<1>. QED BY <1>1, SlotIs DEF Has

(***************************************************************************)
(* The contents of an entry are those of its blocks.                       *)
(***************************************************************************)
LEMMA ContentIs ==
  ASSUME NEW e, NEW m, e.size \in Nat
  PROVE  /\ IsTuple(Content(e, m)) /\ Len(Content(e, m)) = e.size
         /\ \A i \in 1 .. e.size : Content(e, m)[i] = m[e.start + i - 1]
<1>1. PICK x : x = Content(e, m)
  OBVIOUS
<1>2. x = [i \in 1 .. e.size |-> m[e.start + i - 1]]
  BY <1>1 DEF Content
<1>3. \A i \in 1 .. e.size : x[i] = m[e.start + i - 1]
  BY <1>2
<1>4. x = [i \in 1 .. e.size |-> x[i]]
  BY <1>2, <1>3
<1>5. IsTuple(x) /\ Len(x) = e.size
  BY <1>4, TupleLen
<1>. QED BY <1>1, <1>3, <1>5

(***************************************************************************)
(* The result of update_write_helper(), by its blocks.                     *)
(***************************************************************************)
IsUpdated(x, y, pos, buf) ==
  /\ IsTuple(x)
  /\ Len(x) = IF pos + Len(buf) > Len(y) THEN pos + Len(buf) ELSE Len(y)
  /\ \A i \in 1 .. Len(x) :
       x[i] = IF i > pos /\ i <= pos + Len(buf) THEN buf[i - pos]
              ELSE IF i <= Len(y) /\ TmpBlock * ((i - 1) \div TmpBlock) < pos THEN y[i]
              ELSE Zero

(***************************************************************************)
(* Updated is that.                                                        *)
(***************************************************************************)
LEMMA UpdatedIs ==
  ASSUME NEW y, IsTuple(y), NEW pos \in Nat, NEW buf, IsTuple(buf),
         NEW x, x = Updated(y, pos, buf)
  PROVE  IsUpdated(x, y, pos, buf)
<1>1. Len(y) \in Nat /\ Len(buf) \in Nat
  BY TupleHas
<1>2. PICK n \in Nat : n = IF pos + Len(buf) > Len(y) THEN pos + Len(buf) ELSE Len(y)
  BY <1>1
<1>3. Max({pos + Len(buf), Len(y)}) = n
  <2>1. PICK p \in Nat : p = pos + Len(buf)
    BY <1>1
  <2>. QED BY <1>1, <1>2, <2>1, GreaterOf
<1> DEFINE F(i) == IF i > pos /\ i <= pos + Len(buf) THEN buf[i - pos]
                     ELSE IF i <= Len(y) /\ TmpBlock * ((i - 1) \div TmpBlock) < pos THEN y[i]
                     ELSE Zero
<1>4. x = [i \in 1 .. n |-> F(i)]
  BY <1>3 DEF Updated
<1> HIDE DEF F
<1>5. \A i \in 1 .. n : x[i] = F(i)
  BY <1>4
<1>6. x = [i \in 1 .. n |-> x[i]]
  BY <1>4, <1>5
<1>7. IsTuple(x) /\ Len(x) = n
  BY <1>6, TupleLen
<1>. QED BY <1>2, <1>5, <1>7 DEF F, IsUpdated

(***************************************************************************)
(* The same for a file that is made longer, or cut.                        *)
(***************************************************************************)
IsExtended(x, y, n) ==
  /\ IsTuple(x) /\ Len(x) = n
  /\ \A i \in 1 .. n : x[i] = IF i <= Len(y) THEN y[i] ELSE Zero

(***************************************************************************)
(* Extended is that.                                                       *)
(***************************************************************************)
LEMMA ExtendedIs ==
  ASSUME NEW y, IsTuple(y), NEW n \in Nat, NEW x, x = Extended(y, n)
  PROVE  IsExtended(x, y, n)
<1> DEFINE F(i) == IF i <= Len(y) THEN y[i] ELSE Zero
<1>4. x = [i \in 1 .. n |-> F(i)]
  BY DEF Extended
<1> HIDE DEF F
<1>5. \A i \in 1 .. n : x[i] = F(i)
  BY <1>4
<1>6. x = [i \in 1 .. n |-> x[i]]
  BY <1>4, <1>5
<1>7. IsTuple(x) /\ Len(x) = n
  BY <1>6, TupleLen
<1>. QED BY <1>5, <1>7 DEF F, IsExtended

-----------------------------------------------------------------------------
(***************************************************************************)
(* What the parts of operations plan, in terms of the device: a move, a    *)
(* write in place or by a move, a rename, a removal and a truncation.      *)
(***************************************************************************)
MoveDoes(m, l, k, x, t) ==
  \E p, g : MovedTo(m, l, k, p, Len(x), g)
              /\ t = Writes(p, x) \o << Put(k, g) >>

WriteDoes(m, l, f, pos, buf, st, t, s) ==
  \E k :
    /\ Slotted(m, l, f, k)
    /\ \/ /\ s = st /\ InPlace(m[k], pos, buf)
          /\ t = << Put(m[k].start + pos, buf[1]) >>
       \/ /\ s = st /\ ~InPlace(m[k], pos, buf)
          /\ MoveDoes(m, l, k, Updated(Content(m[k], m), pos, buf), t)
       \/ s = "fail" /\ t = <<>>

RenameDoes(m, l, f, g, over, st, t, s) ==
  \E k :
    /\ Slotted(m, l, f, k)
    /\ \/ s = "fail" /\ t = <<>>
       \/ s = st /\ ~Has(m, l, g) /\ t = << Put(k, RenamedE(m[k], g)) >>
       \/ /\ s = st
          /\ \E j : Slotted(m, l, g, j)
               /\ t = << Put(j, Cleared) >> \o << Put(k, RenamedE(m[k], g)) >>

RemoveDoes(m, l, f, t) == \E k : Slotted(m, l, f, k) /\ t = << Put(k, Cleared) >>

TruncateDoes(m, l, f, len, t) ==
  \E k :
    /\ Slotted(m, l, f, k)
    /\ \/ len <= m[k].size /\ t = << Put(k, ResizedE(m[k], len)) >>
       \/ MoveDoes(m, l, k, Extended(Content(m[k], m), len), t)
       \/ t = <<>>

(***************************************************************************)
(* Moved is a move.                                                        *)
(***************************************************************************)
LEMMA MoveGives ==
  ASSUME LInv, NEW l, l = LastAddr(mem), NEW f, Exists(f), NEW x, IsTuple(x),
         Places(Len(x)) # {}
  PROVE  MoveDoes(mem, l, SlotOf(f), x, Moved(f, Max(Places(Len(x))), x))
<1>1. PICK s : s = Max(Places(Len(x)))
  OBVIOUS
<1>2. PICK g : /\ MovedTo(mem, l, SlotOf(f), s, Len(x), g)
               /\ Moved(f, s, x) = Writes(s, x) \o << Put(SlotOf(f), g) >>
  BY <1>1, MovedIs
<1>. QED BY <1>1, <1>2 DEF MoveDoes

(***************************************************************************)
(* rpmb_fs_write_primitive()                                               *)
(***************************************************************************)
LEMMA WriteFileDoes ==
  ASSUME LInv, NEW l, l = LastAddr(mem), NEW f, Exists(f), NEW pos \in Nat,
         NEW buf, IsTuple(buf), NEW st, WriteFile(f, pos, buf, st)
  PROVE  /\ WriteDoes(mem, l, f, pos, buf, st, todo', stage')
         /\ mem' = mem /\ cache' = Traversed(l)
<1>1. PICK k : k = SlotOf(f)
  OBVIOUS
<1>2. Slotted(mem, l, f, k) /\ Entry(k) = mem[k]
  BY <1>1, SlotGives
<1>3. PICK e : e = mem[k] /\ e \in Entries
  BY <1>2 DEF Slotted
<1>4. PICK x : x = Updated(Content(e, mem), pos, buf)
  OBVIOUS
<1>5. IsTuple(x)
  <2>1. PICK y : y = Content(e, mem)
    OBVIOUS
  <2>2. IsTuple(y)
    BY <1>3, <2>1, ContentIs, EntryIs
  <2>. QED BY <1>4, <2>1, <2>2, UpdatedIs DEF IsUpdated
<1>6. LastAddr(Table) = l
  BY LInvGives
<1>7. /\ IF InPlace(e, pos, buf)
           THEN todo' = << Put(e.start + pos, buf[1]) >> /\ stage' = st
           ELSE IF Places(Len(x)) # {}
           THEN todo' = Moved(f, Max(Places(Len(x))), x) /\ stage' = st
           ELSE todo' = <<>> /\ stage' = "fail"
      /\ mem' = mem /\ cache' = Traversed(l)
  BY <1>1, <1>2, <1>3, <1>4, <1>6 DEF WriteFile
<1>8. CASE InPlace(e, pos, buf)
  BY <1>2, <1>3, <1>7, <1>8 DEF WriteDoes
<1>9. CASE ~InPlace(e, pos, buf) /\ Places(Len(x)) # {}
  <2>1. MoveDoes(mem, l, k, x, todo')
    BY <1>1, <1>5, <1>7, <1>9, MoveGives
  <2>. QED BY <1>2, <1>3, <1>4, <1>7, <1>9, <2>1 DEF WriteDoes
<1>10. CASE ~InPlace(e, pos, buf) /\ Places(Len(x)) = {}
  BY <1>2, <1>3, <1>7, <1>10 DEF WriteDoes
<1>. QED BY <1>7, <1>8, <1>9, <1>10

(***************************************************************************)
(* rpmb_fs_rename_internal()                                               *)
(***************************************************************************)
LEMMA RenameFileDoes ==
  ASSUME LInv, NEW l, l = LastAddr(mem), NEW f, Exists(f), NEW g,
         NEW over, NEW st, RenameFile(f, g, over, st)
  PROVE  /\ RenameDoes(mem, l, f, g, over, st, todo', stage')
         /\ mem' = mem /\ \E j \in Nat : cache' = Traversed(j)
<1>1. PICK k : k = SlotOf(f)
  OBVIOUS
<1>2. Slotted(mem, l, f, k) /\ Entry(k) = mem[k] /\ k \in Nat
  BY <1>1, SlotGives
<1>3. LastAddr(Table) = l /\ l \in Nat
  BY LInvGives
<1>4. PICK j : j = SlotOf(g)
  OBVIOUS
<1>5. Exists(g) => Slotted(mem, l, g, j) /\ j \in Nat
  BY <1>4, SlotGives
<1>6. Exists(g) <=> Has(mem, l, g)
  BY ExistsIs
<1>7. mem' = mem /\ \E i \in Nat : cache' = Traversed(i)
  <2>1. cache' = Traversed(IF Exists(g) THEN Max({k, j}) ELSE l)
    BY <1>1, <1>3, <1>4 DEF RenameFile
  <2>2. Exists(g) => Max({k, j}) \in Nat
    BY <1>2, <1>5, GreaterOf
  <2>. QED BY <1>3, <2>1, <2>2 DEF RenameFile
<1>8. PICK v, w : v = Put(j, Cleared) /\ w = Put(k, RenamedE(mem[k], g))
  OBVIOUS
<1>9. IF Exists(g) /\ ~over
       THEN todo' = <<>> /\ stage' = "fail"
       ELSE /\ todo' = (IF Exists(g) THEN << v >> ELSE <<>>) \o << w >>
            /\ stage' = st
  BY <1>1, <1>2, <1>4, <1>8 DEF RenameFile, RenamedE
<1>10. CASE Exists(g) /\ ~over
  BY <1>2, <1>7, <1>9, <1>10 DEF RenameDoes
<1>11. CASE ~Exists(g)
  <2>1. todo' = << w >> /\ stage' = st
    BY <1>9, <1>11, EmptyAppend
  <2>. QED BY <1>2, <1>6, <1>7, <1>8, <1>11, <2>1 DEF RenameDoes
<1>12. CASE Exists(g) /\ over
  <2>1. todo' = << v >> \o << w >> /\ stage' = st
    BY <1>9, <1>12
  <2>. QED BY <1>2, <1>5, <1>7, <1>8, <1>12, <2>1 DEF RenameDoes
<1>. QED BY <1>10, <1>11, <1>12

(***************************************************************************)
(* rpmb_fs_remove_internal()                                               *)
(***************************************************************************)
LEMMA RemoveFileDoes ==
  ASSUME LInv, NEW l, l = LastAddr(mem), NEW f, Exists(f), NEW slot,
         NEW st, RemoveFile(f, slot, st)
  PROVE  /\ RemoveDoes(mem, l, f, todo') /\ stage' = st
         /\ mem' = mem /\ \E j \in Nat : cache' = Traversed(j)
<1>1. PICK k : k = SlotOf(f)
  OBVIOUS
<1>2. Slotted(mem, l, f, k) /\ k \in Nat
  BY <1>1, SlotGives
<1>3. /\ todo' = << Put(k, Cleared) >> /\ stage' = st /\ mem' = mem
      /\ cache' = Traversed(k)
  BY <1>1 DEF RemoveFile
<1>. QED BY <1>2, <1>3 DEF RemoveDoes

(***************************************************************************)
(* rpmb_fs_truncate()                                                      *)
(***************************************************************************)
LEMMA CallTruncateDoes ==
  ASSUME LInv, NEW l, l = LastAddr(mem), CallTruncate
  PROVE  /\ \E n \in Names, len \in 0 .. MaxLen :
              TruncateDoes(mem, l, Obj(n), len, todo')
         /\ op' # None => op'.kind = "truncate"
         /\ stage' = "fail" => todo' = <<>>
         /\ stage' \in {"only", "fail"}
         /\ mem' = mem /\ \E j \in Nat : cache' = Traversed(j)
<1>1. PICK n \in Names, len \in 0 .. MaxLen :
        LET f == Obj(n)
            e == Entry(SlotOf(f))
        IN  /\ op = None /\ Exists(f)
            /\ op' = OpOf("truncate", f, <<>>, FALSE)
            /\ IF len <= e.size
                 THEN /\ todo' = << Put(SlotOf(f), [e EXCEPT !.size = len]) >>
                      /\ stage' = "only"
                      /\ cache' = Traversed(SlotOf(f))
                 ELSE /\ IF Places(len) # {}
                           THEN /\ todo' = Moved(f, Max(Places(len)),
                                                 Extended(Content(e, mem), len))
                                /\ stage' = "only"
                           ELSE todo' = <<>> /\ stage' = "fail"
                      /\ cache' = Traversed(LastAddr(Table))
            /\ UNCHANGED mem
  BY DEF CallTruncate
<1>2. PICK f : f = Obj(n)
  OBVIOUS
<1>3. PICK k : k = SlotOf(f)
  OBVIOUS
<1>4. Exists(f)
  BY <1>1, <1>2
<1>5. Slotted(mem, l, f, k) /\ Entry(k) = mem[k] /\ k \in Nat
  BY <1>3, <1>4, SlotGives
<1>6. PICK e : e = mem[k] /\ e \in Entries
  BY <1>5 DEF Slotted
<1>7. PICK y : y = Content(e, mem)
  OBVIOUS
<1>8. IsTuple(y)
  BY <1>6, <1>7, ContentIs, EntryIs
<1>9. PICK x : x = Extended(y, len)
  OBVIOUS
<1>10. len \in Nat /\ e.size \in Nat
  BY <1>6, RpmbFsAssumption, EntryIs
<1>11. IsTuple(x) /\ Len(x) = len
  BY <1>8, <1>9, <1>10, ExtendedIs DEF IsExtended
<1>12. LastAddr(Table) = l /\ l \in Nat
  BY LInvGives
<1>13. /\ op' = OpOf("truncate", f, <<>>, FALSE)
       /\ IF len <= e.size
            THEN /\ todo' = << Put(k, ResizedE(e, len)) >>
                 /\ stage' = "only"
                 /\ cache' = Traversed(k)
            ELSE /\ IF Places(len) # {}
                      THEN todo' = Moved(f, Max(Places(len)), x) /\ stage' = "only"
                      ELSE todo' = <<>> /\ stage' = "fail"
                 /\ cache' = Traversed(l)
       /\ mem' = mem
  BY <1>1, <1>2, <1>3, <1>5, <1>6, <1>7, <1>9, <1>12 DEF ResizedE
<1>14. op'.kind = "truncate"
  BY <1>13 DEF OpOf
<1>15. (stage' = "fail" => todo' = <<>>) /\ stage' \in {"only", "fail"}
  BY <1>13
<1>16. mem' = mem /\ \E j \in Nat : cache' = Traversed(j)
  BY <1>5, <1>12, <1>13
<1>17. TruncateDoes(mem, l, f, len, todo')
  <2>1. CASE len <= e.size
    BY <1>5, <1>6, <1>13, <2>1 DEF TruncateDoes
  <2>2. CASE ~(len <= e.size) /\ Places(len) # {}
    <3>1. todo' = Moved(f, Max(Places(Len(x))), x)
      BY <1>11, <1>13, <2>2
    <3>2. MoveDoes(mem, l, k, x, todo')
      BY <1>3, <1>4, <1>11, <2>2, <3>1, MoveGives
    <3>. QED BY <1>5, <1>6, <1>7, <1>9, <3>2 DEF TruncateDoes
  <2>3. CASE ~(len <= e.size) /\ Places(len) = {}
    BY <1>5, <1>13, <2>3 DEF TruncateDoes
  <2>. QED BY <2>1, <2>2, <2>3
<1>. QED BY <1>2, <1>14, <1>15, <1>16, <1>17

(***************************************************************************)
(* There is no index of the empty sequence.                                *)
(***************************************************************************)
LEMMA EmptyRange ==
  1 .. Len(<<>>) = {}
<1>1. Len(<<>>) = 0
  BY TupleEmpty
<1>2. 1 .. 0 = {}
  OBVIOUS
<1>. QED BY <1>1, <1>2, Zenon

(***************************************************************************)
(* A file that exists still does when nothing is planned.                  *)
(***************************************************************************)
LEMMA FailReady ==
  ASSUME NEW m, NEW l \in Nat, NEW f, NEW k, Slotted(m, l, f, k)
  PROVE  Has(m, l, f) /\ Ready(m, l, <<>>, f)
<1>1. Has(m, l, f)
  BY DEF Slotted, Has
<1>2. 1 .. Len(<<>>) - 1 = {}
  <2>1. Len(<<>>) = 0
    BY TupleEmpty
  <2>2. 1 .. 0 - 1 = {}
    OBVIOUS
  <2>. QED BY <2>1, <2>2, Zenon
<1>. QED BY <1>1, <1>2, EmptyRange DEF Ready

(***************************************************************************)
(* A block of a file lies beyond the table.                                *)
(***************************************************************************)
LEMMA PlaceInFile ==
  ASSUME NEW m, NEW l \in Nat, Apart(m, l), NEW f, NEW k, Slotted(m, l, f, k),
         NEW pos \in Nat, pos < m[k].size, NEW c, c = m[k].start + pos
  PROVE  c \in Nat /\ c > l /\ In(m[k], c) /\ c \in Addrs
           /\ \A b \in 1 .. l : b # k => ~In(m[b], c)
<1>1. PICK e \in Entries : e = m[k] /\ e.active = TRUE
  BY DEF Slotted
<1>2. e.start \in Nat /\ e.size \in Nat
  BY EntryIs
<1>3. c \in Nat /\ In(e, c)
  BY <1>1, <1>2 DEF In
<1>4. Fits(m, l, k, e)
  BY <1>1 DEF Apart, Slotted
<1>. QED BY <1>1, <1>3, <1>4 DEF Fits

(***************************************************************************)
(* A write is a sound plan.                                                *)
(***************************************************************************)
Written(m, l, f, st, t, s, c) ==
  /\ IsTuple(t) /\ Plan(m, l, t, c) /\ Ready(m, l, t, f) /\ Has(m, l, f)
  /\ s = "fail" /\ st # "fail" => t = <<>>
  /\ s \in {st, "fail"}

LEMMA WritePlan ==
  ASSUME NEW m, NEW l \in Nat, Apart(m, l), NEW f, NEW pos \in Nat, NEW buf,
         IsTuple(buf), NEW st, NEW t, NEW s,
         WriteDoes(m, l, f, pos, buf, st, t, s), NEW c
  PROVE  Written(m, l, f, st, t, s, c)
<1>1. PICK k :
    /\ Slotted(m, l, f, k)
    /\ \/ /\ s = st /\ InPlace(m[k], pos, buf)
          /\ t = << Put(m[k].start + pos, buf[1]) >>
       \/ /\ s = st /\ ~InPlace(m[k], pos, buf)
          /\ MoveDoes(m, l, k, Updated(Content(m[k], m), pos, buf), t)
       \/ s = "fail" /\ t = <<>>
  BY DEF WriteDoes
<1>2. PICK e \in Entries : e = m[k] /\ e.size \in Nat /\ e.active = TRUE /\ e.file = f
         /\ k \in 1 .. l - 1
  BY <1>1, EntryIs DEF Slotted
<1>3. CASE s = "fail" /\ t = <<>>
  BY <1>1, <1>3, FailReady, PlanEmpty DEF Written
<1>4. CASE /\ s = st /\ InPlace(e, pos, buf)
           /\ t = << Put(e.start + pos, buf[1]) >>
  <2>1. pos < e.size
    <3>1. pos + Len(buf) <= e.size /\ Len(buf) = 1
      BY <1>4 DEF InPlace
    <3>. QED BY <1>2, <3>1
  <2>2. PICK c0 : c0 = e.start + pos
    OBVIOUS
  <2>3. c0 \in Nat /\ c0 > l
    BY <1>1, <1>2, <2>1, <2>2, PlaceInFile
  <2>4. PICK v, w : v = buf[1] /\ w = Put(c0, v)
    OBVIOUS
  <2>5. t = << w >>
    BY <1>4, <2>2, <2>4
  <2>6. IsTuple(t) /\ Plan(m, l, t, c)
    BY <2>3, <2>4, <2>5, PlanOutside
  <2>7. Len(t) = 1 /\ t[1] = w
    BY <2>5, TupleOne
  <2>8. w[1] = c0
    BY <2>4 DEF Put
  <2>9. Ready(m, l, t, f)
    BY <1>1, <2>3, <2>7, <2>8, FailReady DEF Ready
  <2>. QED BY <1>1, <1>4, <2>6, <2>9, FailReady DEF Written
<1>5. CASE s = st /\ MoveDoes(m, l, k, Updated(Content(e, m), pos, buf), t)
  <2>1. PICK y : y = Content(e, m)
    OBVIOUS
  <2>2. IsTuple(y)
    BY <1>2, <2>1, ContentIs
  <2>3. PICK x : x = Updated(y, pos, buf)
    OBVIOUS
  <2>4. IsTuple(x)
    BY <2>2, <2>3, UpdatedIs DEF IsUpdated
  <2>5. PICK p, g : MovedTo(m, l, k, p, Len(x), g)
              /\ t = Writes(p, x) \o << Put(k, g) >>
    BY <1>5, <2>1, <2>3 DEF MoveDoes
  <2>6. IsTuple(t) /\ Plan(m, l, t, c) /\ t # <<>> /\ t[Len(t)] = <<k, g>>
          /\ \A i \in 1 .. Len(t) - 1 : t[i][1] \in Nat /\ t[i][1] > l
    <3>1. k \in 1 .. l - 1
      BY <1>2
    <3>2. IsTuple(t) /\ Plan(m, l, t, c)
      BY <2>4, <2>5, <3>1, MovedPlan
    <3>3. MovedBy(t, l, p, x, k, g)
      BY <2>4, <2>5, <3>1, MovedPlan
    <3>4. Len(t) - 1 = Len(x)
      BY <3>3 DEF MovedBy
    <3>5. \A i \in 1 .. Len(t) - 1 : t[i][1] \in Nat /\ t[i][1] > l
      BY <3>3, <3>4 DEF MovedBy
    <3>. QED BY <3>2, <3>3, <3>5 DEF MovedBy, Put
  <2>7. g.active = TRUE /\ g.file = f
    BY <1>2, <2>5 DEF MovedTo
  <2>8. k \in 1 .. l
    BY <1>2
  <2>9. Ready(m, l, t, f)
    BY <2>6, <2>7, <2>8 DEF Ready
  <2>. QED BY <1>1, <1>5, <2>6, <2>9, FailReady DEF Written
<1>. QED BY <1>1, <1>2, <1>3, <1>4, <1>5

(***************************************************************************)
(* Entries that have been renamed, and cut.                                *)
(***************************************************************************)
IsRenamed(e, d, g) ==
  e.file = g /\ e.active = TRUE /\ e.start = d.start /\ e.size = d.size

IsResized(e, d, n) ==
  e.file = d.file /\ e.active = TRUE /\ e.start = d.start /\ e.size = n

(***************************************************************************)
(* A renamed entry suits its slot.                                         *)
(***************************************************************************)
LEMMA RenamedSuits ==
  ASSUME NEW m, NEW l, Apart(m, l), NEW f, NEW k, Slotted(m, l, f, k),
         NEW g \in Files, NEW e, e = RenamedE(m[k], g), l \in Nat
  PROVE  Suits(m, l, k, e) /\ IsRenamed(e, m[k], g)
<1>1. PICK d \in Entries : d = m[k] /\ d.active = TRUE /\ d.last = FALSE
         /\ k \in 1 .. l - 1
  BY DEF Slotted
<1>2. e \in Entries
  BY <1>1, RenamedEntry
<1>3. e.active = d.active
  BY <1>1, RenamedEntry
<1>4. e.last = d.last
  BY <1>1, RenamedEntry
<1>5. e.start = d.start /\ e.size = d.size
  BY <1>1, RenamedEntry
<1>6. e.file = g
  BY <1>1, RenamedEntry
<1>7. Fits(m, l, k, d)
  BY <1>1 DEF Apart
<1>8. \A c : In(e, c) <=> In(d, c)
  BY <1>3, <1>5 DEF In
<1>9. Fits(m, l, k, e)
  BY <1>2, <1>7, <1>8 DEF Fits
<1>. QED BY <1>1, <1>3, <1>4, <1>5, <1>6, <1>9 DEF Suits, IsRenamed

(***************************************************************************)
(* So does one that has been cut.                                          *)
(***************************************************************************)
LEMMA ResizedSuits ==
  ASSUME NEW m, NEW l, Apart(m, l), NEW f, NEW k, Slotted(m, l, f, k),
         NEW n \in Nat, n <= m[k].size, NEW e, e = ResizedE(m[k], n), l \in Nat
  PROVE  Suits(m, l, k, e) /\ IsResized(e, m[k], n)
<1>1. PICK d \in Entries : d = m[k] /\ d.active = TRUE /\ d.last = FALSE
         /\ k \in 1 .. l - 1 /\ d.file = f
  BY DEF Slotted
<1>2. e \in Entries
  BY <1>1, ResizedEntry
<1>3. e.active = d.active
  BY <1>1, ResizedEntry
<1>4. e.last = d.last
  BY <1>1, ResizedEntry
<1>5. e.start = d.start /\ e.size = n
  BY <1>1, ResizedEntry
<1>6. e.file = d.file
  BY <1>1, ResizedEntry
<1>7. Fits(m, l, k, d)
  BY <1>1 DEF Apart
<1>8. \A c \in Nat : In(e, c) => In(d, c)
  <2>1. d.start \in Nat /\ d.size \in Nat
    BY EntryIs
  <2>. QED BY <1>1, <1>3, <1>5, <2>1 DEF In
<1>9. Fits(m, l, k, e)
  BY <1>2, <1>7, <1>8 DEF Fits
<1>. QED BY <1>1, <1>3, <1>4, <1>5, <1>6, <1>9 DEF Suits, IsResized

(***************************************************************************)
(* A rename is a sound plan.                                               *)
(***************************************************************************)
LEMMA RenamePlan ==
  ASSUME NEW m, NEW l \in Nat, Apart(m, l), NEW f, NEW g \in Files, NEW over,
         NEW st, NEW t, NEW s, RenameDoes(m, l, f, g, over, st, t, s), NEW c
  PROVE  IsTuple(t) /\ Plan(m, l, t, c)
<1>1. PICK k :
    /\ Slotted(m, l, f, k)
    /\ \/ s = "fail" /\ t = <<>>
       \/ s = st /\ ~Has(m, l, g) /\ t = << Put(k, RenamedE(m[k], g)) >>
       \/ /\ s = st
          /\ \E j : Slotted(m, l, g, j)
               /\ t = << Put(j, Cleared) >> \o << Put(k, RenamedE(m[k], g)) >>
  BY DEF RenameDoes
<1>3. PICK e : e = RenamedE(m[k], g)
  OBVIOUS
<1>4. Suits(m, l, k, e)
  BY <1>1, <1>3, RenamedSuits
<1>5. CASE s = "fail" /\ t = <<>>
  BY <1>5, PlanEmpty
<1>6. CASE s = st /\ t = << Put(k, RenamedE(m[k], g)) >>
  BY <1>3, <1>4, <1>6, PlanOne
<1>7. ASSUME s = st, NEW j, Slotted(m, l, g, j),
             t = << Put(j, Cleared) >> \o << Put(k, RenamedE(m[k], g)) >>
      PROVE  IsTuple(t) /\ Plan(m, l, t, c)
  <2>1. PICK v, u : v = Put(j, Cleared) /\ u = <<v>>
    OBVIOUS
  <2>2. IsTuple(u) /\ Len(u) = 1 /\ u[1] = v
    BY <2>1, TupleOne
  <2>3. v[1] = j /\ v[2] = Cleared /\ j \in 1 .. l - 1
    BY <1>7, <2>1 DEF Put, Slotted
  <2>4. \A i \in 1 .. Len(u) : Early(l, u[i])
    BY <2>2, <2>3 DEF Early
  <2>5. t = u \o << Put(k, e) >>
    BY <1>3, <1>7, <2>1
  <2>. QED BY <1>4, <2>2, <2>4, <2>5, PlanAfter
<1>. QED BY <1>1, <1>5, <1>6, <1>7

(***************************************************************************)
(* A rename that is refused writes nothing.                                *)
(***************************************************************************)
LEMMA RenameStage ==
  ASSUME NEW m, NEW l \in Nat, NEW f, NEW g, NEW over,
         NEW st, NEW t, NEW s, RenameDoes(m, l, f, g, over, st, t, s)
  PROVE  /\ s = st \/ (t = <<>> /\ s = "fail")
         /\ Has(m, l, f)
         /\ f # g /\ t # <<>> => Renames(m, l, t, f)
<1>1. \E k : Slotted(m, l, f, k)
  BY DEF RenameDoes
<1>2. Has(m, l, f)
  BY <1>1, FailReady
<1>3. ASSUME f # g, t # <<>>
      PROVE  Renames(m, l, t, f)
  <2>1. PICK k :
      /\ Slotted(m, l, f, k)
      /\ \/ t = << Put(k, RenamedE(m[k], g)) >>
         \/ \E j : Slotted(m, l, g, j)
               /\ t = << Put(j, Cleared) >> \o << Put(k, RenamedE(m[k], g)) >>
    BY <1>3 DEF RenameDoes
  <2>2. PICK w : w = Put(k, RenamedE(m[k], g))
    OBVIOUS
  <2>3. w[1] = k
    BY <2>2 DEF Put
  <2>4. CASE t = <<w>>
    <3>1. Len(t) = 1 /\ t[1] = w
      BY <2>4, TupleOne
    <3>. QED BY <2>1, <2>3, <3>1 DEF Renames
  <2>5. ASSUME NEW j, Slotted(m, l, g, j), t = << Put(j, Cleared) >> \o <<w>>
        PROVE  Renames(m, l, t, f)
    <3>1. PICK v : v = Put(j, Cleared)
      OBVIOUS
    <3>2. t = <<v>> \o <<w>>
      BY <2>5, <3>1
    <3>3. Len(t) = 2 /\ t[1] = v /\ t[2] = w
      BY <3>2, PairIs
    <3>4. v[1] = j
      BY <3>1 DEF Put
    <3>5. j # k
      BY <1>3, <2>1, <2>5 DEF Slotted
    <3>6. \A i \in 1 .. Len(t) - 1 : t[i][1] # k
      BY <3>3, <3>4, <3>5
    <3>. QED BY <2>1, <2>3, <3>3, <3>6 DEF Renames
  <2>. QED BY <2>1, <2>2, <2>4, <2>5
<1>. QED BY <1>2, <1>3 DEF RenameDoes

(***************************************************************************)
(* A removal is a sound plan.                                              *)
(***************************************************************************)
LEMMA RemovePlan ==
  ASSUME NEW m, NEW l, NEW f, NEW t, RemoveDoes(m, l, f, t), NEW c
  PROVE  IsTuple(t) /\ Plan(m, l, t, c)
BY ClearedSuits, PlanOne DEF RemoveDoes, Slotted

(***************************************************************************)
(* The slot of a file that has not come to exist is cleared.               *)
(***************************************************************************)
ClearDoes(m, l, t) == \E k : FreeIs(m, l, k) /\ t = << Put(k, Cleared) >>

(***************************************************************************)
(* So is that.                                                             *)
(***************************************************************************)
LEMMA ClearPlan ==
  ASSUME NEW m, NEW l \in Nat, Ends(m, l), NEW c, NEW k, Clears(m, l, c, k), NEW t,
         t = << Put(k, Cleared) >>
  PROVE  IsTuple(t) /\ Plan(m, l, t, c) /\ ClearDoes(m, l, t)
<1>1. CASE k \in 1 .. l - 1 /\ m[k].active = FALSE
  <2>1. FreeIs(m, l, k)
    BY <1>1 DEF FreeIs
  <2>. QED BY <1>1, <2>1, ClearedSuits, PlanOne DEF ClearDoes
<1>2. CASE k = l /\ Spare(m, l) /\ NextEnd(m, l, c)
  <2>1. FreeIs(m, l, k)
    BY <1>2 DEF FreeIs, Ends, Addrs
  <2>2. PICK w : w = Put(k, Cleared)
    OBVIOUS
  <2>3. IsTuple(t) /\ Len(t) = 1 /\ t[1] = w
    BY <2>2, TupleOne
  <2>4. w = <<k, Cleared>>
    BY <2>2 DEF Put
  <2>5. Grows(m, l, k, Cleared)
    BY <1>2, ClearedIs DEF Grows
  <2>6. Final(m, l, t, c)
    BY <1>2, <2>3, <2>4, <2>5 DEF Final, Marked
  <2>. QED BY <2>1, <2>3, <2>6 DEF Plan, ClearDoes
<1>. QED BY <1>1, <1>2 DEF Clears

(***************************************************************************)
(* A truncation is a sound plan.                                           *)
(***************************************************************************)
LEMMA TruncatePlan ==
  ASSUME NEW m, NEW l \in Nat, Apart(m, l), NEW f, NEW len \in Nat, NEW t,
         TruncateDoes(m, l, f, len, t), NEW c
  PROVE  IsTuple(t) /\ Plan(m, l, t, c)
<1>1. PICK k :
    /\ Slotted(m, l, f, k)
    /\ \/ len <= m[k].size /\ t = << Put(k, ResizedE(m[k], len)) >>
       \/ MoveDoes(m, l, k, Extended(Content(m[k], m), len), t)
       \/ t = <<>>
  BY DEF TruncateDoes
<1>2. PICK e \in Entries : e = m[k] /\ e.size \in Nat /\ k \in 1 .. l - 1
  BY <1>1, EntryIs DEF Slotted
<1>3. CASE len <= m[k].size /\ t = << Put(k, ResizedE(m[k], len)) >>
  <2>1. PICK d : d = ResizedE(m[k], len)
    OBVIOUS
  <2>2. Suits(m, l, k, d)
    BY <1>1, <1>3, <2>1, ResizedSuits
  <2>. QED BY <1>3, <2>1, <2>2, PlanOne
<1>4. CASE MoveDoes(m, l, k, Extended(Content(m[k], m), len), t)
  <2>1. PICK y : y = Content(e, m)
    OBVIOUS
  <2>2. IsTuple(y)
    BY <1>2, <2>1, ContentIs
  <2>3. PICK x : x = Extended(y, len)
    OBVIOUS
  <2>4. IsTuple(x)
    BY <2>2, <2>3, ExtendedIs DEF IsExtended
  <2>5. PICK p, g : MovedTo(m, l, k, p, Len(x), g)
              /\ t = Writes(p, x) \o << Put(k, g) >>
    BY <1>2, <1>4, <2>1, <2>3 DEF MoveDoes
  <2>. QED BY <1>2, <2>4, <2>5, MovedPlan
<1>5. CASE t = <<>>
  BY <1>5, PlanEmpty
<1>. QED BY <1>1, <1>3, <1>4, <1>5

-----------------------------------------------------------------------------
(***************************************************************************)
(* A partition with an empty table has a sound layout.                     *)
(***************************************************************************)
LEMMA InitLayout ==
  ASSUME Init
  PROVE  LInv
<1>1. DOMAIN mem = Addrs /\ 1 \in Addrs /\ mem[1] = LastEntry
  BY RpmbFsAssumption DEF Init, Addrs
<1>2. Ends(mem, 1)
  BY <1>1, ClearedIs DEF Ends
<1>3. LastAddr(mem) = 1
  BY <1>2, EndIs
<1>4. Apart(mem, 1)
  BY <1>1, ClearedIs DEF Apart, Fits, In
<1>5. cache = <<>> /\ todo = <<>> /\ stage = "none" /\ op = None
  BY DEF Init
<1>6. IsTuple(cache) /\ Len(cache) = 0
  BY <1>5, TupleEmpty
<1>7. Fresh(cache, mem, 1)
  BY <1>6 DEF Fresh
<1>8. IsTuple(todo) /\ Plan(mem, 1, todo, cache)
  BY <1>5, PlanEmpty
<1>9. LayoutOf(mem, 1, cache, todo)
  BY <1>1, <1>2, <1>4, <1>6, <1>7, <1>8 DEF LayoutOf
<1>10. Creating(mem, 1, cache, todo, op, stage)
  BY <1>5 DEF Creating
<1>. QED BY <1>3, <1>5, <1>8, <1>9, <1>10 DEF LInv, Left

(***************************************************************************)
(* What is written is data.                                                *)
(***************************************************************************)
LEMMA BufIs ==
  /\ \A x \in Contents : /\ x \in Seq(Vals) /\ Len(x) \in Nat /\ Len(x) >= 1
                         /\ IsTuple(x) /\ IsTuple(Tail(x)) /\ IsTuple(<<x[1]>>)
  /\ \A x \in Bufs : x \in Seq(Vals) /\ Len(x) \in Nat /\ IsTuple(x)
<1>1. ASSUME NEW x \in Seq(Vals)
      PROVE  IsTuple(x) /\ Len(x) \in Nat
  <2>1. Len(x) \in Nat /\ x = [i \in 1 .. Len(x) |-> x[i]]
    BY LenProperties
  <2>. QED BY <2>1, TupleLen
<1>2. ASSUME NEW x \in Contents
      PROVE  /\ x \in Seq(Vals) /\ Len(x) \in Nat /\ Len(x) >= 1
             /\ IsTuple(x) /\ IsTuple(Tail(x)) /\ IsTuple(<<x[1]>>)
  <2>1. x \in Seq(Vals) /\ Len(x) \in 1 .. MaxLen
    BY RpmbFsAssumption
  <2>2. IsTuple(x) /\ Len(x) \in Nat /\ Len(x) >= 1
    BY <1>1, <2>1, RpmbFsAssumption
  <2>3. x # <<>>
    <3>1. 0 # Len(x)
      BY <2>2
    <3>. QED BY <3>1, TupleEmpty
  <2>4. IsTuple(Tail(x))
    BY <2>2, <2>3, TupleTail
  <2>. QED BY <2>1, <2>2, <2>4, TupleOne
<1>3. ASSUME NEW x \in Bufs
      PROVE  x \in Seq(Vals) /\ Len(x) \in Nat /\ IsTuple(x)
  <2>1. x \in Seq(Vals)
    BY RpmbFsAssumption
  <2>. QED BY <1>1, <2>1
<1>. QED BY <1>2, <1>3

(***************************************************************************)
(* Object files and their temporary files.                                 *)
(***************************************************************************)
LEMMA FileNames ==
  ASSUME NEW n \in Names
  PROVE  /\ Tmp(n) \in Files /\ Obj(n) \in Files
         /\ Tmp(n)[1] = n /\ Obj(n)[1] = n
BY DEF Tmp, Obj, Files

(***************************************************************************)
(* The record of a call that opens a file.                                 *)
(***************************************************************************)
LEMMA OpenOp ==
  ASSUME NEW o, NEW k, NEW f, NEW x, NEW over, o = OpOf(k, f, x, over),
         OpenFile(o)
  PROVE  /\ op'.kind = k /\ op'.file = f /\ op'.data = x /\ op'.over = over
         /\ op'.slot = IF Exists(f) THEN SlotOf(f) ELSE Free
<1>1. PICK i : op' = [o EXCEPT !.slot = i]
                 /\ i = IF Exists(o.file) THEN SlotOf(o.file) ELSE Free
  BY DEF OpenFile
<1>2. o = [kind |-> k, file |-> f, data |-> x, over |-> over, slot |-> 0]
  BY DEF OpOf
<1>3. op' = [kind |-> k, file |-> f, data |-> x, over |-> over, slot |-> i]
  BY <1>1, <1>2
<1>4. o.file = f
  BY <1>2
<1>. QED BY <1>1, <1>3, <1>4

(***************************************************************************)
(* A call that opens a file preserves the invariant.                       *)
(***************************************************************************)
LEMMA OpenLayout ==
  ASSUME LInv, NEW l, l = LastAddr(mem), NEW o, o.file \in Files, OpenFile(o),
         op'.file = o.file, op'.slot = IF Exists(o.file) THEN SlotOf(o.file) ELSE Free
  PROVE  LInv' /\ OpenDoes(mem, l, o.file, op'.slot, todo', stage') /\ mem' = mem
<1>1. OpenDoes(mem, l, o.file, op'.slot, todo', stage')
  BY OpenFileDoes
<1>2. l \in Nat /\ LastAddr(Table) = l
  BY LInvGives
<1>3. PICK t, s, k, c : t = todo' /\ s = stage' /\ k = op'.slot /\ c = cache'
  OBVIOUS
<1>4. PICK f \in Files : f = o.file
  OBVIOUS
<1>5. /\ IsTuple(t) /\ Plan(mem, l, t, cache') /\ s \in {"open", "fail", "full"}
      /\ s \in {"fail", "full"} => t = <<>>
      /\ s = "fail" => Has(mem, l, f) \/ Clears(mem, l, cache', k)
      /\ s = "open" => Ready(mem, l, t, f) /\ (Has(mem, l, f) \/ Takes(mem, l, t, k))
  <2>1. OpenDoes(mem, l, f, k, t, s)
    BY <1>1, <1>3, <1>4
  <2>2. /\ IsTuple(t) /\ Plan(mem, l, t, c) /\ s \in {"open", "fail", "full"}
        /\ s \in {"fail", "full"} => t = <<>>
        /\ s = "fail" => Has(mem, l, f) \/ Clears(mem, l, c, k)
        /\ s = "open" => Ready(mem, l, t, f) /\ (Has(mem, l, f) \/ Takes(mem, l, t, k))
    BY <1>2, <2>1, OpenPlan
  <2>. QED BY <1>3, <2>2
<1>6. Creating(mem, l, cache', todo', op', stage')
  BY <1>3, <1>4, <1>5 DEF Creating, Creates
<1>7. stage' # "cut"
  BY <1>3, <1>5
<1>8. mem' = mem /\ cache' = Traversed(l)
  BY <1>2 DEF OpenFile
<1>9. LInv'
  BY <1>2, <1>3, <1>5, <1>6, <1>7, <1>8, NewPlan
<1>. QED BY <1>1, <1>8, <1>9

(***************************************************************************)
(* So does every other call.                                               *)
(***************************************************************************)
LEMMA CallLayout ==
  ASSUME LInv, Call
  PROVE  LInv'
<1> DEFINE l == LastAddr(mem)
<1>1. l \in Nat /\ Apart(mem, l) /\ LastAddr(Table) = l
  BY LInvGives
<1> HIDE DEF l
<1>0. l = LastAddr(mem)
  BY DEF l
<1>2. CASE CallCreate
  <2>1. PICK n \in Names, x \in Contents, over \in BOOLEAN :
          OpenFile(OpOf("create", Tmp(n), x, over))
    BY <1>2 DEF CallCreate
  <2>2. PICK o : o = OpOf("create", Tmp(n), x, over)
    OBVIOUS
  <2>3. o.file = Tmp(n) /\ Tmp(n) \in Files
    BY <2>2, FileNames DEF OpOf
  <2>4. op'.file = Tmp(n) /\ op'.slot = IF Exists(Tmp(n)) THEN SlotOf(Tmp(n)) ELSE Free
    BY <2>1, <2>2, OpenOp
  <2>. QED BY <1>0, <2>1, <2>2, <2>3, <2>4, OpenLayout
<1>3. CASE CallRawOpen
  <2>1. PICK n \in Names :
          OpenFile(OpOf("raw", Obj(n), <<>>, FALSE))
    BY <1>3 DEF CallRawOpen
  <2>2. PICK o : o = OpOf("raw", Obj(n), <<>>, FALSE)
    OBVIOUS
  <2>3. o.file = Obj(n) /\ Obj(n) \in Files
    BY <2>2, FileNames DEF OpOf
  <2>4. op'.file = Obj(n) /\ op'.slot = IF Exists(Obj(n)) THEN SlotOf(Obj(n)) ELSE Free
    <3>1. PICK g, x, v : g = Obj(n) /\ x = <<>> /\ v = FALSE
      OBVIOUS
    <3>2. o = OpOf("raw", g, x, v) /\ OpenFile(o)
      BY <2>1, <2>2, <3>1
    <3>3. op'.kind = "raw" /\ op'.file = g
            /\ op'.slot = IF Exists(g) THEN SlotOf(g) ELSE Free
      BY <3>2, OpenOp
    <3>. QED BY <3>1, <3>3
  <2>. QED BY <1>0, <2>1, <2>2, <2>3, <2>4, OpenLayout
<1>4. CASE CallWrite
  <2>1. PICK n \in Names, pos \in 0 .. MaxLen, buf \in Bufs :
          /\ Exists(Obj(n)) /\ op' = OpOf("write", Obj(n), buf, FALSE)
          /\ WriteFile(Obj(n), pos, buf, "only")
    BY <1>4 DEF CallWrite
  <2>2. pos \in Nat /\ IsTuple(buf)
    BY RpmbFsAssumption, BufIs
  <2>3. PICK f : f = Obj(n)
    OBVIOUS
  <2>4. /\ WriteDoes(mem, l, f, pos, buf, "only", todo', stage')
        /\ mem' = mem /\ cache' = Traversed(l)
    BY <1>0, <2>1, <2>2, <2>3, WriteFileDoes
  <2>5. IsTuple(todo') /\ Plan(mem, l, todo', cache') /\ (stage' = "fail" => todo' = <<>>)
          /\ stage' \in {"only", "fail"}
    <3>1. PICK t, s, c : t = todo' /\ s = stage' /\ c = cache'
      OBVIOUS
    <3>2. WriteDoes(mem, l, f, pos, buf, "only", t, s)
      BY <2>4, <3>1
    <3>3. IsTuple(t) /\ Plan(mem, l, t, c) /\ (s = "fail" => t = <<>>)
            /\ s \in {"only", "fail"}
      <4>1. PICK st : st = "only"
        OBVIOUS
      <4>2. WriteDoes(mem, l, f, pos, buf, st, t, s)
        BY <3>2, <4>1
      <4>3. Written(mem, l, f, st, t, s, c)
        BY <1>1, <2>2, <4>2, WritePlan
      <4>. QED BY <4>1, <4>3 DEF Written
    <3>. QED BY <3>1, <3>3
  <2>6. op'.kind = "write"
    BY <2>1 DEF OpOf
  <2>7. Creating(mem, l, cache', todo', op', stage')
    BY <2>5, <2>6 DEF Creating
  <2>. QED BY <1>0, <1>1, <2>4, <2>5, <2>7, NewPlan
<1>5. CASE CallTruncate
  <2>1. PICK n \in Names, len \in 0 .. MaxLen :
              TruncateDoes(mem, l, Obj(n), len, todo')
    BY <1>0, <1>5, CallTruncateDoes
  <2>2. /\ op' # None => op'.kind = "truncate"
        /\ stage' = "fail" => todo' = <<>>
        /\ stage' \in {"only", "fail"}
        /\ mem' = mem /\ \E j \in Nat : cache' = Traversed(j)
    BY <1>0, <1>5, CallTruncateDoes
  <2>3. IsTuple(todo') /\ Plan(mem, l, todo', cache')
    <3>1. len \in Nat
      BY RpmbFsAssumption
    <3>. QED BY <1>1, <2>1, <3>1, TruncatePlan
  <2>4. Creating(mem, l, cache', todo', op', stage')
    BY <2>2 DEF Creating
  <2>. QED BY <1>0, <2>2, <2>3, <2>4, NewPlan
<1>6. CASE CallRemove
  <2>1. PICK n \in Names :
          /\ Exists(Obj(n)) /\ op' = OpOf("remove", Obj(n), <<>>, FALSE)
          /\ RemoveFile(Obj(n), 0, "only")
    BY <1>6 DEF CallRemove
  <2>2. PICK f : f = Obj(n)
    OBVIOUS
  <2>3. /\ RemoveDoes(mem, l, f, todo') /\ stage' = "only"
        /\ mem' = mem /\ \E j \in Nat : cache' = Traversed(j)
    BY <1>0, <2>1, <2>2, RemoveFileDoes
  <2>4. IsTuple(todo') /\ Plan(mem, l, todo', cache')
    BY <2>3, RemovePlan
  <2>5. op'.kind = "remove"
    BY <2>1 DEF OpOf
  <2>6. Creating(mem, l, cache', todo', op', stage')
    BY <2>3, <2>5 DEF Creating
  <2>. QED BY <1>0, <2>3, <2>4, <2>6, NewPlan
<1>7. CASE CallRename
  <2>1. PICK n \in Names, k \in Names, over \in BOOLEAN :
          /\ Exists(Obj(n)) /\ op' = OpOf("rename", Obj(n), <<>>, over)
          /\ RenameFile(Obj(n), Obj(k), over, "only")
    BY <1>7 DEF CallRename
  <2>2. PICK f, g \in Files : f = Obj(n) /\ g = Obj(k)
    BY FileNames
  <2>3. /\ RenameDoes(mem, l, f, g, over, "only", todo', stage')
        /\ mem' = mem /\ \E j \in Nat : cache' = Traversed(j)
    BY <1>0, <2>1, <2>2, RenameFileDoes
  <2>4. IsTuple(todo') /\ Plan(mem, l, todo', cache')
          /\ (stage' # "only" => todo' = <<>>) /\ stage' \in {"only", "fail"}
    <3>1. PICK t, s : t = todo' /\ s = stage'
      OBVIOUS
    <3>2. RenameDoes(mem, l, f, g, over, "only", t, s)
      BY <2>3, <3>1
    <3>3. IsTuple(t) /\ Plan(mem, l, t, cache')
      BY <1>1, <3>2, RenamePlan
    <3>4. (s # "only" => t = <<>>) /\ s \in {"only", "fail"}
      BY <1>1, <3>2, RenameStage
    <3>. QED BY <3>1, <3>3, <3>4
  <2>5. op'.kind = "rename"
    BY <2>1 DEF OpOf
  <2>6. Creating(mem, l, cache', todo', op', stage')
    BY <2>4, <2>5 DEF Creating
  <2>. QED BY <1>0, <2>3, <2>4, <2>6, NewPlan
<1>8. CASE Lookup
  <2>1. PICK k \in Fat : cache' = Traversed(k)
    BY <1>8 DEF Lookup
  <2>2. op = None /\ mem' = mem /\ op' = op /\ stage' = stage /\ todo' = todo
    BY <1>8 DEF Lookup
  <2>3. k \in Nat
    BY <1>1 DEF Fat
  <2>4. IsTuple(todo) /\ Plan(mem, l, todo, cache) /\ Creating(mem, l, cache', todo, op, stage)
          /\ IsTuple(cache) /\ stage # "cut"
    BY <1>0, <2>2 DEF LInv, LayoutOf, Left, Creating
  <2>5. Plan(mem, l, todo, cache')
    <3>1. IsTuple(cache') /\ \A a \in 1 .. Len(cache') : cache'[a] = Entry(a)
      BY <2>1, <2>3, <2>4, TraversedIs
    <3>2. Len(cache) \in Nat /\ Len(cache') \in Nat
      BY <2>4, <3>1, TupleHas
    <3>3. Marked(mem, l, todo, cache) => Marked(mem, l, todo, cache')
      <4>1. l + 1 <= Len(cache') => l + 1 \in 1 .. Len(cache')
        BY <1>1, <3>2
      <4>2. mem[l + 1] = LastEntry /\ (l + 1 <= Len(cache) => cache[l + 1] = LastEntry)
              => Entry(l + 1) = LastEntry
        BY DEF Entry
      <4>. QED BY <3>1, <4>1, <4>2 DEF Marked, NextEnd
    <3>4. Final(mem, l, todo, cache) => Final(mem, l, todo, cache')
      BY <3>3 DEF Final
    <3>. QED BY <2>4, <3>4 DEF Plan
  <2>. QED BY <1>0, <2>1, <2>2, <2>3, <2>4, <2>5, NewPlan
<1>. QED BY <1>2, <1>3, <1>4, <1>5, <1>6, <1>7, <1>8 DEF Call

(***************************************************************************)
(* So does each next part of a creation.                                   *)
(***************************************************************************)
LEMMA CreateLayout ==
  ASSUME LInv, CreateGoesOn, op.file \in Names \X {"tmp"}, op.data \in Contents
  PROVE  LInv'
<1> DEFINE l == LastAddr(mem)
<1>1. l \in Nat /\ Apart(mem, l) /\ LastAddr(Table) = l
  BY LInvGives
<1> HIDE DEF l
<1>0. l = LastAddr(mem)
  BY DEF l
<1>2. op # None /\ todo = <<>> /\ op.kind = "create" /\ op' = op
        /\ stage \in {"open", "head", "data"}
  BY DEF CreateGoesOn
<1>3. Exists(op.file)
  <2>1. Creating(mem, l, cache, todo, op, stage)
    BY <1>0 DEF LInv
  <2>2. Ready(mem, l, todo, op.file)
    BY <1>2, <2>1 DEF Creating, Creates
  <2>3. Has(mem, l, op.file)
    BY <1>2, <2>2 DEF Ready
  <2>. QED BY <1>0, <2>3, ExistsIs
<1>4. ASSUME NEW pos \in Nat, NEW buf, IsTuple(buf), NEW st, st \in {"head", "data"},
             WriteFile(op.file, pos, buf, st)
      PROVE  LInv'
  <2>1. PICK f : f = op.file
    OBVIOUS
  <2>2. /\ WriteDoes(mem, l, f, pos, buf, st, todo', stage')
        /\ mem' = mem /\ cache' = Traversed(l)
    BY <1>0, <1>3, <1>4, <2>1, WriteFileDoes
  <2>3. IsTuple(todo') /\ Plan(mem, l, todo', cache') /\ (stage' = "fail" => todo' = <<>>)
          /\ Ready(mem, l, todo', f) /\ Has(mem, l, f) /\ stage' \in {st, "fail"}
    <3>1. PICK t, s, c : t = todo' /\ s = stage' /\ c = cache'
      OBVIOUS
    <3>2. WriteDoes(mem, l, f, pos, buf, st, t, s)
      BY <2>2, <3>1
    <3>3. IsTuple(t) /\ Plan(mem, l, t, c) /\ (s = "fail" => t = <<>>)
            /\ Ready(mem, l, t, f) /\ Has(mem, l, f) /\ s \in {st, "fail"}
      <4>1. Written(mem, l, f, st, t, s, c)
        BY <1>1, <1>4, <3>2, WritePlan
      <4>. QED BY <1>4, <4>1 DEF Written
    <3>. QED BY <3>1, <3>3
  <2>4. Creating(mem, l, cache', todo', op', stage')
    BY <1>2, <1>4, <2>1, <2>3 DEF Creating, Creates
  <2>. QED BY <1>0, <1>1, <1>4, <2>2, <2>3, <2>4, NewPlan
<1>5. CASE stage = "open" /\ WriteFile(op.file, 0, << op.data[1] >>, "head")
  BY <1>4, <1>5, BufIs
<1>6. CASE stage = "head" /\ WriteFile(op.file, 1, Tail(op.data), "data")
  BY <1>4, <1>6, BufIs
<1>7. CASE RenameFile(op.file, Obj(op.file[1]), op.over, "rename")
  <2>1. PICK f : f = op.file
    OBVIOUS
  <2>2. PICK g \in Files : g = Obj(op.file[1])
    BY FileNames
  <2>5. f # g
    BY <1>2, <2>1, <2>2 DEF Obj
  <2>3. /\ RenameDoes(mem, l, f, g, op.over, "rename", todo', stage')
        /\ mem' = mem /\ \E j \in Nat : cache' = Traversed(j)
    BY <1>0, <1>3, <1>7, <2>1, <2>2, RenameFileDoes
  <2>4. IsTuple(todo') /\ Plan(mem, l, todo', cache')
          /\ (stage' # "rename" => todo' = <<>>) /\ stage' \in {"rename", "fail"}
          /\ Has(mem, l, f) /\ (todo' # <<>> => Renames(mem, l, todo', f))
    <3>1. PICK t, s : t = todo' /\ s = stage'
      OBVIOUS
    <3>2. RenameDoes(mem, l, f, g, op.over, "rename", t, s)
      BY <2>3, <3>1
    <3>3. IsTuple(t) /\ Plan(mem, l, t, cache')
      BY <1>1, <3>2, RenamePlan
    <3>4. (s # "rename" => t = <<>>) /\ s \in {"rename", "fail"} /\ Has(mem, l, f)
      BY <1>1, <3>2, RenameStage
    <3>5. t # <<>> => Renames(mem, l, t, f)
      BY <1>1, <2>5, <3>2, RenameStage
    <3>. QED BY <3>1, <3>3, <3>4, <3>5
  <2>6. Creating(mem, l, cache', todo', op', stage')
    BY <1>2, <2>1, <2>4 DEF Creating, Creates
  <2>. QED BY <1>0, <2>3, <2>4, <2>6, NewPlan
<1>. QED BY <1>5, <1>6, <1>7 DEF CreateGoesOn

(***************************************************************************)
(* The arguments of a creation, while it is in progress.                   *)
(***************************************************************************)
Args ==
  op # None /\ op.kind = "create" => op.file \in Names \X {"tmp"} /\ op.data \in Contents

(***************************************************************************)
(* They stay what they were.                                               *)
(***************************************************************************)
LEMMA ArgsStep ==
  ASSUME Args, [Next]_vars
  PROVE  Args'
<1>1. CASE CallCreate
  <2>1. PICK n \in Names, x \in Contents, over \in BOOLEAN :
          OpenFile(OpOf("create", Tmp(n), x, over))
    BY <1>1 DEF CallCreate
  <2>2. PICK o : o = OpOf("create", Tmp(n), x, over)
    OBVIOUS
  <2>3. op'.file = Tmp(n) /\ op'.data = x
    BY <2>1, <2>2, OpenOp
  <2>4. Tmp(n) \in Names \X {"tmp"}
    BY DEF Tmp
  <2>. QED BY <2>3, <2>4 DEF Args
<1>2. CASE CallRawOpen
  <2>1. PICK n \in Names : OpenFile(OpOf("raw", Obj(n), <<>>, FALSE))
    BY <1>2 DEF CallRawOpen
  <2>2. PICK o : o = OpOf("raw", Obj(n), <<>>, FALSE)
    OBVIOUS
  <2>3. op'.kind = "raw"
    BY <2>1, <2>2, OpenOp
  <2>. QED BY <2>3 DEF Args
<1>3. CASE CallWrite
  <2>1. op'.kind = "write"
    BY <1>3 DEF CallWrite, OpOf
  <2>. QED BY <2>1 DEF Args
<1>4. CASE CallTruncate
  <2>1. op'.kind = "truncate"
    BY <1>4 DEF CallTruncate, OpOf
  <2>. QED BY <2>1 DEF Args
<1>5. CASE CallRemove
  <2>1. op'.kind = "remove"
    BY <1>5 DEF CallRemove, OpOf
  <2>. QED BY <2>1 DEF Args
<1>6. CASE CallRename
  <2>1. op'.kind = "rename"
    BY <1>6 DEF CallRename, OpOf
  <2>. QED BY <2>1 DEF Args
<1>7. CASE op' = op
  BY <1>7 DEF Args
<1>8. CASE op' = None
  BY <1>8 DEF Args
<1>9. Lookup \/ WriteBlock \/ CreateGoesOn \/ Undo \/ AccessFails \/ UNCHANGED vars
        => op' = op
  BY DEF Lookup, WriteBlock, CreateGoesOn, Undo, AccessFails, vars
<1>10. OpReturns \/ Stop => op' = None \/ op' = op
  BY DEF OpReturns, Stop, Return
<1>. QED BY <1>1, <1>2, <1>3, <1>4, <1>5, <1>6, <1>7, <1>8, <1>9, <1>10 DEF Next, Call

(***************************************************************************)
(* So does the removal after an error: it finds the file, or clears a slot *)
(* that is not in use.  What it does after a failed expansion is no part   *)
(* of a sound plan.                                                        *)
(***************************************************************************)
LEMMA UndoLayout ==
  ASSUME LInv, Undo
  PROVE  /\ LInv' /\ mem' = mem /\ op' = op /\ stage' \in {"undo", "cut"}
         /\ stage' = "undo" => \/ RemoveDoes(mem, LastAddr(mem), op.file, todo')
                               \/ ClearDoes(mem, LastAddr(mem), todo')
<1> DEFINE l == LastAddr(mem)
<1>1. /\ DOMAIN mem = Addrs /\ IsTuple(cache)
      /\ Ends(mem, l) /\ Apart(mem, l) /\ Fresh(cache, mem, l) /\ l \in Nat
      /\ LastAddr(Table) = l
  BY LInvGives
<1> HIDE DEF l
<1>0. l = LastAddr(mem)
  BY DEF l
<1>2. /\ op # None /\ stage \in {"fail", "full"} /\ op.kind \in {"create", "raw"}
      /\ op' = op /\ RemoveFile(op.file, op.slot, IF stage = "full" THEN "cut" ELSE "undo")
  BY DEF Undo
<1>3. PICK f, k : f = op.file /\ k = op.slot
  OBVIOUS
<1>4. /\ todo' = << Put(IF Exists(f) THEN SlotOf(f) ELSE k, Cleared) >>
      /\ stage' = IF stage = "full" THEN "cut" ELSE "undo"
      /\ cache' = Traversed(IF Exists(f) THEN SlotOf(f) ELSE l)
      /\ mem' = mem
  BY <1>1, <1>2, <1>3 DEF RemoveFile
<1>5. \E j \in Nat : cache' = Traversed(j)
  <2>1. Exists(f) => SlotOf(f) \in Nat
    BY <1>0, SlotGives
  <2>. QED BY <1>1, <1>4, <2>1
<1>6. CASE stage = "full"
  <2>1. stage' = "cut"
    BY <1>4, <1>6
  <2>2. IsTuple(todo') /\ Len(todo') = 1
    BY <1>4, TupleOne
  <2>3. Creating(mem, l, cache', todo', op', stage')
    BY <2>1 DEF Creating, Creates
  <2>4. IsTuple(cache') /\ Fresh(cache', mem, l)
    BY <1>1, <1>5, TraversedFresh
  <2>5. LayoutOf(mem, l, cache', <<>>)
    BY <1>1, <2>4, PlanEmpty DEF LayoutOf
  <2>6. Left' = <<>>
    BY <2>1 DEF Left
  <2>. QED BY <1>0, <1>2, <1>4, <2>1, <2>2, <2>3, <2>5, <2>6 DEF LInv
<1>7. CASE stage = "fail" /\ Exists(f)
  <2>1. Slotted(mem, l, f, SlotOf(f))
    BY <1>0, <1>7, SlotGives
  <2>2. RemoveDoes(mem, l, f, todo')
    BY <1>4, <1>7, <2>1 DEF RemoveDoes
  <2>3. IsTuple(todo') /\ Plan(mem, l, todo', cache')
    BY <2>2, RemovePlan
  <2>4. stage' = "undo"
    BY <1>4, <1>7
  <2>5. Creating(mem, l, cache', todo', op', stage')
    BY <2>4 DEF Creating, Creates
  <2>6. LInv'
    BY <1>0, <1>4, <1>5, <2>3, <2>4, <2>5, NewPlan
  <2>. QED BY <1>0, <1>2, <1>3, <1>4, <2>2, <2>4, <2>6
<1>8. CASE stage = "fail" /\ ~Exists(f)
  <2>1. ~Has(mem, l, f)
    BY <1>0, <1>8, ExistsIs
  <2>2. Clears(mem, l, cache, k)
    <3>1. Creating(mem, l, cache, todo, op, stage)
      BY <1>0 DEF LInv
    <3>. QED BY <1>2, <1>3, <1>8, <2>1, <3>1 DEF Creating, Creates
  <2>3. Clears(mem, l, cache', k)
    <3>1. CASE k \in 1 .. l - 1 /\ mem[k].active = FALSE
      BY <3>1 DEF Clears
    <3>2. CASE k = l /\ Spare(mem, l) /\ NextEnd(mem, l, cache)
      <4>1. IsTuple(cache') /\ \A a \in 1 .. Len(cache') : cache'[a] = Entry(a)
        BY <1>1, <1>5, TraversedIs
      <4>2. Len(cache') \in Nat
        BY <4>1, TupleHas
      <4>3. l + 1 <= Len(cache') => l + 1 \in 1 .. Len(cache')
        BY <1>1, <4>2
      <4>4. Entry(l + 1) = LastEntry
        BY <3>2 DEF Entry, NextEnd
      <4>. QED BY <3>2, <4>1, <4>3, <4>4 DEF Clears, NextEnd
    <3>. QED BY <2>2, <3>1, <3>2 DEF Clears
  <2>4. IsTuple(todo') /\ Plan(mem, l, todo', cache') /\ ClearDoes(mem, l, todo')
    <3>1. PICK t : t = todo'
      OBVIOUS
    <3>2. t = << Put(k, Cleared) >>
      BY <1>4, <1>8, <3>1
    <3>3. IsTuple(t) /\ Plan(mem, l, t, cache') /\ ClearDoes(mem, l, t)
      BY <1>1, <2>3, <3>2, ClearPlan
    <3>. QED BY <3>1, <3>3
  <2>5. stage' = "undo"
    BY <1>4, <1>8
  <2>6. Creating(mem, l, cache', todo', op', stage')
    BY <2>5 DEF Creating, Creates
  <2>7. LInv'
    BY <1>0, <1>4, <1>5, <2>4, <2>5, <2>6, NewPlan
  <2>. QED BY <1>0, <1>2, <1>4, <2>4, <2>5, <2>7
<1>. QED BY <1>2, <1>6, <1>7, <1>8

(***************************************************************************)
(* So does an access that fails: what the stage relied on is enough for    *)
(* the removal.                                                            *)
(***************************************************************************)
LEMMA FailLayout ==
  ASSUME LInv, AccessFails
  PROVE  /\ LInv' /\ mem' = mem /\ op' = op /\ todo' = <<>>
         /\ stage' \in {"only", "full", "fail"}
<1> DEFINE l == LastAddr(mem)
<1>1. /\ DOMAIN mem = Addrs /\ IsTuple(cache) /\ IsTuple(todo)
      /\ Ends(mem, l) /\ Apart(mem, l) /\ Fresh(cache, mem, l) /\ l \in Nat
  BY LInvGives
<1> HIDE DEF l
<1>0. l = LastAddr(mem)
  BY DEF l
<1>2. /\ op # None /\ mem' = mem /\ cache' = cache /\ op' = op /\ todo' = <<>>
      /\ \/ todo # <<>>
         \/ stage \in {"open", "head", "data"} /\ op.kind = "create"
         \/ stage \in {"fail", "full"} /\ op.kind \in {"create", "raw"}
  BY DEF AccessFails
<1>3. stage' = CASE stage \in {"fail", "full", "undo", "cut"} -> "only"
                 [] stage = "open" /\ Len(todo) = 2 -> "full"
                 [] OTHER -> "fail"
  BY DEF AccessFails
<1>4. /\ stage \in {"fail", "full", "undo", "cut"} => stage' = "only"
      /\ stage = "open" /\ Len(todo) = 2 => stage' = "full"
      /\ stage' \in {"only", "full", "fail"}
      /\ stage' = "fail" => /\ stage \notin {"fail", "full", "undo", "cut"}
                            /\ ~(stage = "open" /\ Len(todo) = 2)
  BY <1>3
<1>5. ASSUME stage' = "fail", op.kind \in {"create", "raw"}
      PROVE  Has(mem, l, op.file) \/ Clears(mem, l, cache, op.slot)
  <2>1. Creates(mem, l, cache, todo, op, stage)
    BY <1>0, <1>2, <1>5 DEF LInv, Creating
  <2>2. stage \in {"open", "head", "data"} \/ (stage = "rename" /\ todo # <<>>)
    BY <1>2, <1>4, <1>5, <2>1 DEF Creates
  <2>3. CASE stage \in {"head", "data"}
    BY <2>1, <2>3 DEF Creates
  <2>4. CASE stage = "rename" /\ todo # <<>>
    <3>1. PICK k : Slotted(mem, l, op.file, k)
      BY <2>1, <2>4 DEF Creates, Renames
    <3>. QED BY <1>1, <3>1, FailReady
  <2>5. CASE stage = "open"
    <3> SUFFICES ASSUME ~Has(mem, l, op.file)
                 PROVE  Clears(mem, l, cache, op.slot)
      OBVIOUS
    <3>1. Takes(mem, l, todo, op.slot)
      BY <2>1, <2>5 DEF Creates
    <3>2. PICK k : k = op.slot
      OBVIOUS
    <3>3. todo # <<>> /\ todo[Len(todo)][1] = k /\ k \in 1 .. l /\ mem[k].active = FALSE
      BY <3>1, <3>2 DEF Takes, FreeIs
    <3>4. Plan(mem, l, todo, cache)
      BY <1>0, <2>5 DEF LInv, Left, LayoutOf
    <3>5. PICK j, e : /\ todo[Len(todo)] = <<j, e>>
                      /\ \/ j \in Nat /\ j > l
                         \/ Suits(mem, l, j, e)
                         \/ Grows(mem, l, j, e) /\ Marked(mem, l, todo, cache)
      BY <3>3, <3>4 DEF Plan, Final
    <3>6. j = k
      BY <3>3, <3>5
    <3>7. ~(k > l)
      BY <1>1, <3>3
    <3>8. CASE Suits(mem, l, k, e)
      BY <3>2, <3>3, <3>8 DEF Suits, Clears
    <3>9. CASE Grows(mem, l, k, e) /\ Marked(mem, l, todo, cache)
      <4>1. NextEnd(mem, l, cache)
        BY <1>4, <1>5, <2>5, <3>9 DEF Marked
      <4>. QED BY <3>2, <3>9, <4>1 DEF Grows, Clears
    <3>. QED BY <3>5, <3>6, <3>7, <3>8, <3>9
  <2>. QED BY <2>2, <2>3, <2>4, <2>5
<1>6. Creating(mem, l, cache', todo', op', stage')
  BY <1>2, <1>4, <1>5 DEF Creating, Creates
<1>7. IsTuple(<<>>) /\ LayoutOf(mem, l, cache', <<>>)
  BY <1>1, <1>2, PlanEmpty DEF LayoutOf
<1>8. Left' = <<>> /\ stage' # "cut"
  BY <1>2, <1>4 DEF Left
<1>. QED BY <1>0, <1>2, <1>4, <1>6, <1>7, <1>8 DEF LInv

(***************************************************************************)
(* A sound layout has its end.                                             *)
(***************************************************************************)
LEMMA NotCut ==
  LInv => ~Cut
<1>1. 0 # 1
  OBVIOUS
<1>. QED BY <1>1, TupleEmpty DEF LInv, Cut

(***************************************************************************)
(* Nor does it after a step.                                               *)
(***************************************************************************)
LEMMA NotCutNext ==
  LInv' => ~Cut'
<1>1. 0 # 1
  OBVIOUS
<1>. QED BY <1>1, TupleEmpty DEF LInv, Cut

(***************************************************************************)
(* So do a return and a stop.                                              *)
(***************************************************************************)
LEMMA EndLayout ==
  ASSUME LInv, OpReturns \/ Stop
  PROVE  LInv' /\ mem' = mem /\ op' = None /\ stage' = "none" /\ todo' = <<>>
<1> DEFINE l == LastAddr(mem)
<1>1. /\ DOMAIN mem = Addrs /\ IsTuple(cache)
      /\ Ends(mem, l) /\ Apart(mem, l) /\ Fresh(cache, mem, l) /\ l \in Nat
  BY LInvGives
<1>2. mem' = mem /\ op' = None /\ stage' = "none" /\ todo' = <<>>
        /\ (cache' = cache \/ cache' = <<>>)
  BY NotCut DEF OpReturns, Return, Stop
<1>3. LastAddr(mem') = l
  BY <1>2
<1> HIDE DEF l
<1>4. IsTuple(cache') /\ Fresh(cache', mem, l)
  <2>1. CASE cache' = cache
    BY <1>1, <2>1
  <2>2. CASE cache' = <<>>
    <3>1. IsTuple(cache') /\ Len(cache') = 0
      BY <2>2, TupleEmpty
    <3>. QED BY <1>1, <3>1 DEF Fresh
  <2>. QED BY <1>2, <2>1, <2>2
<1>5. IsTuple(todo') /\ Plan(mem, l, todo', cache')
  BY <1>2, PlanEmpty
<1>6. Creating(mem, l, cache', todo', op', stage')
  BY <1>2 DEF Creating
<1>7. LayoutOf(mem', l, cache', todo')
  BY <1>1, <1>2, <1>4, <1>5 DEF LayoutOf
<1>. QED BY <1>2, <1>3, <1>5, <1>6, <1>7 DEF LInv, Left

(***************************************************************************)
(* And so does every step, or it is the write that cuts the table.         *)
(***************************************************************************)
LEMMA LayoutStep ==
  ASSUME LInv, Args, [Next]_vars
  PROVE  \/ LInv'
         \/ Cut' /\ op' # None /\ WriteBlock /\ stage = "cut"
<1>1. CASE Call
  BY <1>1, CallLayout
<1>2. CASE WriteBlock
  BY <1>2, WriteBlockLayout
<1>3. CASE CreateGoesOn
  <2>1. op # None /\ op.kind = "create"
    BY <1>3 DEF CreateGoesOn
  <2>2. op.file \in Names \X {"tmp"} /\ op.data \in Contents
    BY <2>1 DEF Args
  <2>. QED BY <1>3, <2>2, CreateLayout
<1>4. CASE Undo
  BY <1>4, UndoLayout
<1>5. CASE OpReturns \/ Stop
  BY <1>5, EndLayout
<1>6. CASE AccessFails
  BY <1>6, FailLayout
<1>7. CASE UNCHANGED vars
  BY <1>7 DEF vars, LInv, Left
<1>. QED BY <1>1, <1>2, <1>3, <1>4, <1>5, <1>6, <1>7 DEF Next

(***************************************************************************)
(* A table that has been cut stays so.                                     *)
(***************************************************************************)
LEMMA CutStep ==
  ASSUME Cut, op # None, [Next]_vars
  PROVE  Cut' /\ op' # None
<1>1. stage = "cut" /\ todo = <<>>
  BY DEF Cut
<1>2. ~Call
  BY DEF Call, CallCreate, CallRawOpen, CallWrite, CallTruncate, CallRemove,
         CallRename, Lookup
<1>3. ~WriteBlock /\ ~CreateGoesOn /\ ~Undo /\ ~OpReturns /\ ~AccessFails
  BY <1>1 DEF WriteBlock, CreateGoesOn, Undo, OpReturns, AccessFails
<1>4. Stop \/ UNCHANGED vars
  BY <1>2, <1>3 DEF Next
<1>5. op' = op /\ stage' = stage /\ todo' = todo
  BY <1>4 DEF Stop, vars
<1>. QED BY <1>1, <1>5 DEF Cut

(***************************************************************************)
(* The invariant holds until the table is cut.                             *)
(***************************************************************************)
LOrCut == LInv \/ (Cut /\ op # None)

LEMMA LInvHolds ==
  Spec => [](LOrCut /\ Args)
<1>1. Init => LOrCut /\ Args
  BY InitLayout DEF Init, Args, LOrCut
<1>2. LOrCut /\ Args /\ [Next]_vars => (LOrCut /\ Args)'
  <2> SUFFICES ASSUME LOrCut, Args, [Next]_vars PROVE (LOrCut /\ Args)'
    OBVIOUS
  <2>1. Args'
    BY ArgsStep
  <2>2. CASE LInv
    BY <2>1, <2>2, LayoutStep DEF LOrCut
  <2>3. CASE Cut /\ op # None
    BY <2>1, <2>3, CutStep DEF LOrCut
  <2>. QED BY <2>2, <2>3 DEF LOrCut
<1>. QED BY <1>1, <1>2, PTL DEF Spec

(***************************************************************************)
(* However operations are interleaved with stops and wherever an access    *)
(* fails, the table of the RPMB file system ends with an entry flagged     *)
(* FILE_IS_LAST_ENTRY, only entries come before it, and the contents of    *)
(* files lie apart from each other and from the table: no write to one     *)
(* file can damage another.  One write ends that, and LayoutSound says     *)
(* which: the one with which the cleanup of a create clears the last entry *)
(* after the table could not be expanded.                                  *)
(***************************************************************************)
THEOREM LayoutCorrect ==
  Spec => []LayoutSound
<1>1. LInv => LayoutSound
  <2> SUFFICES ASSUME LInv PROVE LayoutSound
    OBVIOUS
  <2> DEFINE l == LastAddr(mem)
  <2>1. Ends(mem, l) /\ Apart(mem, l) /\ l \in Nat /\ l >= 1 /\ l \in Addrs
    BY LInvGives
  <2> HIDE DEF l
  <2>2. \A a \in 1 .. l : mem[a] \in Entries /\ IsEntry(mem[a])
    BY <2>1, EntryNotData DEF Ends, IsEntry
  <2>3. TableEnds
    <3>1. l \in 1 .. l
      BY <2>1
    <3>. QED BY <2>1, <2>2, <3>1 DEF TableEnds, Ends
  <2>4. ASSUME NEW a \in 1 .. l, NEW b \in 1 .. l
        PROVE  /\ a # b => Region(mem[a]) \cap Region(mem[b]) = {}
               /\ Region(mem[a]) \cap 1 .. l = {}
    <3>1. Fits(mem, l, a, mem[a])
      BY <2>1 DEF Apart
    <3>2. \A c : c \in Region(mem[a]) => c \in Nat /\ In(mem[a], c)
      BY <2>2, RegionIs
    <3>3. \A c : c \in Region(mem[b]) => c \in Nat /\ In(mem[b], c)
      BY <2>2, RegionIs
    <3>4. a # b => Region(mem[a]) \cap Region(mem[b]) = {}
      BY <3>1, <3>2, <3>3 DEF Fits
    <3>5. ASSUME NEW c \in Region(mem[a]) PROVE c \notin 1 .. l
      <4>1. c \in Nat /\ c > l
        BY <3>1, <3>2, <3>5 DEF Fits
      <4>. QED BY <2>1, <4>1
    <3>. QED BY <3>4, <3>5
  <2>. QED BY <2>3, <2>4 DEF LayoutSound, l
<1>2. LOrCut => LayoutSound
  BY <1>1 DEF LOrCut, LayoutSound
<1>. QED BY <1>2, LInvHolds, PTL

(***************************************************************************)
(* What fat_entry_dir says of the table is what the device holds, after    *)
(* every create, move, rename, removal, failure and restart, as long as    *)
(* the table has an end.                                                   *)
(***************************************************************************)
THEOREM CacheCorrect ==
  Spec => []CacheFresh
<1>1. LInv => CacheFresh
  BY DEF LInv, LayoutOf, Fresh, CacheFresh
<1>2. LOrCut => CacheFresh
  BY <1>1 DEF LOrCut, CacheFresh
<1>. QED BY <1>2, LInvHolds, PTL

-----------------------------------------------------------------------------
(***************************************************************************)
(* The buffers of the abstract file store: those of writes, and the two    *)
(* parts in which rpmb_fs_create() writes the contents.                    *)
(***************************************************************************)
SBufs == Bufs \cup {<<x[1]>> : x \in Contents} \cup {Tail(x) : x \in Contents}

(***************************************************************************)
(* No two entries in use have the same name.                               *)
(***************************************************************************)
One(m, l) ==
  \A a, b \in 1 .. l :
    m[a].active /\ m[b].active /\ m[a].file = m[b].file => a = b

(***************************************************************************)
(* Entries in use are of files, and their blocks hold data.                *)
(***************************************************************************)
Known(m, l) ==
  \A a \in 1 .. l : m[a].active =>
    m[a].file \in Files /\ \A c \in Nat : In(m[a], c) => m[c] \in Data

(***************************************************************************)
(* Contents x come from y by one write or truncation of the abstract file  *)
(* store; unless longer writes inside a file are allowed, which            *)
(* update_write_helper() does not get right.                               *)
(***************************************************************************)
Goal(y, x) ==
  "overwrite" \notin Allow =>
    \/ \E pos \in 0 .. MaxLen, buf \in SBufs : x = Store!Overlay(y, pos, buf)
    \/ \E n \in 0 .. MaxLen : x = Extended(y, n)

(***************************************************************************)
(* The write of v to block c is still to be done.                          *)
(***************************************************************************)
Pending(t, c, v) == \E i \in 1 .. Len(t) - 1 : t[i][1] = c /\ t[i][2] = v

(***************************************************************************)
(* When the writes that are left are done, entry e will have contents x:   *)
(* each block of it has been written or is going to be.                    *)
(***************************************************************************)
Planned(m, t, e, x) ==
  /\ x \in Seq(Data) /\ Len(x) = e.size
  /\ \A j \in 1 .. e.size :
       /\ m[e.start + j - 1] = x[j] \/ Pending(t, e.start + j - 1, x[j])
       /\ \A i \in 1 .. Len(t) - 1 : t[i][1] = e.start + j - 1 => t[i][2] = x[j]

(***************************************************************************)
(* The last write is that of entry e to slot k.                            *)
(***************************************************************************)
Last(t, k, e) == t # <<>> /\ t[Len(t)] = Put(k, e)

(***************************************************************************)
(* The kinds of plan there are, in the order of the write that takes       *)
(* effect on the files: one block of a file in place;                      *)
(***************************************************************************)
Poke(m, l, t) ==
  /\ Len(t) = 1
  /\ \E f, k, v : \E pos \in 0 .. MaxLen :
       /\ Slotted(m, l, f, k) /\ pos < m[k].size
       /\ t[1] = Put(m[k].start + pos, v) /\ v \in Data /\ <<v>> \in SBufs

(***************************************************************************)
(* new contents beyond the table and apart from all files, and then the    *)
(* entry that points at them;                                              *)
(***************************************************************************)
Shift(m, l, t) ==
  \E f, k, e, x :
    /\ Slotted(m, l, f, k) /\ Last(t, k, e) /\ e.active = TRUE /\ e.file = f
    /\ Planned(m, t, e, x) /\ Goal(Content(m[k], m), x)
    /\ \A i \in 1 .. Len(t) - 1 :
         t[i][1] \in Nat /\ t[i][1] > l /\ \A b \in 1 .. l : ~In(m[b], t[i][1])

(***************************************************************************)
(* an entry cleared;                                                       *)
(***************************************************************************)
Drop(m, l, t) == Len(t) = 1 /\ \E f, k : Slotted(m, l, f, k) /\ t[1] = Put(k, Cleared)

(***************************************************************************)
(* a slot cleared that is not in use;                                      *)
(***************************************************************************)
Blank(m, l, t) == Len(t) = 1 /\ \E k : FreeIs(m, l, k) /\ t[1] = Put(k, Cleared)

(***************************************************************************)
(* an entry for a file that did not exist, after the new end of the table  *)
(* if it has to grow;                                                      *)
(***************************************************************************)
Make(m, l, t) ==
  \E f \in Files : \E k, e :
    /\ ~Has(m, l, f) /\ FreeIs(m, l, k) /\ e = NewEntry(f) /\ Last(t, k, e)
    /\ \/ Len(t) = 1
       \/ Len(t) = 2 /\ t[1] = Put(l + 1, LastEntry) /\ k = l /\ Spare(m, l)

(***************************************************************************)
(* an entry renamed, to a name that is free or has to be freed first.      *)
(***************************************************************************)
Name(m, l, t) ==
  \E g \in Files : \E f, k, e :
    /\ Slotted(m, l, f, k) /\ g # f /\ e = RenamedE(m[k], g) /\ Last(t, k, e)
    /\ \/ Len(t) = 1 /\ ~Has(m, l, g)
       \/ Len(t) = 2 /\ \E j : Slotted(m, l, g, j) /\ t[1] = Put(j, Cleared)

(***************************************************************************)
(* Every plan is of one of these kinds.                                    *)
(***************************************************************************)
Kind(m, l, t) ==
  t # <<>> =>
    \/ Poke(m, l, t) \/ Shift(m, l, t) \/ Drop(m, l, t) \/ Blank(m, l, t)
    \/ Make(m, l, t) \/ Name(m, l, t)

(***************************************************************************)
(* File f exists with contents x.                                          *)
(***************************************************************************)
FileAt(m, l, f, x) == \E a : Slotted(m, l, f, a) /\ Content(m[a], m) = x

(***************************************************************************)
(* File f has contents x, or will have after the writes that are left.     *)
(***************************************************************************)
Due(m, l, t, f, x) ==
  \/ t = <<>> /\ FileAt(m, l, f, x)
  \/ \E k \in 1 .. l : \E e :
       Last(t, k, e) /\ e.active = TRUE /\ e.file = f /\ Planned(m, t, e, x)

(***************************************************************************)
(* How far a creation is: the temporary file is empty, has the head, has   *)
(* all of the contents; and then the object has them.                      *)
(***************************************************************************)
Progress(m, l, t, o, s) ==
  o # None /\ o.kind = "create" =>
    /\ s = "open" => Due(m, l, t, o.file, <<>>)
    /\ s = "head" => Due(m, l, t, o.file, <<o.data[1]>>)
    /\ s = "data" => Due(m, l, t, o.file, o.data)
    /\ s = "rename" => Due(m, l, t, Obj(o.file[1]), o.data)

(***************************************************************************)
(* What holds of the files during any operation.                           *)
(***************************************************************************)
FilesOf(m, l, t) == One(m, l) /\ Known(m, l) /\ Kind(m, l, t)

(***************************************************************************)
(* The inductive invariant for the files.  CreateExact speaks of the end   *)
(* of a creation only; here every stage says what the writes that are left *)
(* will make of the file, and every plan says which single write changes   *)
(* the files.                                                              *)
(***************************************************************************)
CInv ==
  /\ FilesOf(mem, LastAddr(mem), Left)
  /\ Progress(mem, LastAddr(mem), todo, op, stage)

(***************************************************************************)
(* Sequences with the same elements are equal.                             *)
(***************************************************************************)
LEMMA TupleEqual ==
  ASSUME NEW x, IsTuple(x), NEW y, IsTuple(y), Len(x) = Len(y),
         \A i \in 1 .. Len(x) : x[i] = y[i]
  PROVE  x = y
<1>1. x = [i \in 1 .. Len(x) |-> x[i]] /\ y = [i \in 1 .. Len(y) |-> y[i]]
  BY TupleHas
<1>. QED BY <1>1

(***************************************************************************)
(* A sequence over a set, by its elements.                                 *)
(***************************************************************************)
LEMMA TupleIn ==
  ASSUME NEW x, IsTuple(x), NEW S, \A i \in 1 .. Len(x) : x[i] \in S
  PROVE  x \in Seq(S)
<1>1. Len(x) \in Nat /\ x = [i \in 1 .. Len(x) |-> x[i]]
  BY TupleHas
<1>2. x \in [1 .. Len(x) -> S]
  BY <1>1
<1>. QED BY <1>1, <1>2

(***************************************************************************)
(* And the other way round.                                                *)
(***************************************************************************)
LEMMA SeqTuple ==
  ASSUME NEW S, NEW x \in Seq(S)
  PROVE  IsTuple(x) /\ Len(x) \in Nat /\ \A i \in 1 .. Len(x) : x[i] \in S
<1>1. Len(x) \in Nat /\ x = [i \in 1 .. Len(x) |-> x[i]]
         /\ \A i \in 1 .. Len(x) : x[i] \in S
  BY LenProperties, ElementOfSeq
<1>. QED BY <1>1, TupleLen

(***************************************************************************)
(* The contents of a file are not the mark of a file that does not exist.  *)
(***************************************************************************)
LEMMA NotAData ==
  None \notin Seq(Data)
BY RpmbFsAssumption DEF Data

(***************************************************************************)
(* A file is in one slot.                                                  *)
(***************************************************************************)
LEMMA SameSlot ==
  ASSUME NEW m, NEW l \in Nat, One(m, l), NEW f, NEW a, NEW b,
         Slotted(m, l, f, a), Slotted(m, l, f, b)
  PROVE  a = b
<1>1. a \in 1 .. l /\ b \in 1 .. l
  BY DEF Slotted
<1>. QED BY <1>1 DEF One, Slotted

(***************************************************************************)
(* Contents are data.                                                      *)
(***************************************************************************)
LEMMA ContentData ==
  ASSUME NEW m, NEW l \in Nat, Known(m, l), NEW f, NEW k, Slotted(m, l, f, k)
  PROVE  Content(m[k], m) \in Seq(Data)
<1>1. PICK e \in Entries : e = m[k] /\ e.active = TRUE /\ k \in 1 .. l
  BY DEF Slotted
<1>2. e.start \in Nat /\ e.size \in Nat
  BY EntryIs
<1>3. PICK y : y = Content(e, m)
  OBVIOUS
<1>4. /\ IsTuple(y) /\ Len(y) = e.size
      /\ \A i \in 1 .. e.size : y[i] = m[e.start + i - 1]
  BY <1>2, <1>3, ContentIs
<1>5. ASSUME NEW i \in 1 .. e.size
      PROVE  y[i] \in Data
  <2>1. PICK c \in Nat : c = e.start + i - 1
    BY <1>2
  <2>2. In(e, c)
    BY <1>1, <1>2, <2>1 DEF In
  <2>3. m[c] \in Data
    BY <1>1, <2>2 DEF Known
  <2>. QED BY <1>4, <2>1, <2>3
<1>. QED BY <1>1, <1>3, <1>4, <1>5, TupleIn

(***************************************************************************)
(* So are those after a write.                                             *)
(***************************************************************************)
LEMMA UpdatedData ==
  ASSUME NEW y \in Seq(Data), NEW pos \in Nat, NEW buf \in Seq(Vals),
         NEW x, x = Updated(y, pos, buf)
  PROVE  x \in Seq(Data)
<1>1. IsTuple(y) /\ Len(y) \in Nat /\ (\A i \in 1 .. Len(y) : y[i] \in Data)
  BY SeqTuple
<1>2. IsTuple(buf) /\ Len(buf) \in Nat /\ \A i \in 1 .. Len(buf) : buf[i] \in Data
  BY SeqTuple DEF Data
<1>3. /\ IsTuple(x)
      /\ Len(x) = IF pos + Len(buf) > Len(y) THEN pos + Len(buf) ELSE Len(y)
      /\ \A i \in 1 .. Len(x) :
              x[i] = IF i > pos /\ i <= pos + Len(buf) THEN buf[i - pos]
                     ELSE IF i <= Len(y) /\ TmpBlock * ((i - 1) \div TmpBlock) < pos THEN y[i]
                     ELSE Zero
  BY <1>1, <1>2, UpdatedIs DEF IsUpdated
<1>4. ASSUME NEW i \in 1 .. Len(x)
      PROVE  x[i] \in Data
  <2>0. i \in Nat /\ i >= 1
    BY <1>1, <1>2, <1>3
  <2>1. CASE i > pos /\ i <= pos + Len(buf)
    <3>1. i - pos \in 1 .. Len(buf)
      BY <1>2, <2>0, <2>1
    <3>2. x[i] = buf[i - pos]
      BY <1>3, <2>1
    <3>. QED BY <1>2, <3>1, <3>2
  <2>2. CASE ~(i > pos /\ i <= pos + Len(buf)) /\ i <= Len(y)
    <3>1. i \in 1 .. Len(y)
      BY <1>1, <2>0, <2>2
    <3>2. x[i] = y[i] \/ x[i] = Zero
      BY <1>3, <2>2
    <3>. QED BY <1>1, <3>1, <3>2 DEF Data
  <2>3. CASE ~(i > pos /\ i <= pos + Len(buf)) /\ ~(i <= Len(y))
    <3>1. x[i] = Zero
      BY <1>3, <2>3
    <3>. QED BY <3>1 DEF Data
  <2>. QED BY <2>1, <2>2, <2>3
<1>. QED BY <1>3, <1>4, TupleIn

(***************************************************************************)
(* And those after a truncation.                                           *)
(***************************************************************************)
LEMMA ExtendedData ==
  ASSUME NEW y \in Seq(Data), NEW n \in Nat, NEW x, x = Extended(y, n)
  PROVE  x \in Seq(Data)
<1>1. IsTuple(y) /\ Len(y) \in Nat /\ (\A i \in 1 .. Len(y) : y[i] \in Data)
  BY SeqTuple
<1>2. /\ IsTuple(x) /\ Len(x) = n
      /\ \A i \in 1 .. n : x[i] = IF i <= Len(y) THEN y[i] ELSE Zero
  BY <1>1, ExtendedIs DEF IsExtended
<1>3. ASSUME NEW i \in 1 .. n
      PROVE  x[i] \in Data
  <2>1. i <= Len(y) => i \in 1 .. Len(y)
    BY <1>1
  <2>. QED BY <1>1, <1>2, <2>1 DEF Data
<1>. QED BY <1>2, <1>3, TupleIn

(***************************************************************************)
(* The temporary block of an index starts at or before it.                 *)
(***************************************************************************)
LEMMA BlockStart ==
  ASSUME NEW a \in Nat, NEW b \in Nat \ {0}
  PROVE  b * (a \div b) <= a
OBVIOUS

(***************************************************************************)
(* A write up to the end of the file, or beyond it, does what it should:   *)
(* every temporary block that begins before the buffer is filled with old  *)
(* data.                                                                   *)
(***************************************************************************)
LEMMA UpdatedOverlay ==
  ASSUME NEW y, IsTuple(y), NEW pos \in Nat, NEW buf, IsTuple(buf),
         pos + Len(buf) >= Len(y)
  PROVE  Updated(y, pos, buf) = Store!Overlay(y, pos, buf)
<1>1. PICK x, z : x = Updated(y, pos, buf) /\ z = Store!Overlay(y, pos, buf)
  OBVIOUS
<1>2. Len(y) \in Nat /\ Len(buf) \in Nat
  BY TupleHas
<1>3. /\ IsTuple(x)
      /\ Len(x) = IF pos + Len(buf) > Len(y) THEN pos + Len(buf) ELSE Len(y)
      /\ \A i \in 1 .. Len(x) :
              x[i] = IF i > pos /\ i <= pos + Len(buf) THEN buf[i - pos]
                     ELSE IF i <= Len(y) /\ TmpBlock * ((i - 1) \div TmpBlock) < pos THEN y[i]
                     ELSE Zero
  BY <1>1, UpdatedIs DEF IsUpdated
<1>4. PICK n \in Nat : n = IF pos + Len(buf) > Len(y) THEN pos + Len(buf) ELSE Len(y)
  BY <1>2
<1> DEFINE F(i) == IF i > pos /\ i <= pos + Len(buf) THEN buf[i - pos]
                   ELSE IF i <= Len(y) THEN y[i] ELSE Zero
<1>5. z = [i \in 1 .. n |-> F(i)]
  BY <1>1, <1>4 DEF Store!Overlay
<1>6. ASSUME NEW i \in 1 .. n
      PROVE  x[i] = F(i)
  <2>1. i \in Nat /\ i >= 1 /\ i <= n
    BY <1>4
  <2>2. CASE i > pos
    <3>1. i <= pos + Len(buf)
      BY <1>2, <1>4, <2>1
    <3>. QED BY <1>3, <1>4, <2>2, <3>1
  <2>3. CASE ~(i > pos)
    <3>1. PICK d \in Nat : d = i - 1
      BY <2>1
    <3>2. TmpBlock * (d \div TmpBlock) <= d
      BY RpmbFsAssumption, BlockStart
    <3>3. PICK q : q = TmpBlock * (d \div TmpBlock)
      OBVIOUS
    <3>4. q \in Int
      BY <3>1, <3>3, RpmbFsAssumption
    <3>5. q < pos
      BY <2>1, <2>3, <3>1, <3>2, <3>3, <3>4
    <3>6. TmpBlock * ((i - 1) \div TmpBlock) < pos
      BY <3>1, <3>3, <3>5
    <3>. QED BY <1>3, <1>4, <2>3, <3>6
  <2>. QED BY <2>2, <2>3
<1> HIDE DEF F
<1>7. x = [i \in 1 .. n |-> x[i]]
  BY <1>3, <1>4, TupleHas
<1>8. x = z
  BY <1>5, <1>6, <1>7
<1>. QED BY <1>1, <1>8

(***************************************************************************)
(* The plan of a move.                                                     *)
(***************************************************************************)
LEMMA MoveKind ==
  ASSUME NEW m, NEW l \in Nat, NEW f, NEW k, Slotted(m, l, f, k),
         NEW x \in Seq(Data), NEW t, MoveDoes(m, l, k, x, t)
  PROVE  /\ t # <<>>
         /\ \E e : /\ Last(t, k, e) /\ e.active = TRUE /\ e.file = f
                   /\ Planned(m, t, e, x)
                   /\ \A i \in 1 .. Len(t) - 1 :
                        t[i][1] \in Nat /\ t[i][1] > l
                          /\ \A b \in 1 .. l : ~In(m[b], t[i][1])
<1>1. IsTuple(x) /\ Len(x) \in Nat /\ k \in 1 .. l - 1
  BY SeqTuple DEF Slotted
<1>2. PICK p, g : MovedTo(m, l, k, p, Len(x), g)
              /\ t = Writes(p, x) \o << Put(k, g) >>
  BY DEF MoveDoes
<1>3. /\ t # <<>> /\ Len(t) = Len(x) + 1
      /\ \A i \in 1 .. Len(x) : t[i] = << p + i - 1, x[i] >> /\ p + i - 1 \in Nat
                                     /\ p + i - 1 > l
  <2>1. MovedBy(t, l, p, x, k, g)
    BY <1>1, <1>2, MovedPlan
  <2>. QED BY <2>1 DEF MovedBy
<1>4. t[Len(t)] = Put(k, g)
  <2>1. MovedBy(t, l, p, x, k, g)
    BY <1>1, <1>2, MovedPlan
  <2>. QED BY <2>1 DEF MovedBy
<1>5. Last(t, k, g)
  BY <1>3, <1>4 DEF Last
<1>6. /\ g.active = TRUE /\ g.file = f /\ g.start = p /\ g.size = Len(x) /\ p \in Nat
      /\ \A c \in Nat : p <= c /\ c < p + Len(x) => \A b \in 1 .. l : ~In(m[b], c)
  BY <1>2 DEF MovedTo, Slotted
<1>7. PICK n \in Nat : n = Len(x)
  BY <1>1
<1>8. Len(t) - 1 = n
  BY <1>3, <1>7
<1>9. \A i \in 1 .. n : t[i][1] = p + i - 1 /\ t[i][2] = x[i]
  BY <1>3, <1>7
<1>10. Planned(m, t, g, x)
  <2>1. ASSUME NEW j \in 1 .. n
        PROVE  Pending(t, p + j - 1, x[j])
    BY <1>8, <1>9 DEF Pending
  <2>2. ASSUME NEW j \in 1 .. n, NEW i \in 1 .. n, t[i][1] = p + j - 1
        PROVE  t[i][2] = x[j]
    <3>1. p + i - 1 = p + j - 1
      BY <1>9, <2>2
    <3>2. i = j
      BY <1>6, <1>7, <3>1
    <3>. QED BY <1>9, <3>2
  <2>. QED BY <1>6, <1>7, <1>8, <2>1, <2>2 DEF Planned
<1>11. ASSUME NEW i \in 1 .. n
       PROVE  t[i][1] \in Nat /\ t[i][1] > l /\ \A b \in 1 .. l : ~In(m[b], t[i][1])
  <2>1. PICK c : c = t[i][1]
    OBVIOUS
  <2>2. c = p + i - 1
    BY <1>9, <2>1
  <2>3. c \in Nat /\ c > l
    BY <1>3, <1>7, <2>2
  <2>4. p <= c /\ c < p + n
    BY <1>6, <1>7, <2>2
  <2>. QED BY <1>6, <1>7, <2>1, <2>3, <2>4
<1>. QED BY <1>3, <1>5, <1>6, <1>8, <1>10, <1>11

(***************************************************************************)
(* So a move is a shift, and its contents are due.                         *)
(***************************************************************************)
LEMMA MoveShift ==
  ASSUME NEW m, NEW l \in Nat, NEW f, NEW k, Slotted(m, l, f, k),
         NEW x \in Seq(Data), NEW t, MoveDoes(m, l, k, x, t),
         Goal(Content(m[k], m), x)
  PROVE  Kind(m, l, t) /\ Due(m, l, t, f, x)
<1>1. PICK e : /\ Last(t, k, e) /\ e.active = TRUE /\ e.file = f
               /\ Planned(m, t, e, x)
               /\ \A i \in 1 .. Len(t) - 1 :
                    t[i][1] \in Nat /\ t[i][1] > l
                      /\ \A b \in 1 .. l : ~In(m[b], t[i][1])
  BY MoveKind
<1>2. Shift(m, l, t)
  BY <1>1 DEF Shift
<1>3. k \in 1 .. l
  BY DEF Slotted
<1>4. Due(m, l, t, f, x)
  BY <1>1, <1>3 DEF Due
<1>. QED BY <1>2, <1>4 DEF Kind

(***************************************************************************)
(* A write of one block, or of a buffer that reaches the end of the file.  *)
(***************************************************************************)
LEMMA WriteKind ==
  ASSUME NEW m, NEW l \in Nat, One(m, l), Known(m, l), NEW f,
         NEW pos \in 0 .. MaxLen, NEW buf \in Seq(Vals),
         buf \in SBufs, NEW st, NEW t, NEW s,
         WriteDoes(m, l, f, pos, buf, st, t, s),
         \A k : Slotted(m, l, f, k) => \/ Len(buf) = 1
                                       \/ pos + Len(buf) >= m[k].size
                                       \/ "overwrite" \in Allow
  PROVE  Kind(m, l, t)
<1>1. PICK k :
    /\ Slotted(m, l, f, k)
    /\ \/ /\ s = st /\ InPlace(m[k], pos, buf)
          /\ t = << Put(m[k].start + pos, buf[1]) >>
       \/ /\ s = st /\ ~InPlace(m[k], pos, buf)
          /\ MoveDoes(m, l, k, Updated(Content(m[k], m), pos, buf), t)
       \/ s = "fail" /\ t = <<>>
  BY DEF WriteDoes
<1>2. PICK e \in Entries : e = m[k] /\ e.size \in Nat
  BY <1>1, EntryIs DEF Slotted
<1>3. pos \in Nat /\ Len(buf) \in Nat /\ IsTuple(buf) /\ \A i \in 1 .. Len(buf) : buf[i] \in Vals
  BY RpmbFsAssumption, SeqTuple
<1>4. CASE InPlace(e, pos, buf) /\ t = << Put(e.start + pos, buf[1]) >>
  <2>1. pos + Len(buf) <= e.size /\ Len(buf) = 1
    BY <1>4 DEF InPlace
  <2>2. pos < e.size
    BY <1>2, <1>3, <2>1
  <2>3. PICK v : v = buf[1]
    OBVIOUS
  <2>4. v \in Data
    BY <1>3, <2>1, <2>3 DEF Data
  <2>5. buf = <<v>>
    <3>1. IsTuple(<<v>>) /\ Len(<<v>>) = 1 /\ <<v>>[1] = v
      BY TupleOne
    <3>2. \A i \in 1 .. Len(buf) : buf[i] = <<v>>[i]
      BY <2>1, <2>3, <3>1
    <3>. QED BY <1>3, <2>1, <3>1, <3>2, TupleEqual
  <2>6. <<v>> \in SBufs
    BY <2>5
  <2>7. Len(t) = 1 /\ t[1] = Put(e.start + pos, v)
    BY <1>4, <2>3, TupleOne
  <2>8. Poke(m, l, t)
    BY <1>1, <1>2, <2>2, <2>4, <2>6, <2>7 DEF Poke
  <2>. QED BY <2>8 DEF Kind
<1>5. CASE ~InPlace(e, pos, buf) /\ MoveDoes(m, l, k, Updated(Content(e, m), pos, buf), t)
  <2>1. PICK y : y = Content(e, m)
    OBVIOUS
  <2>2. y \in Seq(Data) /\ IsTuple(y) /\ Len(y) = e.size
    BY <1>1, <1>2, <2>1, ContentData, ContentIs
  <2>3. PICK x : x = Updated(y, pos, buf)
    OBVIOUS
  <2>4. x \in Seq(Data)
    BY <1>3, <2>2, <2>3, UpdatedData
  <2>5. Goal(y, x)
    <3> SUFFICES ASSUME "overwrite" \notin Allow
                 PROVE  \E p \in 0 .. MaxLen, d \in SBufs : x = Store!Overlay(y, p, d)
      BY DEF Goal
    <3>1. Len(buf) = 1 \/ pos + Len(buf) >= e.size
      BY <1>1, <1>2
    <3>2. pos + Len(buf) >= Len(y)
      <4>1. CASE Len(buf) = 1
        <5>1. ~(pos + Len(buf) <= e.size)
          BY <1>5, <4>1 DEF InPlace
        <5>. QED BY <1>2, <1>3, <2>2, <5>1
      <4>. QED BY <2>2, <3>1, <4>1
    <3>3. x = Store!Overlay(y, pos, buf)
      BY <1>3, <2>2, <2>3, <3>2, UpdatedOverlay
    <3>. QED BY <3>3
  <2>. QED BY <1>1, <1>2, <1>5, <2>1, <2>3, <2>4, <2>5, MoveShift
<1>6. CASE t = <<>>
  BY <1>6 DEF Kind
<1>. QED BY <1>1, <1>2, <1>4, <1>5, <1>6

(***************************************************************************)
(* A write at the end of the file that is being created: it is never in    *)
(* place, and leaves the contents it should.                               *)
(***************************************************************************)
LEMMA WriteDue ==
  ASSUME NEW m, NEW l \in Nat, One(m, l), Known(m, l), NEW f,
         NEW pos \in Nat, NEW buf \in Seq(Vals), buf # <<>>,
         NEW st, NEW t, NEW s, st # "fail",
         WriteDoes(m, l, f, pos, buf, st, t, s),
         NEW y, FileAt(m, l, f, y), Len(y) = pos
  PROVE  s = "fail" \/ (s = st /\ Due(m, l, t, f, Updated(y, pos, buf)))
<1>1. PICK k :
    /\ Slotted(m, l, f, k)
    /\ \/ /\ s = st /\ InPlace(m[k], pos, buf)
          /\ t = << Put(m[k].start + pos, buf[1]) >>
       \/ /\ s = st /\ ~InPlace(m[k], pos, buf)
          /\ MoveDoes(m, l, k, Updated(Content(m[k], m), pos, buf), t)
       \/ s = "fail" /\ t = <<>>
  BY DEF WriteDoes
<1>2. PICK a : Slotted(m, l, f, a) /\ Content(m[a], m) = y
  BY DEF FileAt
<1>3. a = k
  BY <1>1, <1>2, SameSlot
<1>4. PICK e \in Entries : e = m[k] /\ e.size \in Nat
  BY <1>1, EntryIs DEF Slotted
<1>5. y \in Seq(Data) /\ Len(y) = e.size
  BY <1>1, <1>2, <1>3, <1>4, ContentData, ContentIs
<1>6. ~InPlace(m[k], pos, buf)
  BY <1>4, <1>5 DEF InPlace
<1>7. PICK x : x = Updated(y, pos, buf)
  OBVIOUS
<1>8. x \in Seq(Data)
  BY <1>5, <1>7, UpdatedData
<1>9. CASE s = st /\ MoveDoes(m, l, k, Updated(Content(m[k], m), pos, buf), t)
  <2>1. MoveDoes(m, l, k, x, t)
    BY <1>2, <1>3, <1>7, <1>9
  <2>2. PICK d : Last(t, k, d) /\ d.active = TRUE /\ d.file = f /\ Planned(m, t, d, x)
    <3>1. \E e1 : /\ Last(t, k, e1) /\ e1.active = TRUE /\ e1.file = f
                  /\ Planned(m, t, e1, x)
                  /\ \A i \in 1 .. Len(t) - 1 :
                       t[i][1] \in Nat /\ t[i][1] > l
                         /\ \A b \in 1 .. l : ~In(m[b], t[i][1])
      BY <1>1, <1>8, <2>1, MoveKind
    <3>. QED BY <3>1
  <2>3. k \in 1 .. l
    BY <1>1 DEF Slotted
  <2>4. Due(m, l, t, f, x)
    BY <2>2, <2>3 DEF Due
  <2>. QED BY <1>7, <1>9, <2>4
<1>. QED BY <1>1, <1>6, <1>9

(***************************************************************************)
(* An open of a file that does not exist leaves an empty one.              *)
(***************************************************************************)
LEMMA OpenKind ==
  ASSUME NEW m, NEW l \in Nat, NEW f \in Files, NEW j, NEW t, NEW s,
         OpenDoes(m, l, f, j, t, s)
  PROVE  Kind(m, l, t) /\ (~Has(m, l, f) /\ s = "open" => Due(m, l, t, f, <<>>))
<1>1. CASE Has(m, l, f) \/ s # "open"
  BY <1>1 DEF OpenDoes, Kind
<1>2. CASE ~Has(m, l, f) /\ s = "open"
  <2>1. PICK k, e :
          /\ FreeIs(m, l, k) /\ e = NewEntry(f)
          /\ \/ k # l /\ t = << Put(k, e) >>
             \/ k = l /\ Spare(m, l)
                  /\ t = << Put(l + 1, LastEntry) >> \o << Put(l, e) >>
    BY <1>2 DEF OpenDoes
  <2>2. e \in Entries /\ e.file = f /\ e.active = TRUE /\ e.last = FALSE
           /\ e.size = 0 /\ k \in 1 .. l
    BY <2>1, NewEntryIs DEF FreeIs
  <2>3. /\ Last(t, k, e)
        /\ \/ Len(t) = 1
           \/ Len(t) = 2 /\ t[1] = Put(l + 1, LastEntry) /\ k = l /\ Spare(m, l)
    <3>1. CASE k # l /\ t = << Put(k, e) >>
      BY <3>1, TupleOne DEF Last
    <3>2. CASE k = l /\ Spare(m, l)
                  /\ t = << Put(l + 1, LastEntry) >> \o << Put(l, e) >>
      <4>1. PICK v, w : v = Put(l + 1, LastEntry) /\ w = Put(l, e)
        OBVIOUS
      <4>2. t = <<v>> \o <<w>>
        BY <3>2, <4>1
      <4>3. Len(t) = 2 /\ t[1] = v /\ t[2] = w
        BY <4>2, PairIs
      <4>4. t # <<>>
        BY <4>3, TupleEmpty
      <4>. QED BY <3>2, <4>1, <4>3, <4>4 DEF Last
    <3>. QED BY <2>1, <3>1, <3>2
  <2>4. Make(m, l, t)
    BY <1>2, <2>1, <2>3 DEF Make
  <2>5. Planned(m, t, e, <<>>)
    <3>1. <<>> \in Seq(Data) /\ Len(<<>>) = 0
      BY TupleEmpty
    <3>2. 1 .. e.size = {}
      BY <2>2
    <3>. QED BY <2>2, <3>1, <3>2 DEF Planned
  <2>6. Due(m, l, t, f, <<>>)
    BY <2>2, <2>3, <2>5 DEF Due
  <2>. QED BY <2>4, <2>6 DEF Kind
<1>. QED BY <1>1, <1>2

(***************************************************************************)
(* A rename leaves the contents under the new name.                        *)
(***************************************************************************)
LEMMA RenameKind ==
  ASSUME NEW m, NEW l \in Nat, One(m, l), Known(m, l), Apart(m, l), NEW f,
         NEW g \in Files, f # g,
         NEW over, NEW st, NEW t, NEW s, RenameDoes(m, l, f, g, over, st, t, s)
  PROVE  Kind(m, l, t) /\ \A x : s # "fail" /\ FileAt(m, l, f, x) => Due(m, l, t, g, x)
<1>1. PICK k :
    /\ Slotted(m, l, f, k)
    /\ \/ s = "fail" /\ t = <<>>
       \/ s = st /\ ~Has(m, l, g) /\ t = << Put(k, RenamedE(m[k], g)) >>
       \/ /\ s = st
          /\ \E j : Slotted(m, l, g, j)
               /\ t = << Put(j, Cleared) >> \o << Put(k, RenamedE(m[k], g)) >>
  BY DEF RenameDoes
<1>2. PICK e : e = RenamedE(m[k], g)
  OBVIOUS
<1>3. e.file = g /\ e.active = TRUE /\ e.start = m[k].start /\ e.size = m[k].size
  <2>1. Slotted(m, l, f, k)
    BY <1>1
  <2>2. IsRenamed(e, m[k], g)
    BY <1>2, <2>1, RenamedSuits
  <2>. QED BY <2>2 DEF IsRenamed
<1>4. CASE s = "fail" /\ t = <<>>
  BY <1>4 DEF Kind
<1>5. CASE ~(s = "fail" /\ t = <<>>)
  <2>1. Last(t, k, e) /\ (\/ Len(t) = 1 /\ ~Has(m, l, g)
                          \/ Len(t) = 2 /\ \E j : Slotted(m, l, g, j) /\ t[1] = Put(j, Cleared))
    <3>1. CASE ~Has(m, l, g) /\ t = << Put(k, e) >>
      BY <3>1, TupleOne DEF Last
    <3>2. ASSUME NEW j, Slotted(m, l, g, j),
                 t = << Put(j, Cleared) >> \o << Put(k, e) >>
          PROVE  Last(t, k, e) /\ Len(t) = 2 /\ t[1] = Put(j, Cleared)
      <4>1. PICK v, w : v = Put(j, Cleared) /\ w = Put(k, e)
        OBVIOUS
      <4>2. t = <<v>> \o <<w>>
        BY <3>2, <4>1
      <4>3. Len(t) = 2 /\ t[1] = v /\ t[2] = w
        BY <4>2, PairIs
      <4>4. t # <<>>
        BY <4>3, TupleEmpty
      <4>. QED BY <4>1, <4>3, <4>4 DEF Last
    <3>. QED BY <1>1, <1>2, <1>5, <3>1, <3>2
  <2>2. Name(m, l, t)
    BY <1>1, <1>2, <2>1 DEF Name
  <2>3. ASSUME NEW x, FileAt(m, l, f, x)
        PROVE  Due(m, l, t, g, x)
    <3>1. PICK a : Slotted(m, l, f, a) /\ Content(m[a], m) = x
      BY <2>3 DEF FileAt
    <3>2. a = k
      BY <1>1, <3>1, SameSlot
    <3>3. x \in Seq(Data)
      BY <3>1, ContentData
    <3>4. PICK d \in Entries : d = m[k] /\ d.size \in Nat /\ d.start \in Nat
             /\ d.active = TRUE
      BY <1>1, EntryIs DEF Slotted
    <3>5. Len(x) = d.size /\ \A i \in 1 .. d.size : x[i] = m[d.start + i - 1]
      BY <3>1, <3>2, <3>4, ContentIs
    <3>6. ASSUME NEW j \in 1 .. d.size, NEW i \in 1 .. Len(t) - 1
          PROVE  t[i][1] # d.start + j - 1
      <4>1. Len(t) = 2 /\ \E q : Slotted(m, l, g, q) /\ t[1] = Put(q, Cleared)
        BY <2>1, <3>6
      <4>2. i = 1
        BY <3>6, <4>1
      <4>3. t[i][1] \in 1 .. l
        BY <4>1, <4>2 DEF Slotted, Put
      <4>4. PICK c \in Nat : c = d.start + j - 1
        BY <3>4
      <4>5. In(d, c)
        BY <3>4, <4>4 DEF In
      <4>6. Fits(m, l, k, d)
        BY <1>1, <3>4 DEF Apart, Slotted
      <4>7. c > l
        BY <4>5, <4>6 DEF Fits
      <4>. QED BY <4>3, <4>4, <4>7
    <3>7. Planned(m, t, e, x)
      BY <1>3, <3>3, <3>4, <3>5, <3>6 DEF Planned
    <3>8. k \in 1 .. l
      BY <1>1 DEF Slotted
    <3>. QED BY <1>3, <2>1, <3>7, <3>8 DEF Due
  <2>. QED BY <2>2, <2>3 DEF Kind
<1>. QED BY <1>4, <1>5

(***************************************************************************)
(* A removal.                                                              *)
(***************************************************************************)
LEMMA RemoveKind ==
  ASSUME NEW m, NEW l, NEW f, NEW t, RemoveDoes(m, l, f, t)
  PROVE  Kind(m, l, t)
<1>1. PICK k : Slotted(m, l, f, k) /\ t = << Put(k, Cleared) >>
  BY DEF RemoveDoes
<1>2. Len(t) = 1 /\ t[1] = Put(k, Cleared)
  BY <1>1, TupleOne
<1>. QED BY <1>1, <1>2 DEF Kind, Drop

(***************************************************************************)
(* A slot that is not in use is cleared.                                   *)
(***************************************************************************)
LEMMA ClearKind ==
  ASSUME NEW m, NEW l, NEW t, ClearDoes(m, l, t)
  PROVE  Kind(m, l, t)
<1>1. PICK k : FreeIs(m, l, k) /\ t = << Put(k, Cleared) >>
  BY DEF ClearDoes
<1>2. Len(t) = 1 /\ t[1] = Put(k, Cleared)
  BY <1>1, TupleOne
<1>. QED BY <1>1, <1>2 DEF Kind, Blank

(***************************************************************************)
(* A truncation, in place or by a move.                                    *)
(***************************************************************************)
LEMMA TruncateKind ==
  ASSUME NEW m, NEW l \in Nat, Known(m, l), Apart(m, l), NEW f,
         NEW len \in 0 .. MaxLen, NEW t, TruncateDoes(m, l, f, len, t)
  PROVE  Kind(m, l, t)
<1>1. PICK k :
    /\ Slotted(m, l, f, k)
    /\ \/ len <= m[k].size /\ t = << Put(k, ResizedE(m[k], len)) >>
       \/ MoveDoes(m, l, k, Extended(Content(m[k], m), len), t)
       \/ t = <<>>
  BY DEF TruncateDoes
<1>2. PICK e \in Entries : e = m[k] /\ e.size \in Nat /\ e.start \in Nat
  BY <1>1, EntryIs DEF Slotted
<1>3. len \in Nat
  BY RpmbFsAssumption
<1>4. PICK y : y = Content(e, m)
  OBVIOUS
<1>5. y \in Seq(Data) /\ IsTuple(y) /\ Len(y) = e.size
        /\ \A i \in 1 .. e.size : y[i] = m[e.start + i - 1]
  BY <1>1, <1>2, <1>4, ContentData, ContentIs
<1>6. PICK x : x = Extended(y, len)
  OBVIOUS
<1>7. x \in Seq(Data) /\ Goal(y, x)
  BY <1>3, <1>5, <1>6, ExtendedData DEF Goal
<1>8. CASE MoveDoes(m, l, k, Extended(Content(m[k], m), len), t)
  BY <1>1, <1>2, <1>4, <1>6, <1>7, <1>8, MoveShift
<1>9. CASE len <= m[k].size /\ t = << Put(k, ResizedE(m[k], len)) >>
  <2>1. PICK d : d = ResizedE(m[k], len)
    OBVIOUS
  <2>2. d.file = f /\ d.active = TRUE /\ d.start = e.start /\ d.size = len
    <3>1. Slotted(m, l, f, k) /\ len <= m[k].size
      BY <1>1, <1>9
    <3>2. IsResized(d, m[k], len)
      BY <1>3, <2>1, <3>1, ResizedSuits
    <3>. QED BY <1>1, <1>2, <3>2 DEF IsResized, Slotted
  <2>3. Len(t) = 1 /\ Last(t, k, d)
    BY <1>9, <2>1, TupleOne DEF Last
  <2>4. Len(x) = len /\ \A i \in 1 .. len : x[i] = IF i <= Len(y) THEN y[i] ELSE Zero
    <3>1. IsTuple(y)
      BY <1>5
    <3>2. IsExtended(x, y, len)
      BY <1>3, <1>6, <3>1, ExtendedIs
    <3>. QED BY <3>2 DEF IsExtended
  <2>5. \A j \in 1 .. len : m[e.start + j - 1] = x[j]
    <3> SUFFICES ASSUME NEW j \in 1 .. len PROVE m[e.start + j - 1] = x[j]
      OBVIOUS
    <3>1. j \in 1 .. e.size /\ j <= Len(y)
      BY <1>2, <1>3, <1>5, <1>9
    <3>. QED BY <1>5, <2>4, <3>1
  <2>6. Planned(m, t, d, x)
    <3>1. 1 .. Len(t) - 1 = {}
      BY <2>3
    <3>. QED BY <1>7, <2>2, <2>4, <2>5, <3>1 DEF Planned
  <2>7. Shift(m, l, t)
    <3>1. 1 .. Len(t) - 1 = {}
      BY <2>3
    <3>. QED BY <1>1, <1>2, <1>4, <1>7, <2>2, <2>3, <2>6, <3>1 DEF Shift
  <2>. QED BY <2>7 DEF Kind
<1>10. CASE t = <<>>
  BY <1>10 DEF Kind
<1>. QED BY <1>1, <1>8, <1>9, <1>10

-----------------------------------------------------------------------------
(***************************************************************************)
(* One write of a sound layout: block b to address a.                      *)
(***************************************************************************)
Step(m, l, t, a, b, n, h) ==
  /\ \E c : LayoutOf(m, l, c, t)
  /\ \E c : LayoutOf(n, h, c, Tail(t))
  /\ t # <<>> /\ t[1][1] = a /\ t[1][2] = b /\ n = MemAfter(m, a, b)
  /\ \/ Outside(m, l, a, n, h)
     \/ Inside(m, l, t, a, b, n, h)
     \/ Growing(m, l, t, a, b, n, h)

(***************************************************************************)
(* What a step leaves alone.                                               *)
(***************************************************************************)
LEMMA StepGives ==
  ASSUME NEW m, NEW l, NEW t, NEW a, NEW b, NEW n, NEW h, Step(m, l, t, a, b, n, h)
  PROVE  /\ l \in Nat /\ l >= 1 /\ h \in Nat /\ h >= l /\ IsTuple(t)
         /\ Ends(m, l) /\ Apart(m, l) /\ Ends(n, h)
         /\ \A x \in Addrs : x # a => n[x] = m[x]
         /\ a \in Addrs => n[a] = b
         /\ \E c : Plan(m, l, t, c)
<1>1. PICK c : LayoutOf(m, l, c, t)
  BY DEF Step
<1>2. DOMAIN m = Addrs /\ IsTuple(t) /\ Ends(m, l) /\ Apart(m, l) /\ Plan(m, l, t, c)
  BY <1>1 DEF LayoutOf
<1>3. n = MemAfter(m, a, b)
  BY DEF Step
<1>4. (\A x \in Addrs : x # a => n[x] = m[x]) /\ (a \in Addrs => n[a] = b)
  BY <1>2, <1>3, BlockAfter
<1>5. l \in Nat /\ l >= 1
  BY <1>2 DEF Ends, Addrs
<1>6. h \in Nat /\ h >= l
  BY <1>5 DEF Step, Outside, Inside, Growing
<1>7. Ends(n, h)
  BY DEF Step, LayoutOf
<1>. QED BY <1>2, <1>4, <1>5, <1>6, <1>7

(***************************************************************************)
(* An entry in use is the slot of a file.                                  *)
(***************************************************************************)
LEMMA ActiveSlotted ==
  ASSUME NEW m, NEW l, Ends(m, l), NEW a \in 1 .. l, m[a].active
  PROVE  Slotted(m, l, m[a].file, a)
<1>1. l \in Nat /\ a # l
  BY DEF Ends, Addrs
<1>2. a \in 1 .. l - 1
  BY <1>1
<1>3. m[a] \in Entries /\ m[a].last = FALSE
  BY <1>2 DEF Ends
<1>4. m[a].active = TRUE
  BY <1>3, EntryIs
<1>. QED BY <1>2, <1>3, <1>4 DEF Slotted

(***************************************************************************)
(* A file exists if it is in a slot.                                       *)
(***************************************************************************)
LEMMA HasSlotted ==
  ASSUME NEW m, NEW l, Ends(m, l), NEW f
  PROVE  Has(m, l, f) <=> \E k : Slotted(m, l, f, k)
<1>1. l \in Nat
  BY DEF Ends, Addrs
<1>2. ASSUME NEW k, Slotted(m, l, f, k)
      PROVE  Has(m, l, f)
  <2>1. k \in 1 .. l
    BY <1>1, <1>2 DEF Slotted
  <2>. QED BY <1>2, <2>1 DEF Has, Slotted
<1>3. ASSUME Has(m, l, f)
      PROVE  \E k : Slotted(m, l, f, k)
  <2>1. PICK a \in 1 .. l : m[a].active /\ m[a].file = f
    BY <1>3 DEF Has
  <2>. QED BY <2>1, ActiveSlotted
<1>. QED BY <1>2, <1>3

(***************************************************************************)
(* One, Known and what they give, by slots.                                *)
(***************************************************************************)
LEMMA OneOf ==
  ASSUME NEW m, NEW l, Ends(m, l),
         \A f, a, b : Slotted(m, l, f, a) /\ Slotted(m, l, f, b) => a = b
  PROVE  One(m, l)
<1> SUFFICES ASSUME NEW a \in 1 .. l, NEW b \in 1 .. l, m[a].active, m[b].active,
                    m[a].file = m[b].file
             PROVE  a = b
  BY DEF One
<1>1. Slotted(m, l, m[a].file, a) /\ Slotted(m, l, m[b].file, b)
  BY ActiveSlotted
<1>. QED BY <1>1

(***************************************************************************)
(* Known by slots.                                                         *)
(***************************************************************************)
LEMMA KnownOf ==
  ASSUME NEW m, NEW l, Ends(m, l),
         \A f, k : Slotted(m, l, f, k) =>
           f \in Files /\ \A c \in Nat : In(m[k], c) => m[c] \in Data
  PROVE  Known(m, l)
<1> SUFFICES ASSUME NEW a \in 1 .. l, m[a].active
             PROVE  m[a].file \in Files /\ \A c \in Nat : In(m[a], c) => m[c] \in Data
  BY DEF Known
<1>1. Slotted(m, l, m[a].file, a)
  BY ActiveSlotted
<1>. QED BY <1>1

(***************************************************************************)
(* What is known of the file in a slot.                                    *)
(***************************************************************************)
LEMMA KnownGives ==
  ASSUME NEW m, NEW l, Ends(m, l), Known(m, l), NEW f, NEW k, Slotted(m, l, f, k)
  PROVE  /\ f \in Files /\ k \in 1 .. l /\ k \in Nat
         /\ \A c \in Nat : In(m[k], c) => m[c] \in Data
<1>1. l \in Nat
  BY DEF Ends, Addrs
<1>2. k \in 1 .. l /\ k \in Nat
  BY <1>1 DEF Slotted
<1>. QED BY <1>2 DEF Known, Slotted

(***************************************************************************)
(* The blocks of a file are its own.                                       *)
(***************************************************************************)
LEMMA SlotFits ==
  ASSUME NEW m, NEW l, Ends(m, l), Apart(m, l), NEW f, NEW k, Slotted(m, l, f, k),
         NEW c \in Nat, In(m[k], c)
  PROVE  /\ c \in Addrs /\ c > l
         /\ \A g, j : Slotted(m, l, g, j) /\ j # k => ~In(m[j], c)
<1>1. l \in Nat
  BY DEF Ends, Addrs
<1>2. k \in 1 .. l
  BY <1>1 DEF Slotted
<1>3. Fits(m, l, k, m[k])
  BY <1>2 DEF Apart
<1>4. \A g, j : Slotted(m, l, g, j) => j \in 1 .. l
  BY <1>1 DEF Slotted
<1>. QED BY <1>3, <1>4 DEF Fits

(***************************************************************************)
(* The contents of an entry depend on its blocks alone.                    *)
(***************************************************************************)
LEMMA SameContent ==
  ASSUME NEW e, e \in Entries, e.active = TRUE, NEW m, NEW n,
         \A c \in Nat : In(e, c) => n[c] = m[c]
  PROVE  Content(e, n) = Content(e, m)
<1>1. e.start \in Nat /\ e.size \in Nat
  BY EntryIs
<1>2. ASSUME NEW i \in 1 .. e.size
      PROVE  n[e.start + i - 1] = m[e.start + i - 1]
  <2>1. PICK c \in Nat : c = e.start + i - 1
    BY <1>1
  <2>2. In(e, c)
    BY <1>1, <2>1 DEF In
  <2>. QED BY <2>1, <2>2
<1>. QED BY <1>2 DEF Content

(***************************************************************************)
(* Files not in S are what they were.                                      *)
(***************************************************************************)
Keep(m, l, n, h, S) ==
  \A f : f \notin S => \A x : FileAt(m, l, f, x) <=> FileAt(n, h, f, x)

(***************************************************************************)
(* For that their slots and their blocks must be.                          *)
(***************************************************************************)
LEMMA KeepFiles ==
  ASSUME NEW m, NEW l, NEW n, NEW h, NEW S,
         \A f, k : f \notin S => (Slotted(m, l, f, k) <=> Slotted(n, h, f, k)),
         \A f, k : f \notin S /\ Slotted(m, l, f, k) =>
            n[k] = m[k] /\ \A c \in Nat : In(m[k], c) => n[c] = m[c]
  PROVE  Keep(m, l, n, h, S)
<1>1. ASSUME NEW f, f \notin S, NEW k, Slotted(m, l, f, k)
      PROVE  Content(n[k], n) = Content(m[k], m)
  <2>1. m[k] \in Entries /\ m[k].active = TRUE
    BY <1>1 DEF Slotted
  <2>2. n[k] = m[k] /\ \A c \in Nat : In(m[k], c) => n[c] = m[c]
    BY <1>1
  <2>3. PICK e \in Entries : e = m[k] /\ e.active = TRUE
    BY <2>1
  <2>4. Content(e, n) = Content(e, m)
    BY <2>2, <2>3, SameContent
  <2>. QED BY <2>2, <2>3, <2>4
<1>. QED BY <1>1 DEF Keep, FileAt

(***************************************************************************)
(* The entry that ends a plan has its contents beyond the table.           *)
(***************************************************************************)
LEMMA LastFits ==
  ASSUME NEW m, NEW l, NEW t, NEW a, NEW b, NEW n, NEW h, Step(m, l, t, a, b, n, h),
         NEW k \in 1 .. l, NEW e, Last(t, k, e), e.active = TRUE
  PROVE  e \in Entries /\ \A c \in Nat : In(e, c) => c \in Addrs /\ c > l
<1>1. PICK c : Plan(m, l, t, c)
  BY StepGives
<1>2. l \in Nat /\ t # <<>>
  BY StepGives DEF Last
<1>3. PICK j, d : /\ t[Len(t)] = <<j, d>>
                  /\ \/ j \in Nat /\ j > l
                     \/ Suits(m, l, j, d)
                     \/ Grows(m, l, j, d) /\ Marked(m, l, t, c)
  BY <1>1, <1>2 DEF Plan, Final
<1>4. j = k /\ d = e
  BY <1>3 DEF Last, Put
<1>5. CASE Suits(m, l, k, e)
  BY <1>5 DEF Suits, Fits
<1>6. CASE Grows(m, l, k, e)
  <2>1. e \in Entries /\ e.size = 0 /\ e.start \in Nat
    BY <1>6, EntryIs DEF Grows
  <2>2. \A x \in Nat : ~In(e, x)
    BY <2>1 DEF In
  <2>. QED BY <2>1, <2>2
<1>. QED BY <1>2, <1>3, <1>4, <1>5, <1>6

(***************************************************************************)
(* A write that is not the last one keeps a plan for the contents: it is   *)
(* the one that was planned for its block.                                 *)
(***************************************************************************)
LEMMA PlannedStep ==
  ASSUME NEW m, NEW l, NEW t, NEW a, NEW b, NEW n, NEW h, Step(m, l, t, a, b, n, h),
         NEW k \in 1 .. l, NEW e, Last(t, k, e), e.active = TRUE,
         NEW x, Planned(m, t, e, x), Tail(t) # <<>>
  PROVE  Last(Tail(t), k, e) /\ Planned(n, Tail(t), e, x)
<1>1. IsTuple(t) /\ t # <<>> /\ t[1][1] = a /\ t[1][2] = b
  BY StepGives DEF Step
<1>2. PICK u : u = Tail(t)
  OBVIOUS
<1>3. /\ Len(t) \in Nat /\ Len(t) > 1 /\ IsTuple(u)
      /\ Len(u) = Len(t) - 1
      /\ u[Len(u)] = t[Len(t)]
      /\ \A i \in 1 .. Len(u) : u[i] = t[i + 1] /\ i + 1 \in 1 .. Len(t)
      /\ \A i \in 1 .. Len(u) - 1 : i + 1 \in 1 .. Len(t) - 1
  BY <1>1, <1>2, TailPlan
<1>4. Last(u, k, e)
  BY <1>2, <1>3 DEF Last
<1>5. e \in Entries /\ \A c \in Nat : In(e, c) => c \in Addrs /\ c > l
  BY LastFits
<1>6. e.start \in Nat /\ e.size \in Nat
  BY <1>5, EntryIs
<1>7. \A i \in 1 .. Len(u) - 1 : u[i] = t[i + 1] /\ i + 1 \in 1 .. Len(t) - 1
  BY <1>3
<1>8. \A i \in 1 .. Len(t) - 1 : i # 1 => i - 1 \in 1 .. Len(u) - 1 /\ u[i - 1] = t[i]
  <2> SUFFICES ASSUME NEW i \in 1 .. Len(t) - 1, i # 1
               PROVE  i - 1 \in 1 .. Len(u) - 1 /\ u[i - 1] = t[i]
    OBVIOUS
  <2>1. PICK j \in 1 .. Len(u) - 1 : j = i - 1
    BY <1>3
  <2>2. j + 1 = i
    BY <1>3, <2>1
  <2>3. u[j] = t[j + 1]
    BY <1>7
  <2>. QED BY <2>1, <2>2, <2>3
<1>9. (\A y \in Addrs : y # a => n[y] = m[y]) /\ (a \in Addrs => n[a] = b)
  BY StepGives
<1>10. ASSUME NEW j \in 1 .. e.size
       PROVE  /\ n[e.start + j - 1] = x[j] \/ Pending(u, e.start + j - 1, x[j])
              /\ \A i \in 1 .. Len(u) - 1 : u[i][1] = e.start + j - 1 => u[i][2] = x[j]
  <2>1. PICK c \in Nat : c = e.start + j - 1
    BY <1>6
  <2>2. In(e, c)
    BY <1>6, <2>1 DEF In
  <2>3. c \in Addrs
    BY <1>5, <2>2
  <2>4. m[c] = x[j] \/ Pending(t, c, x[j])
    BY <2>1 DEF Planned
  <2>5. \A i \in 1 .. Len(t) - 1 : t[i][1] = c => t[i][2] = x[j]
    BY <2>1 DEF Planned
  <2>6. \A i \in 1 .. Len(u) - 1 : u[i][1] = c => u[i][2] = x[j]
    BY <1>7, <2>5
  <2>7. CASE c = a
    <3>1. 1 \in 1 .. Len(t) - 1
      BY <1>3
    <3>2. b = x[j]
      BY <1>1, <2>5, <2>7, <3>1
    <3>. QED BY <1>9, <2>1, <2>3, <2>6, <2>7, <3>2
  <2>8. CASE c # a
    <3>1. n[c] = m[c]
      BY <1>9, <2>3, <2>8
    <3>2. ASSUME Pending(t, c, x[j])
          PROVE  Pending(u, c, x[j])
      <4>1. PICK i \in 1 .. Len(t) - 1 : t[i][1] = c /\ t[i][2] = x[j]
        BY <3>2 DEF Pending
      <4>2. i # 1
        BY <1>1, <2>8, <4>1
      <4>. QED BY <1>8, <4>1, <4>2 DEF Pending
    <3>. QED BY <2>1, <2>4, <2>6, <3>1, <3>2
  <2>. QED BY <2>7, <2>8
<1>11. Planned(n, u, e, x)
  BY <1>10 DEF Planned
<1>. QED BY <1>2, <1>4, <1>11

(***************************************************************************)
(* The last write.                                                         *)
(***************************************************************************)
LEMMA LastOne ==
  ASSUME NEW t, IsTuple(t), t # <<>>, Tail(t) = <<>>
  PROVE  Len(t) = 1
<1>1. Len(t) \in Nat \ {0} /\ Len(Tail(t)) = Len(t) - 1
  BY TupleNotEmpty, TupleTail
<1>2. Len(Tail(t)) = 0
  BY TupleEmpty
<1>3. \A x \in Nat : x - 1 = 0 => x = 1
  OBVIOUS
<1>4. Len(t) \in Nat /\ Len(t) - 1 = 0
  BY <1>1, <1>2
<1>. QED BY <1>3, <1>4

(***************************************************************************)
(* Nothing is left after it.                                               *)
(***************************************************************************)
LEMMA OneTail ==
  ASSUME NEW t, IsTuple(t), t # <<>>, Len(t) = 1
  PROVE  Tail(t) = <<>>
<1>1. IsTuple(Tail(t)) /\ Len(Tail(t)) = 0
  BY TupleTail
<1>. QED BY <1>1, TupleNotEmpty

(***************************************************************************)
(* Entry b is in slot a now.                                               *)
(***************************************************************************)
IsPlaced(l, a, b, n, h) ==
  /\ n[a] = b /\ b \in Entries /\ b.last = FALSE
  /\ b.active = TRUE => Slotted(n, h, b.file, a)
  /\ \A c \in Nat : In(b, c) => c \in Addrs /\ c > l /\ c # a

(***************************************************************************)
(* A write inside the table does that.                                     *)
(***************************************************************************)
LEMMA Placed ==
  ASSUME NEW m, NEW l, NEW t, NEW a, NEW b, NEW n, NEW h, Step(m, l, t, a, b, n, h),
         a \in 1 .. l
  PROVE  IsPlaced(l, a, b, n, h)
<1>1. l \in Nat /\ h \in Nat /\ h >= l /\ Ends(n, h)
  BY StepGives
<1>2. CASE Inside(m, l, t, a, b, n, h)
  <2>1. Suits(m, l, a, b) /\ n[a] = b /\ h = l
    BY <1>2 DEF Inside
  <2>2. b \in Entries /\ b.last = FALSE /\ a \in 1 .. l - 1
           /\ \A c \in Nat : In(b, c) => c \in Addrs /\ c > l
    BY <2>1 DEF Suits, Fits
  <2>3. \A c \in Nat : c > l => c # a
    BY <1>1
  <2>. QED BY <2>1, <2>2, <2>3 DEF Slotted, IsPlaced
<1>3. CASE Growing(m, l, t, a, b, n, h)
  <2>1. Grows(m, l, a, b) /\ n[a] = b /\ h = l + 1
    BY <1>3 DEF Growing
  <2>2. b \in Entries /\ b.last = FALSE /\ b.size = 0
    BY <2>1 DEF Grows
  <2>3. a \in 1 .. h - 1
    BY <1>1, <2>1
  <2>4. b.start \in Nat
    BY <2>2, EntryIs
  <2>5. \A c \in Nat : ~In(b, c)
    BY <2>2, <2>4 DEF In
  <2>. QED BY <2>1, <2>2, <2>3, <2>5 DEF Slotted, IsPlaced
<1>4. ~Outside(m, l, a, n, h)
  BY <1>1 DEF Outside
<1>. QED BY <1>2, <1>3, <1>4 DEF Step

(***************************************************************************)
(* And its contents are x.                                                 *)
(***************************************************************************)
HasContent(m, a, b, n, x) ==
  Content(n[a], n) = x /\ \A c \in Nat : In(b, c) => m[c] \in Data

(***************************************************************************)
(* The last write of a plan makes the contents what was planned.           *)
(***************************************************************************)
LEMMA PlannedIs ==
  ASSUME NEW m, NEW l, NEW t, NEW a, NEW b, NEW n, NEW h, Step(m, l, t, a, b, n, h),
         a \in 1 .. l, Len(t) = 1, b.active = TRUE, NEW x, Planned(m, t, b, x)
  PROVE  HasContent(m, a, b, n, x)
<1>1. /\ n[a] = b /\ b \in Entries
      /\ \A c \in Nat : In(b, c) => c \in Addrs /\ c > l /\ c # a
  <2>1. IsPlaced(l, a, b, n, h)
    BY Placed
  <2>. QED BY <2>1 DEF IsPlaced
<1>2. b.start \in Nat /\ b.size \in Nat
  BY <1>1, EntryIs
<1>3. \A y \in Addrs : y # a => n[y] = m[y]
  BY StepGives
<1>4. x \in Seq(Data) /\ Len(x) = b.size
  BY DEF Planned
<1>5. ASSUME NEW j \in 1 .. b.size
      PROVE  m[b.start + j - 1] = x[j] /\ n[b.start + j - 1] = x[j]
  <2>1. PICK c \in Nat : c = b.start + j - 1
    BY <1>2
  <2>2. In(b, c)
    BY <1>2, <2>1 DEF In
  <2>3. m[c] = x[j] \/ Pending(t, c, x[j])
    BY <2>1 DEF Planned
  <2>4. 1 .. Len(t) - 1 = {}
    OBVIOUS
  <2>5. m[c] = x[j]
    BY <2>3, <2>4 DEF Pending
  <2>6. n[c] = m[c]
    BY <1>1, <1>3, <2>2
  <2>. QED BY <2>1, <2>5, <2>6
<1>6. PICK y : y = Content(b, n)
  OBVIOUS
<1>7. IsTuple(y) /\ Len(y) = b.size /\ \A i \in 1 .. b.size : y[i] = n[b.start + i - 1]
  BY <1>2, <1>6, ContentIs
<1>8. IsTuple(x) /\ \A i \in 1 .. b.size : x[i] \in Data
  BY <1>4, SeqTuple
<1>9. y = x
  BY <1>4, <1>5, <1>7, <1>8, TupleEqual
<1>10. ASSUME NEW c \in Nat, In(b, c)
       PROVE  m[c] \in Data
  <2>1. PICK j \in 1 .. b.size : c = b.start + j - 1
    <3>1. c - b.start + 1 \in 1 .. b.size /\ c = b.start + (c - b.start + 1) - 1
      BY <1>2, <1>10 DEF In
    <3>. QED BY <3>1
  <2>. QED BY <1>5, <1>8, <2>1
<1>. QED BY <1>1, <1>6, <1>9, <1>10 DEF HasContent

(***************************************************************************)
(* What is due stays due, and is there in the end.                         *)
(***************************************************************************)
LEMMA DueStep ==
  ASSUME NEW m, NEW l, NEW t, NEW a, NEW b, NEW n, NEW h, Step(m, l, t, a, b, n, h),
         NEW f, NEW x, Due(m, l, t, f, x)
  PROVE  Due(n, h, Tail(t), f, x)
<1>1. IsTuple(t) /\ t # <<>> /\ t[1][1] = a /\ t[1][2] = b /\ l \in Nat /\ h \in Nat /\ h >= l
  <2>1. t # <<>> /\ t[1][1] = a /\ t[1][2] = b
    BY DEF Step
  <2>. QED BY <2>1, StepGives
<1>0. PICK k \in 1 .. l : \E e :
        Last(t, k, e) /\ e.active = TRUE /\ e.file = f /\ Planned(m, t, e, x)
  BY <1>1 DEF Due
<1>2. PICK e :
        Last(t, k, e) /\ e.active = TRUE /\ e.file = f /\ Planned(m, t, e, x)
  BY <1>0
<1>3. k \in 1 .. h
  BY <1>1
<1>4. CASE Tail(t) # <<>>
  BY <1>2, <1>3, <1>4, PlannedStep DEF Due
<1>5. CASE Tail(t) = <<>>
  <2>1. Len(t) = 1
    BY <1>1, <1>5, LastOne
  <2>2. k = a /\ e = b
    BY <1>1, <1>2, <2>1 DEF Last, Put
  <2>3. Slotted(n, h, f, a)
    <3>1. a \in 1 .. l
      BY <2>2
    <3>2. IsPlaced(l, a, b, n, h)
      BY <3>1, Placed
    <3>. QED BY <1>2, <2>2, <3>2 DEF IsPlaced
  <2>4. Content(n[a], n) = x
    <3>1. b.active = TRUE /\ Planned(m, t, b, x) /\ a \in 1 .. l
      BY <1>2, <2>2
    <3>2. HasContent(m, a, b, n, x)
      BY <2>1, <3>1, PlannedIs
    <3>. QED BY <3>2 DEF HasContent
  <2>. QED BY <1>5, <2>3, <2>4 DEF Due, FileAt
<1>. QED BY <1>4, <1>5

(***************************************************************************)
(* The table is as it was.                                                 *)
(***************************************************************************)
SameTable(m, l, n, h) == h = l /\ \A x \in 1 .. l : n[x] = m[x]

(***************************************************************************)
(* It is after a write beyond it.                                          *)
(***************************************************************************)
LEMMA Beyond ==
  ASSUME NEW m, NEW l, NEW t, NEW a \in Nat, NEW b, NEW n, NEW h,
         Step(m, l, t, a, b, n, h), a > l
  PROVE  SameTable(m, l, n, h)
<1>1. l \in Nat
  BY StepGives
<1>2. ~Inside(m, l, t, a, b, n, h) /\ ~Growing(m, l, t, a, b, n, h)
  BY <1>1 DEF Inside, Suits, Growing
<1>. QED BY <1>2 DEF Step, Outside, SameTable

(***************************************************************************)
(* Then so are the slots of files.                                         *)
(***************************************************************************)
LEMMA SameSlots ==
  ASSUME NEW m, NEW l \in Nat, NEW n, NEW h, SameTable(m, l, n, h)
  PROVE  \A f, k : /\ Slotted(m, l, f, k) <=> Slotted(n, h, f, k)
                   /\ Slotted(m, l, f, k) => n[k] = m[k]
<1>1. \A k \in 1 .. l - 1 : k \in 1 .. l
  OBVIOUS
<1>2. h = l /\ \A k \in 1 .. l - 1 : n[k] = m[k]
  BY <1>1 DEF SameTable
<1>. QED BY <1>2 DEF Slotted

(***************************************************************************)
(* What a step must leave of the files, if it changes those in S.          *)
(***************************************************************************)
FilesAfter(m, l, n, h, S) == One(n, h) /\ Known(n, h) /\ Keep(m, l, n, h, S)

(***************************************************************************)
(* A write to a block that belongs to no file changes no file.             *)
(***************************************************************************)
LEMMA QuietFiles ==
  ASSUME NEW m, NEW l, NEW t, NEW a \in Nat, NEW b, NEW n, NEW h,
         Step(m, l, t, a, b, n, h), a > l, \A x \in 1 .. l : ~In(m[x], a),
         One(m, l), Known(m, l)
  PROVE  FilesAfter(m, l, n, h, {})
<1>1. /\ l \in Nat /\ h \in Nat /\ Ends(m, l) /\ Ends(n, h) /\ Apart(m, l)
      /\ \A x \in Addrs : x # a => n[x] = m[x]
  BY StepGives
<1>2. SameTable(m, l, n, h)
  BY Beyond
<1>3. \A f, k : /\ Slotted(m, l, f, k) <=> Slotted(n, h, f, k)
                /\ Slotted(m, l, f, k) => n[k] = m[k]
  BY <1>1, <1>2, SameSlots
<1>4. ASSUME NEW f, NEW k, Slotted(m, l, f, k), NEW c \in Nat, In(m[k], c)
      PROVE  n[c] = m[c] /\ n[c] \in Data
  <2>1. c \in Addrs
    BY <1>1, <1>4, SlotFits
  <2>2. k \in 1 .. l /\ m[c] \in Data
    BY <1>1, <1>4, KnownGives
  <2>3. c # a
    BY <1>4, <2>2
  <2>. QED BY <1>1, <2>1, <2>2, <2>3
<1>5. One(n, h)
  BY <1>1, <1>3, OneOf, SameSlot
<1>6. Known(n, h)
  <2>1. \A f, k : Slotted(n, h, f, k) =>
           f \in Files /\ \A c \in Nat : In(n[k], c) => n[c] \in Data
    BY <1>1, <1>3, <1>4, KnownGives
  <2>. QED BY <1>1, <2>1, KnownOf
<1>7. Keep(m, l, n, h, {})
  BY <1>3, <1>4, KeepFiles
<1>. QED BY <1>5, <1>6, <1>7 DEF FilesAfter

(***************************************************************************)
(* All slots but a are what they were, and the blocks of their files too.  *)
(***************************************************************************)
Others(m, l, a, n, h) ==
  \A f, k : k # a =>
    /\ Slotted(m, l, f, k) <=> Slotted(n, h, f, k)
    /\ Slotted(m, l, f, k) => n[k] = m[k] /\ \A c \in Nat : In(m[k], c) => n[c] = m[c]

(***************************************************************************)
(* They are after a write of an entry.                                     *)
(***************************************************************************)
LEMMA OthersKept ==
  ASSUME NEW m, NEW l, NEW t, NEW a, NEW b, NEW n, NEW h,
         Step(m, l, t, a, b, n, h), a \in 1 .. l
  PROVE  Others(m, l, a, n, h)
<1>1. /\ l \in Nat /\ h \in Nat /\ Ends(m, l) /\ Ends(n, h) /\ Apart(m, l)
      /\ \A x \in Addrs : x # a => n[x] = m[x]
  BY StepGives
<1>2. ASSUME NEW f, NEW k, k # a
      PROVE  /\ Slotted(m, l, f, k) <=> Slotted(n, h, f, k)
             /\ Slotted(m, l, f, k) => n[k] = m[k]
  <2>1. CASE Inside(m, l, t, a, b, n, h)
    <3>1. h = l /\ \A x \in 1 .. l - 1 : x # a => n[x] = m[x]
      BY <1>1, <2>1 DEF Inside
    <3>. QED BY <1>2, <3>1 DEF Slotted
  <2>2. CASE Growing(m, l, t, a, b, n, h)
    <3>1. h = l + 1 /\ a = l /\ \A x \in 1 .. l - 1 : x # a => n[x] = m[x]
      BY <1>1, <2>2 DEF Growing
    <3>2. k \in 1 .. h - 1 <=> k \in 1 .. l - 1
      BY <1>1, <1>2, <3>1
    <3>. QED BY <1>2, <3>1, <3>2 DEF Slotted
  <2>3. ~Outside(m, l, a, n, h)
    BY <1>1 DEF Outside
  <2>. QED BY <2>1, <2>2, <2>3 DEF Step
<1>3. ASSUME NEW f, NEW k, Slotted(m, l, f, k), NEW c \in Nat, In(m[k], c)
      PROVE  n[c] = m[c]
  <2>1. c \in Addrs /\ c > l
    BY <1>1, <1>3, SlotFits
  <2>2. c # a
    BY <1>1, <2>1
  <2>. QED BY <1>1, <2>1, <2>2
<1>. QED BY <1>2, <1>3 DEF Others

(***************************************************************************)
(* A write of an entry for which the other names and its contents were     *)
(* provided changes the files it names.                                    *)
(***************************************************************************)
LEMMA ChangeFiles ==
  ASSUME NEW m, NEW l, NEW t, NEW a, NEW b, NEW n, NEW h,
         Step(m, l, t, a, b, n, h), a \in 1 .. l, One(m, l), Known(m, l),
         b.active = TRUE =>
           /\ b.file \in Files /\ \A c \in Nat : In(b, c) => m[c] \in Data
           /\ \A k : Slotted(m, l, b.file, k) => k = a,
         NEW S, \A f : f \notin S => ~Slotted(m, l, f, a) /\ ~Slotted(n, h, f, a)
  PROVE  FilesAfter(m, l, n, h, S)
<1>1. /\ l \in Nat /\ h \in Nat /\ Ends(m, l) /\ Ends(n, h) /\ Apart(m, l)
      /\ \A x \in Addrs : x # a => n[x] = m[x]
  BY StepGives
<1>2. Others(m, l, a, n, h)
  BY OthersKept
<1>3. IsPlaced(l, a, b, n, h)
  BY Placed
<1>4. Keep(m, l, n, h, S)
  <2>1. \A f, k : f \notin S => (Slotted(m, l, f, k) <=> Slotted(n, h, f, k))
    BY <1>2 DEF Others
  <2>2. \A f, k : f \notin S /\ Slotted(m, l, f, k) =>
            n[k] = m[k] /\ \A c \in Nat : In(m[k], c) => n[c] = m[c]
    BY <1>2 DEF Others
  <2>. QED BY <2>1, <2>2, KeepFiles
<1>5. ASSUME NEW f, Slotted(n, h, f, a)
      PROVE  b.active = TRUE /\ b.file = f
  <2>1. n[a] = b
    BY <1>3 DEF IsPlaced
  <2>. QED BY <1>5, <2>1 DEF Slotted
<1>6. One(n, h)
  <2>1. ASSUME NEW f, NEW x, NEW y, Slotted(n, h, f, x), Slotted(n, h, f, y)
        PROVE  x = y
    <3>1. CASE x # a /\ y # a
      BY <1>1, <1>2, <2>1, <3>1, SameSlot DEF Others
    <3>2. CASE x = a /\ y # a
      <4>1. b.active = TRUE /\ b.file = f
        BY <1>5, <2>1, <3>2
      <4>2. Slotted(m, l, f, y)
        BY <1>2, <2>1, <3>2 DEF Others
      <4>3. y = a
        BY <4>1, <4>2
      <4>. QED BY <3>2, <4>3
    <3>3. CASE x # a /\ y = a
      <4>1. b.active = TRUE /\ b.file = f
        BY <1>5, <2>1, <3>3
      <4>2. Slotted(m, l, f, x)
        BY <1>2, <2>1, <3>3 DEF Others
      <4>3. x = a
        BY <4>1, <4>2
      <4>. QED BY <3>3, <4>3
    <3>. QED BY <3>1, <3>2, <3>3
  <2>. QED BY <1>1, <2>1, OneOf
<1>7. Known(n, h)
  <2>1. ASSUME NEW f, NEW k, Slotted(n, h, f, k)
        PROVE  f \in Files /\ \A c \in Nat : In(n[k], c) => n[c] \in Data
    <3>1. CASE k # a
      <4>1. Slotted(m, l, f, k) /\ n[k] = m[k] /\ \A c \in Nat : In(m[k], c) => n[c] = m[c]
        BY <1>2, <2>1, <3>1 DEF Others
      <4>2. f \in Files /\ \A c \in Nat : In(m[k], c) => m[c] \in Data
        BY <1>1, <4>1, KnownGives
      <4>. QED BY <4>1, <4>2
    <3>2. CASE k = a
      <4>1. n[a] = b /\ \A c \in Nat : In(b, c) => c \in Addrs /\ c > l /\ c # a
        BY <1>3 DEF IsPlaced
      <4>2. b.active = TRUE /\ b.file = f
        BY <1>5, <2>1, <3>2
      <4>3. \A c \in Nat : In(b, c) => n[c] = m[c]
        BY <1>1, <4>1
      <4>. QED BY <3>2, <4>1, <4>2, <4>3
    <3>. QED BY <3>1, <3>2
  <2>. QED BY <1>1, <2>1, KnownOf
<1>. QED BY <1>4, <1>6, <1>7 DEF FilesAfter

-----------------------------------------------------------------------------
(***************************************************************************)
(* The five things a single write may do to the files: nothing, make one,  *)
(* give one new contents, remove one, rename one.                          *)
(***************************************************************************)
Made(m, l, n, h) ==
  \E f \in Files : ~Has(m, l, f) /\ FileAt(n, h, f, <<>>) /\ Keep(m, l, n, h, {f})

Changed(m, l, n, h) ==
  \E f \in Files : \E y, x :
    FileAt(m, l, f, y) /\ FileAt(n, h, f, x) /\ Goal(y, x) /\ Keep(m, l, n, h, {f})

Gone(m, l, n, h) ==
  \E f \in Files : Has(m, l, f) /\ ~Has(n, h, f) /\ Keep(m, l, n, h, {f})

Renamed(m, l, n, h) ==
  \E f, g \in Files : \E x :
    /\ f # g /\ FileAt(m, l, f, x) /\ ~Has(m, l, g)
    /\ FileAt(n, h, g, x) /\ ~Has(n, h, f) /\ Keep(m, l, n, h, {f, g})

Became(m, l, n, h) ==
  \/ Keep(m, l, n, h, {}) \/ Made(m, l, n, h) \/ Changed(m, l, n, h)
  \/ Gone(m, l, n, h) \/ Renamed(m, l, n, h)

(***************************************************************************)
(* One block of a file, written in place.                                  *)
(***************************************************************************)
IsPoked(e, m, n, pos, v) ==
  Content(e, n) = Store!Overlay(Content(e, m), pos, <<v>>)

(***************************************************************************)
(* It is a write of one block.                                             *)
(***************************************************************************)
LEMMA PokeContent ==
  ASSUME NEW e \in Entries, NEW m, NEW n, NEW pos \in Nat, pos < e.size, NEW v,
         NEW a, a = e.start + pos, n[a] = v,
         \A c \in Nat : c # a /\ In(e, c) => n[c] = m[c], e.active = TRUE
  PROVE  IsPoked(e, m, n, pos, v)
<1>1. e.start \in Nat /\ e.size \in Nat
  BY EntryIs
<1>2. PICK y : y = Content(e, m)
  OBVIOUS
<1>3. IsTuple(y) /\ Len(y) = e.size /\ \A i \in 1 .. e.size : y[i] = m[e.start + i - 1]
  BY <1>1, <1>2, ContentIs
<1>4. Len(<<v>>) = 1 /\ <<v>>[1] = v
  BY TupleOne
<1> DEFINE F(i) == IF i > pos /\ i <= pos + 1 THEN <<v>>[i - pos]
                   ELSE IF i <= Len(y) THEN y[i] ELSE Zero
<1>5. Store!Overlay(y, pos, <<v>>) = [i \in 1 .. e.size |-> F(i)]
  <2>1. (IF pos + Len(<<v>>) > Len(y) THEN pos + Len(<<v>>) ELSE Len(y)) = e.size
    BY <1>1, <1>3, <1>4
  <2>. QED BY <1>4, <2>1 DEF Store!Overlay
<1>6. ASSUME NEW i \in 1 .. e.size
      PROVE  n[e.start + i - 1] = F(i)
  <2>1. PICK c \in Nat : c = e.start + i - 1
    BY <1>1
  <2>2. CASE i = pos + 1
    <3>1. c = a
      BY <1>1, <2>1, <2>2
    <3>2. i > pos /\ i <= pos + 1 /\ i - pos = 1
      BY <2>2
    <3>3. F(i) = v
      BY <1>4, <3>2
    <3>. QED BY <2>1, <3>1, <3>3
  <2>3. CASE i # pos + 1
    <3>1. c # a /\ In(e, c)
      BY <1>1, <2>1, <2>3 DEF In
    <3>2. n[c] = m[c]
      BY <3>1
    <3>3. ~(i > pos /\ i <= pos + 1) /\ i <= Len(y)
      BY <1>1, <1>3, <2>3
    <3>4. F(i) = y[i]
      BY <3>3
    <3>. QED BY <1>3, <2>1, <3>2, <3>4
  <2>. QED BY <2>2, <2>3
<1> HIDE DEF F
<1>7. Content(e, n) = [i \in 1 .. e.size |-> F(i)]
  BY <1>6 DEF Content
<1>. QED BY <1>2, <1>5, <1>7 DEF IsPoked

(***************************************************************************)
(* A write in place changes its file alone, as one write of the store.     *)
(***************************************************************************)
LEMMA PokeStep ==
  ASSUME NEW m, NEW l, NEW t, NEW a, NEW b, NEW n, NEW h, Step(m, l, t, a, b, n, h),
         One(m, l), Known(m, l), Poke(m, l, t)
  PROVE  FilesOf(n, h, Tail(t)) /\ Became(m, l, n, h)
<1>1. /\ l \in Nat /\ h \in Nat /\ Ends(m, l) /\ Ends(n, h) /\ Apart(m, l) /\ IsTuple(t)
  BY StepGives
<1>2. (\A x \in Addrs : x # a => n[x] = m[x]) /\ (a \in Addrs => n[a] = b)
  BY StepGives
<1>3. t # <<>> /\ t[1][1] = a /\ t[1][2] = b
  BY DEF Step
<1>4. PICK f, k, v : \E pos \in 0 .. MaxLen :
       /\ Slotted(m, l, f, k) /\ pos < m[k].size
       /\ t[1] = Put(m[k].start + pos, v) /\ v \in Data /\ <<v>> \in SBufs
  BY DEF Poke
<1>5. PICK pos \in 0 .. MaxLen :
       /\ Slotted(m, l, f, k) /\ pos < m[k].size
       /\ t[1] = Put(m[k].start + pos, v) /\ v \in Data /\ <<v>> \in SBufs
  BY <1>4
<1>6. pos \in Nat
  BY RpmbFsAssumption
<1>7. PICK e \in Entries : e = m[k] /\ e.active = TRUE
  BY <1>5 DEF Slotted
<1>8. e.start \in Nat /\ e.size \in Nat
  BY EntryIs
<1>9. a = e.start + pos /\ b = v
  BY <1>3, <1>5, <1>7 DEF Put
<1>10. a \in Nat /\ In(e, a)
  BY <1>5, <1>6, <1>7, <1>8, <1>9 DEF In
<1>11. a \in Addrs /\ a > l /\ \A g, j : Slotted(m, l, g, j) /\ j # k => ~In(m[j], a)
  BY <1>1, <1>5, <1>7, <1>10, SlotFits
<1>12. SameTable(m, l, n, h)
  BY <1>10, <1>11, Beyond
<1>13. \A g, j : /\ Slotted(m, l, g, j) <=> Slotted(n, h, g, j)
                 /\ Slotted(m, l, g, j) => n[j] = m[j]
  BY <1>1, <1>12, SameSlots
<1>14. ASSUME NEW g, NEW j, Slotted(m, l, g, j), NEW c \in Nat, In(m[j], c)
       PROVE  c \in Addrs /\ (c # a => n[c] = m[c]) /\ n[c] \in Data
  <2>1. c \in Addrs
    BY <1>1, <1>14, SlotFits
  <2>2. m[c] \in Data
    BY <1>1, <1>14, KnownGives
  <2>3. c = a => n[c] \in Data
    BY <1>2, <1>5, <1>9, <1>11
  <2>. QED BY <1>2, <2>1, <2>2, <2>3
<1>15. One(n, h)
  BY <1>1, <1>13, OneOf, SameSlot
<1>16. Known(n, h)
  <2>1. \A g, j : Slotted(n, h, g, j) =>
           g \in Files /\ \A c \in Nat : In(n[j], c) => n[c] \in Data
    BY <1>1, <1>13, <1>14, KnownGives
  <2>. QED BY <1>1, <2>1, KnownOf
<1>17. Keep(m, l, n, h, {f})
  <2>1. ASSUME NEW g, NEW j, g \notin {f}, Slotted(m, l, g, j), NEW c \in Nat, In(m[j], c)
        PROVE  n[c] = m[c]
    <3>1. j # k
      BY <1>5, <2>1 DEF Slotted
    <3>2. c # a
      BY <1>11, <2>1, <3>1
    <3>. QED BY <1>14, <2>1, <3>2
  <2>. QED BY <1>13, <2>1, KeepFiles
<1>18. PICK y, x : y = Content(e, m) /\ x = Store!Overlay(y, pos, <<v>>)
  OBVIOUS
<1>19. Content(e, n) = x
  <2>1. \A c \in Nat : c # a /\ In(e, c) => n[c] = m[c]
    BY <1>5, <1>7, <1>14
  <2>2. n[a] = v
    BY <1>2, <1>9, <1>11
  <2>3. pos < e.size
    BY <1>5, <1>7
  <2>4. a = e.start + pos
    BY <1>9
  <2>5. IsPoked(e, m, n, pos, v)
    BY <1>6, <1>7, <2>1, <2>2, <2>3, <2>4, PokeContent
  <2>. QED BY <1>18, <2>5 DEF IsPoked
<1>20. FileAt(m, l, f, y) /\ FileAt(n, h, f, x)
  <2>1. FileAt(m, l, f, y)
    BY <1>5, <1>7, <1>18 DEF FileAt
  <2>2. Slotted(n, h, f, k) /\ n[k] = e
    BY <1>5, <1>7, <1>13
  <2>. QED BY <1>19, <2>1, <2>2 DEF FileAt
<1>21. Goal(y, x)
  BY <1>5, <1>18 DEF Goal
<1>22. f \in Files
  BY <1>1, <1>5, KnownGives
<1>23. Changed(m, l, n, h)
  BY <1>17, <1>20, <1>21, <1>22 DEF Changed
<1>24. Tail(t) = <<>>
  BY <1>1, <1>3, OneTail DEF Poke
<1>. QED BY <1>15, <1>16, <1>23, <1>24 DEF FilesOf, Kind, Became

(***************************************************************************)
(* New contents change nothing until the entry is written.                 *)
(***************************************************************************)
LEMMA ShiftStep ==
  ASSUME NEW m, NEW l, NEW t, NEW a, NEW b, NEW n, NEW h, Step(m, l, t, a, b, n, h),
         One(m, l), Known(m, l), Shift(m, l, t)
  PROVE  FilesOf(n, h, Tail(t)) /\ Became(m, l, n, h)
<1>1. /\ l \in Nat /\ h \in Nat /\ Ends(m, l) /\ Ends(n, h) /\ Apart(m, l) /\ IsTuple(t)
  BY StepGives
<1>2. t # <<>> /\ t[1][1] = a /\ t[1][2] = b
  BY DEF Step
<1>3. PICK f, k, e, x :
    /\ Slotted(m, l, f, k) /\ Last(t, k, e) /\ e.active = TRUE /\ e.file = f
    /\ Planned(m, t, e, x) /\ Goal(Content(m[k], m), x)
    /\ \A i \in 1 .. Len(t) - 1 :
         t[i][1] \in Nat /\ t[i][1] > l /\ \A c \in 1 .. l : ~In(m[c], t[i][1])
  BY DEF Shift
<1>4. f \in Files /\ k \in 1 .. l /\ k \in Nat
  BY <1>1, <1>3, KnownGives
<1>5. PICK y : y = Content(m[k], m)
  OBVIOUS
<1>6. FileAt(m, l, f, y)
  BY <1>3, <1>5 DEF FileAt
<1>7. CASE Tail(t) # <<>>
  <2>1. PICK u : u = Tail(t)
    OBVIOUS
  <2>2. Len(t) \in Nat /\ Len(t) > 1
    BY <1>1, <1>2, <1>7, TailPlan
  <2>3. \A i \in 1 .. Len(u) : u[i] = t[i + 1]
    BY <1>1, <1>2, <1>7, <2>1, TailPlan
  <2>4. \A i \in 1 .. Len(u) - 1 : i + 1 \in 1 .. Len(t) - 1
    BY <1>1, <1>2, <1>7, <2>1, TailPlan
  <2>5. Len(u) \in Nat
    BY <1>1, <1>2, <2>1, TupleTail, TupleHas
  <2>6. a \in Nat /\ a > l /\ \A c \in 1 .. l : ~In(m[c], a)
    <3>1. 1 \in 1 .. Len(t) - 1
      BY <2>2
    <3>. QED BY <1>2, <1>3, <3>1
  <2>7. FilesAfter(m, l, n, h, {}) /\ SameTable(m, l, n, h)
    BY <2>6, QuietFiles, Beyond
  <2>8. One(n, h) /\ Known(n, h) /\ Keep(m, l, n, h, {})
    BY <2>7 DEF FilesAfter
  <2>9. Slotted(n, h, f, k) /\ n[k] = m[k] /\ h = l /\ \A c \in 1 .. l : n[c] = m[c]
    BY <1>1, <1>3, <2>7, SameSlots DEF SameTable
  <2>10. Content(n[k], n) = y
    <3>1. FileAt(n, h, f, y)
      BY <1>6, <2>8 DEF Keep
    <3>2. PICK j : Slotted(n, h, f, j) /\ Content(n[j], n) = y
      BY <3>1 DEF FileAt
    <3>3. j = k
      BY <1>1, <2>8, <2>9, <3>2, SameSlot
    <3>. QED BY <3>2, <3>3
  <2>11. Last(u, k, e) /\ Planned(n, u, e, x)
    BY <1>3, <1>4, <1>7, <2>1, PlannedStep
  <2>12. \A i \in 1 .. Len(u) - 1 :
            u[i][1] \in Nat /\ u[i][1] > h /\ \A c \in 1 .. h : ~In(n[c], u[i][1])
    <3> SUFFICES ASSUME NEW i \in 1 .. Len(u) - 1
                 PROVE  u[i][1] \in Nat /\ u[i][1] > h /\ \A c \in 1 .. h : ~In(n[c], u[i][1])
      OBVIOUS
    <3>1. i + 1 \in 1 .. Len(t) - 1 /\ i \in 1 .. Len(u)
      BY <2>4, <2>5
    <3>2. u[i] = t[i + 1]
      BY <2>3, <3>1
    <3>. QED BY <1>3, <2>9, <3>1, <3>2
  <2>13. Shift(n, h, u)
    BY <1>3, <1>5, <2>9, <2>10, <2>11, <2>12 DEF Shift
  <2>. QED BY <2>1, <2>8, <2>13 DEF FilesOf, Kind, Became
<1>8. CASE Tail(t) = <<>>
  <2>1. Len(t) = 1
    BY <1>1, <1>2, <1>8, LastOne
  <2>2. k = a /\ e = b
    BY <1>2, <1>3, <2>1 DEF Last, Put
  <2>3. a \in 1 .. l /\ b.active = TRUE /\ b.file = f /\ Planned(m, t, b, x)
    BY <1>3, <1>4, <2>2
  <2>4. HasContent(m, a, b, n, x)
    BY <2>1, <2>3, PlannedIs
  <2>5. IsPlaced(l, a, b, n, h)
    BY <2>3, Placed
  <2>6. n[a] = b /\ Slotted(n, h, f, a)
    BY <2>3, <2>5 DEF IsPlaced
  <2>7. \A g : g \notin {f} => ~Slotted(m, l, g, a) /\ ~Slotted(n, h, g, a)
    BY <1>3, <2>2, <2>6 DEF Slotted
  <2>8. \A j : Slotted(m, l, b.file, j) => j = a
    BY <1>1, <1>3, <2>2, <2>3, SameSlot
  <2>9. \A c \in Nat : In(b, c) => m[c] \in Data
    BY <2>4 DEF HasContent
  <2>10. FilesAfter(m, l, n, h, {f})
    BY <1>4, <2>3, <2>7, <2>8, <2>9, ChangeFiles
  <2>11. FileAt(n, h, f, x)
    BY <2>4, <2>6 DEF FileAt, HasContent
  <2>12. Changed(m, l, n, h)
    BY <1>3, <1>4, <1>5, <1>6, <2>10, <2>11 DEF Changed, FilesAfter
  <2>. QED BY <1>8, <2>10, <2>12 DEF FilesOf, Kind, Became, FilesAfter
<1>. QED BY <1>7, <1>8

(***************************************************************************)
(* A cleared entry removes its file.                                       *)
(***************************************************************************)
LEMMA Dropped ==
  ASSUME NEW m, NEW l, NEW t, NEW a, NEW b, NEW n, NEW h, Step(m, l, t, a, b, n, h),
         One(m, l), Known(m, l), NEW f, Slotted(m, l, f, a), b = Cleared
  PROVE  FilesAfter(m, l, n, h, {f}) /\ ~Has(n, h, f) /\ Gone(m, l, n, h)
<1>1. /\ l \in Nat /\ h \in Nat /\ Ends(m, l) /\ Ends(n, h)
  BY StepGives
<1>2. f \in Files /\ a \in 1 .. l
  BY <1>1, KnownGives
<1>3. b.active = FALSE
  BY ClearedIs
<1>4. Others(m, l, a, n, h)
  BY <1>2, OthersKept
<1>5. n[a] = b
  <2>1. IsPlaced(l, a, b, n, h)
    BY <1>2, Placed
  <2>. QED BY <2>1 DEF IsPlaced
<1>6. \A g : ~Slotted(n, h, g, a)
  BY <1>3, <1>5 DEF Slotted
<1>7. \A g : g \notin {f} => ~Slotted(m, l, g, a) /\ ~Slotted(n, h, g, a)
  BY <1>6 DEF Slotted
<1>8. FilesAfter(m, l, n, h, {f})
  <2>1. ~(b.active = TRUE)
    BY <1>3
  <2>. QED BY <1>2, <1>7, <2>1, ChangeFiles
<1>9. ~Has(n, h, f)
  <2>1. ASSUME NEW j, Slotted(n, h, f, j) PROVE FALSE
    <3>1. j # a
      BY <1>6, <2>1
    <3>2. Slotted(m, l, f, j)
      BY <1>4, <2>1, <3>1 DEF Others
    <3>3. j = a
      BY <1>1, <3>2, SameSlot
    <3>. QED BY <3>1, <3>3
  <2>. QED BY <1>1, <2>1, HasSlotted
<1>10. Has(m, l, f)
  BY <1>1, HasSlotted
<1>. QED BY <1>2, <1>8, <1>9, <1>10 DEF Gone, FilesAfter

(***************************************************************************)
(* A removal is that.                                                      *)
(***************************************************************************)
LEMMA DropStep ==
  ASSUME NEW m, NEW l, NEW t, NEW a, NEW b, NEW n, NEW h, Step(m, l, t, a, b, n, h),
         One(m, l), Known(m, l), Drop(m, l, t)
  PROVE  FilesOf(n, h, Tail(t)) /\ Became(m, l, n, h)
<1>1. IsTuple(t) /\ Len(t) = 1
  BY StepGives DEF Drop
<1>2. t # <<>> /\ t[1][1] = a /\ t[1][2] = b
  BY DEF Step
<1>3. PICK f, k : Slotted(m, l, f, k) /\ t[1] = Put(k, Cleared)
  BY DEF Drop
<1>4. a = k /\ b = Cleared
  BY <1>2, <1>3 DEF Put
<1>5. FilesAfter(m, l, n, h, {f}) /\ Gone(m, l, n, h)
  BY <1>3, <1>4, Dropped
<1>6. Tail(t) = <<>>
  BY <1>1, <1>2, OneTail
<1>. QED BY <1>5, <1>6 DEF FilesOf, Kind, Became, FilesAfter

(***************************************************************************)
(* A slot cleared that is not in use changes no file.                      *)
(***************************************************************************)
LEMMA BlankStep ==
  ASSUME NEW m, NEW l, NEW t, NEW a, NEW b, NEW n, NEW h, Step(m, l, t, a, b, n, h),
         One(m, l), Known(m, l), Blank(m, l, t)
  PROVE  FilesOf(n, h, Tail(t)) /\ Became(m, l, n, h)
<1>1. IsTuple(t) /\ Len(t) = 1
  BY StepGives DEF Blank
<1>2. t # <<>> /\ t[1][1] = a /\ t[1][2] = b
  BY DEF Step
<1>3. PICK k : FreeIs(m, l, k) /\ t[1] = Put(k, Cleared)
  BY DEF Blank
<1>4. a = k /\ b = Cleared
  BY <1>2, <1>3 DEF Put
<1>5. a \in 1 .. l /\ m[a].active = FALSE /\ b.active = FALSE
  BY <1>3, <1>4, ClearedIs DEF FreeIs
<1>6. n[a] = b
  <2>1. IsPlaced(l, a, b, n, h)
    BY <1>5, Placed
  <2>. QED BY <2>1 DEF IsPlaced
<1>7. \A f : f \notin {} => ~Slotted(m, l, f, a) /\ ~Slotted(n, h, f, a)
  BY <1>5, <1>6 DEF Slotted
<1>8. FilesAfter(m, l, n, h, {})
  <2>1. ~(b.active = TRUE)
    BY <1>5
  <2>. QED BY <1>5, <1>7, <2>1, ChangeFiles
<1>9. Tail(t) = <<>>
  BY <1>1, <1>2, OneTail
<1>. QED BY <1>8, <1>9 DEF FilesOf, Kind, Became, FilesAfter

(***************************************************************************)
(* The second of two writes.                                               *)
(***************************************************************************)
LEMMA TwoTail ==
  ASSUME NEW t, IsTuple(t), t # <<>>, Len(t) = 2, NEW k, NEW e, Last(t, k, e)
  PROVE  Len(Tail(t)) = 1 /\ Last(Tail(t), k, e) /\ Tail(t) # <<>>
<1>1. PICK u : u = Tail(t)
  OBVIOUS
<1>2. IsTuple(u) /\ Len(u) = Len(t) - 1 /\ \A i \in 1 .. Len(t) - 1 : u[i] = t[i + 1]
  BY <1>1, TupleTail
<1>3. Len(u) = 1
  BY <1>2
<1>4. u[1] = t[2]
  BY <1>2
<1>5. u # <<>>
  BY <1>3, TupleEmpty
<1>. QED BY <1>1, <1>3, <1>4, <1>5 DEF Last

(***************************************************************************)
(* A new end of the table changes nothing, a new entry makes an empty      *)
(* file.                                                                   *)
(***************************************************************************)
LEMMA MakeStep ==
  ASSUME NEW m, NEW l, NEW t, NEW a, NEW b, NEW n, NEW h, Step(m, l, t, a, b, n, h),
         One(m, l), Known(m, l), Make(m, l, t)
  PROVE  FilesOf(n, h, Tail(t)) /\ Became(m, l, n, h)
<1>1. /\ l \in Nat /\ h \in Nat /\ Ends(m, l) /\ Ends(n, h) /\ Apart(m, l) /\ IsTuple(t)
  BY StepGives
<1>2. t # <<>> /\ t[1][1] = a /\ t[1][2] = b
  BY DEF Step
<1>0. PICK f \in Files : \E k, e :
    /\ ~Has(m, l, f) /\ FreeIs(m, l, k) /\ e = NewEntry(f) /\ Last(t, k, e)
    /\ \/ Len(t) = 1
       \/ Len(t) = 2 /\ t[1] = Put(l + 1, LastEntry) /\ k = l /\ Spare(m, l)
  BY DEF Make
<1>3. PICK k, e :
    /\ ~Has(m, l, f) /\ FreeIs(m, l, k) /\ e = NewEntry(f) /\ Last(t, k, e)
    /\ \/ Len(t) = 1
       \/ Len(t) = 2 /\ t[1] = Put(l + 1, LastEntry) /\ k = l /\ Spare(m, l)
  BY <1>0
<1>4. k \in 1 .. l /\ m[k].active = FALSE
  BY <1>3 DEF FreeIs
<1>5. \A j : ~Slotted(m, l, f, j)
  BY <1>1, <1>3, HasSlotted
<1>6. e \in Entries /\ e.file = f /\ e.active = TRUE /\ e.size = 0
  BY <1>3, NewEntryIs
<1>7. CASE Len(t) = 1
  <2>1. k = a /\ e = b
    BY <1>2, <1>3, <1>7 DEF Last, Put
  <2>2. a \in 1 .. l /\ b.active = TRUE /\ b.file = f /\ b.size = 0 /\ m[a].active = FALSE
    BY <1>4, <1>6, <2>1
  <2>3. IsPlaced(l, a, b, n, h)
    BY <2>2, Placed
  <2>4. n[a] = b /\ Slotted(n, h, f, a)
    BY <2>2, <2>3 DEF IsPlaced
  <2>5. \A g : g \notin {f} => ~Slotted(m, l, g, a) /\ ~Slotted(n, h, g, a)
    BY <2>2, <2>4 DEF Slotted
  <2>6. \A c \in Nat : In(b, c) => m[c] \in Data
    <3>1. b.start \in Nat
      BY <1>6, <2>1, EntryIs
    <3>. QED BY <2>2, <3>1 DEF In
  <2>7. \A j : Slotted(m, l, b.file, j) => j = a
    BY <1>5, <2>2
  <2>8. FilesAfter(m, l, n, h, {f})
    BY <2>2, <2>5, <2>6, <2>7, ChangeFiles
  <2>9. Content(b, n) = <<>>
    <3>1. PICK x : x = Content(b, n)
      OBVIOUS
    <3>2. IsTuple(x) /\ Len(x) = 0
      BY <2>2, <3>1, ContentIs
    <3>. QED BY <3>1, <3>2, TupleNotEmpty
  <2>10. FileAt(n, h, f, <<>>)
    BY <2>4, <2>9 DEF FileAt
  <2>11. Made(m, l, n, h)
    BY <1>3, <2>8, <2>10 DEF Made, FilesAfter
  <2>12. Tail(t) = <<>>
    BY <1>1, <1>2, <1>7, OneTail
  <2>. QED BY <2>8, <2>11, <2>12 DEF FilesOf, Kind, Became, FilesAfter
<1>8. CASE Len(t) = 2 /\ t[1] = Put(l + 1, LastEntry) /\ k = l /\ Spare(m, l)
  <2>1. a = l + 1
    BY <1>2, <1>8 DEF Put
  <2>2. a \in Nat /\ a > l /\ \A x \in 1 .. l : ~In(m[x], a)
    BY <1>1, <1>8, <2>1 DEF Spare
  <2>3. FilesAfter(m, l, n, h, {}) /\ SameTable(m, l, n, h)
    BY <2>2, QuietFiles, Beyond
  <2>4. \A j : ~Slotted(n, h, f, j)
    BY <1>1, <1>5, <2>3, SameSlots
  <2>5. ~Has(n, h, f)
    BY <1>1, <2>4, HasSlotted
  <2>6. FreeIs(n, h, k)
    BY <1>4, <2>3 DEF SameTable, FreeIs
  <2>7. Len(Tail(t)) = 1 /\ Last(Tail(t), k, e)
    BY <1>1, <1>2, <1>3, <1>8, TwoTail
  <2>8. Make(n, h, Tail(t))
    BY <1>3, <2>5, <2>6, <2>7 DEF Make
  <2>. QED BY <2>3, <2>8 DEF FilesOf, Kind, Became, FilesAfter
<1>. QED BY <1>3, <1>7, <1>8

(***************************************************************************)
(* A rename removes the file in its way first, and then is one change.     *)
(***************************************************************************)
LEMMA NameStep ==
  ASSUME NEW m, NEW l, NEW t, NEW a, NEW b, NEW n, NEW h, Step(m, l, t, a, b, n, h),
         One(m, l), Known(m, l), Name(m, l, t)
  PROVE  FilesOf(n, h, Tail(t)) /\ Became(m, l, n, h)
<1>1. /\ l \in Nat /\ h \in Nat /\ Ends(m, l) /\ Ends(n, h) /\ Apart(m, l) /\ IsTuple(t)
  BY StepGives
<1>2. t # <<>> /\ t[1][1] = a /\ t[1][2] = b
  BY DEF Step
<1>0. PICK g \in Files : \E f, k, e :
    /\ Slotted(m, l, f, k) /\ g # f /\ e = RenamedE(m[k], g) /\ Last(t, k, e)
    /\ \/ Len(t) = 1 /\ ~Has(m, l, g)
       \/ Len(t) = 2 /\ \E j : Slotted(m, l, g, j) /\ t[1] = Put(j, Cleared)
  BY DEF Name
<1>3. PICK f, k, e :
    /\ Slotted(m, l, f, k) /\ g # f /\ e = RenamedE(m[k], g) /\ Last(t, k, e)
    /\ \/ Len(t) = 1 /\ ~Has(m, l, g)
       \/ Len(t) = 2 /\ \E j : Slotted(m, l, g, j) /\ t[1] = Put(j, Cleared)
  BY <1>0
<1>4. f \in Files /\ k \in 1 .. l
  BY <1>1, <1>3, KnownGives
<1>5. PICK d \in Entries : d = m[k] /\ d.active = TRUE /\ d.file = f
  BY <1>3 DEF Slotted
<1>6. e.file = g /\ e.active = TRUE /\ e.start = d.start /\ e.size = d.size
  <2>1. IsRenamed(e, m[k], g)
    BY <1>1, <1>3, RenamedSuits
  <2>. QED BY <1>5, <2>1 DEF IsRenamed
<1>7. CASE Len(t) = 1 /\ ~Has(m, l, g)
  <2>1. k = a /\ e = b
    BY <1>2, <1>3, <1>7 DEF Last, Put
  <2>2. /\ a \in 1 .. l /\ b.active = TRUE /\ b.file = g /\ d = m[a]
        /\ b.start = d.start /\ b.size = d.size
    BY <1>4, <1>5, <1>6, <2>1
  <2>3. IsPlaced(l, a, b, n, h)
    BY <2>2, Placed
  <2>4. n[a] = b /\ Slotted(n, h, g, a)
    BY <2>2, <2>3 DEF IsPlaced
  <2>5. \A s : s \notin {f, g} => ~Slotted(m, l, s, a) /\ ~Slotted(n, h, s, a)
    BY <1>5, <2>2, <2>4 DEF Slotted
  <2>6. \A c \in Nat : In(b, c) <=> In(d, c)
    BY <1>5, <2>2 DEF In
  <2>7. \A c \in Nat : In(b, c) => m[c] \in Data
    BY <1>1, <1>3, <2>1, <2>2, <2>6, KnownGives
  <2>8. \A j : ~Slotted(m, l, g, j)
    BY <1>1, <1>7, HasSlotted
  <2>9. FilesAfter(m, l, n, h, {f, g})
    <3>1. \A j : Slotted(m, l, b.file, j) => j = a
      BY <2>2, <2>8
    <3>2. b.file \in Files
      BY <2>2
    <3>. QED BY <2>2, <2>5, <2>7, <3>1, <3>2, ChangeFiles
  <2>10. PICK x : x = Content(d, m)
    OBVIOUS
  <2>11. FileAt(m, l, f, x)
    BY <1>3, <1>5, <2>10 DEF FileAt
  <2>12. Content(b, n) = x
    <3>1. \A c \in Nat : In(d, c) => n[c] = m[c]
      <4>1. \A c \in Addrs : c # a => n[c] = m[c]
        BY StepGives
      <4>2. \A c \in Nat : In(b, c) => c \in Addrs /\ c # a
        BY <2>3 DEF IsPlaced
      <4>. QED BY <2>6, <4>1, <4>2
    <3>2. Content(d, n) = Content(d, m)
      BY <1>5, <3>1, SameContent
    <3>3. Content(b, n) = Content(d, n)
      BY <2>2 DEF Content
    <3>. QED BY <2>10, <3>2, <3>3
  <2>13. FileAt(n, h, g, x)
    BY <2>4, <2>12 DEF FileAt
  <2>14. ~Has(n, h, f)
    <3>1. ASSUME NEW j, Slotted(n, h, f, j) PROVE FALSE
      <4>1. j # a
        BY <1>3, <2>2, <2>4, <3>1 DEF Slotted
      <4>2. Others(m, l, a, n, h)
        BY <2>2, OthersKept
      <4>3. Slotted(m, l, f, j)
        BY <3>1, <4>1, <4>2 DEF Others
      <4>4. j = a
        BY <1>1, <1>3, <2>1, <4>3, SameSlot
      <4>. QED BY <4>1, <4>4
    <3>. QED BY <1>1, <3>1, HasSlotted
  <2>15. Renamed(m, l, n, h)
    BY <1>3, <1>4, <1>7, <2>9, <2>11, <2>13, <2>14 DEF Renamed, FilesAfter
  <2>16. Tail(t) = <<>>
    BY <1>1, <1>2, <1>7, OneTail
  <2>. QED BY <2>9, <2>15, <2>16 DEF FilesOf, Kind, Became, FilesAfter
<1>8. ASSUME Len(t) = 2, NEW j, Slotted(m, l, g, j), t[1] = Put(j, Cleared)
      PROVE  FilesOf(n, h, Tail(t)) /\ Became(m, l, n, h)
  <2>1. a = j /\ b = Cleared
    BY <1>2, <1>8 DEF Put
  <2>2. FilesAfter(m, l, n, h, {g}) /\ ~Has(n, h, g) /\ Gone(m, l, n, h)
    BY <1>8, <2>1, Dropped
  <2>3. a \in 1 .. l
    BY <1>1, <1>8, <2>1, KnownGives
  <2>4. k # a
    BY <1>3, <1>8, <2>1 DEF Slotted
  <2>5. Slotted(n, h, f, k) /\ n[k] = m[k]
    <3>1. Others(m, l, a, n, h)
      BY <2>3, OthersKept
    <3>. QED BY <1>3, <2>4, <3>1 DEF Others
  <2>6. Len(Tail(t)) = 1 /\ Last(Tail(t), k, e)
    BY <1>1, <1>2, <1>3, <1>8, TwoTail
  <2>7. Name(n, h, Tail(t))
    BY <1>3, <2>2, <2>5, <2>6 DEF Name
  <2>. QED BY <2>2, <2>7 DEF FilesOf, Kind, Became, FilesAfter
<1>. QED BY <1>3, <1>7, <1>8

(***************************************************************************)
(* So every write does one thing to the files and leaves a plan.           *)
(***************************************************************************)
LEMMA KindStep ==
  ASSUME NEW m, NEW l, NEW t, NEW a, NEW b, NEW n, NEW h, Step(m, l, t, a, b, n, h),
         FilesOf(m, l, t)
  PROVE  FilesOf(n, h, Tail(t)) /\ Became(m, l, n, h)
<1>1. One(m, l) /\ Known(m, l) /\ Kind(m, l, t) /\ t # <<>>
  BY DEF FilesOf, Step
<1>2. \/ Poke(m, l, t) \/ Shift(m, l, t) \/ Drop(m, l, t) \/ Blank(m, l, t)
      \/ Make(m, l, t) \/ Name(m, l, t)
  BY <1>1 DEF Kind
<1>3. CASE Poke(m, l, t)
  BY <1>1, <1>3, PokeStep
<1>4. CASE Shift(m, l, t)
  BY <1>1, <1>4, ShiftStep
<1>5. CASE Drop(m, l, t)
  BY <1>1, <1>5, DropStep
<1>6. CASE Make(m, l, t)
  BY <1>1, <1>6, MakeStep
<1>7. CASE Name(m, l, t)
  BY <1>1, <1>7, NameStep
<1>8. CASE Blank(m, l, t)
  BY <1>1, <1>8, BlankStep
<1>. QED BY <1>2, <1>3, <1>4, <1>5, <1>6, <1>7, <1>8

(***************************************************************************)
(* WriteBlock preserves the invariant for the files.                       *)
(***************************************************************************)
LEMMA WriteBlockStep ==
  ASSUME LInv, CInv, WriteBlock, stage # "cut"
  PROVE  CInv' /\ Became(mem, LastAddr(mem), mem', LastAddr(mem'))
<1>1. PICK l, h, a, b, n, t : /\ l = LastAddr(mem) /\ h = LastAddr(mem')
                        /\ a = todo[1][1] /\ b = todo[1][2] /\ n = mem' /\ t = todo
  OBVIOUS
<1>2. LayoutOf(mem, l, cache, t)
  BY <1>1 DEF LInv, Left
<1>3. LayoutOf(n, h, cache', Tail(t))
  BY <1>1, WriteBlockKind
<1>4. /\ todo # <<>> /\ todo' = Tail(todo) /\ op' = op /\ stage' = stage
  BY WriteBlockKind
<1>5. n = MemAfter(mem, a, b)
  BY <1>1, WriteBlockKind
<1>6. \/ Outside(mem, l, a, n, h)
      \/ Inside(mem, l, t, a, b, n, h)
      \/ Growing(mem, l, t, a, b, n, h)
  BY <1>1, WriteBlockKind
<1>7. Step(mem, l, t, a, b, n, h)
  BY <1>1, <1>2, <1>3, <1>4, <1>5, <1>6 DEF Step
<1>8. FilesOf(mem, l, t) /\ Progress(mem, l, t, op, stage)
  BY <1>1 DEF CInv, Left
<1>9. FilesOf(n, h, Tail(t)) /\ Became(mem, l, n, h)
  BY <1>7, <1>8, KindStep
<1>10. \A f, x : Due(mem, l, t, f, x) => Due(n, h, Tail(t), f, x)
  BY <1>7, DueStep
<1>11. Progress(n, h, Tail(t), op, stage)
  BY <1>8, <1>10 DEF Progress
<1>. QED BY <1>1, <1>4, <1>9, <1>11 DEF CInv, Left

(***************************************************************************)
(* Steps that write nothing preserve it if what they plan is a plan of     *)
(* some kind.                                                              *)
(***************************************************************************)
LEMMA NewFiles ==
  ASSUME CInv, NEW l, l = LastAddr(mem), mem' = mem,
         stage' # "cut" => Kind(mem, l, todo'),
         Progress(mem, l, todo', op', stage')
  PROVE  CInv'
<1>1. LastAddr(mem') = l
  OBVIOUS
<1>2. Kind(mem, l, Left')
  BY DEF Kind, Left
<1>. QED BY <1>1, <1>2 DEF CInv, FilesOf

(***************************************************************************)
(* Operations other than creations.                                        *)
(***************************************************************************)
LEMMA NoProgress ==
  ASSUME NEW m, NEW l, NEW t, NEW o, NEW s, o.kind # "create"
  PROVE  Progress(m, l, t, o, s)
BY DEF Progress

(***************************************************************************)
(* Every call begins with such a plan.                                     *)
(***************************************************************************)
LEMMA CallFiles ==
  ASSUME LInv, CInv, "leftover" \notin Allow, Call
  PROVE  CInv' /\ mem' = mem
<1>0. PICK l : l = LastAddr(mem)
  OBVIOUS
<1>1. l \in Nat /\ Apart(mem, l) /\ LastAddr(Table) = l
  BY <1>0, LInvGives
<1>2. One(mem, l) /\ Known(mem, l) /\ (stage # "cut" => Kind(mem, l, todo))
        /\ Progress(mem, l, todo, op, stage)
  BY <1>0 DEF CInv, FilesOf, Left
<1>3. CASE CallCreate
  <2>1. PICK n \in Names, x \in Contents, over \in BOOLEAN :
          /\ (Exists(Tmp(n)) => "leftover" \in Allow)
          /\ OpenFile(OpOf("create", Tmp(n), x, over))
    BY <1>3 DEF CallCreate
  <2>2. PICK o : o = OpOf("create", Tmp(n), x, over)
    OBVIOUS
  <2>3. o.file = Tmp(n) /\ Tmp(n) \in Files
    BY <2>2, FileNames DEF OpOf
  <2>4. op'.file = Tmp(n) /\ op'.slot = IF Exists(Tmp(n)) THEN SlotOf(Tmp(n)) ELSE Free
    BY <2>1, <2>2, OpenOp
  <2>5. OpenDoes(mem, l, o.file, op'.slot, todo', stage') /\ mem' = mem
    BY <1>0, <2>1, <2>2, <2>3, <2>4, OpenLayout
  <2>6. ~Has(mem, l, Tmp(n))
    BY <1>0, <2>1, ExistsIs
  <2>7. PICK f \in Files : f = Tmp(n)
    BY <2>3
  <2>11. PICK j, t, s : j = op'.slot /\ t = todo' /\ s = stage'
    OBVIOUS
  <2>12. OpenDoes(mem, l, f, j, t, s)
    BY <2>3, <2>5, <2>7, <2>11
  <2>13. Kind(mem, l, t) /\ (s = "open" => Due(mem, l, t, f, <<>>))
    BY <1>1, <2>6, <2>7, <2>12, OpenKind
  <2>8. Kind(mem, l, todo') /\ (stage' = "open" => Due(mem, l, todo', f, <<>>))
    BY <2>11, <2>13
  <2>9. stage' \in {"open", "fail", "full"}
    BY <2>5 DEF OpenDoes
  <2>10. Progress(mem, l, todo', op', stage')
    BY <2>4, <2>7, <2>8, <2>9 DEF Progress
  <2>. QED BY <1>0, <2>5, <2>8, <2>10, NewFiles
<1>4. CASE CallRawOpen
  <2>1. PICK n \in Names :
          OpenFile(OpOf("raw", Obj(n), <<>>, FALSE))
    BY <1>4 DEF CallRawOpen
  <2>2. PICK o : o = OpOf("raw", Obj(n), <<>>, FALSE)
    OBVIOUS
  <2>3. o.file = Obj(n) /\ Obj(n) \in Files
    BY <2>2, FileNames DEF OpOf
  <2>4. /\ op'.file = Obj(n) /\ op'.kind = "raw"
        /\ op'.slot = IF Exists(Obj(n)) THEN SlotOf(Obj(n)) ELSE Free
    <3>1. PICK g, x, v : g = Obj(n) /\ x = <<>> /\ v = FALSE
      OBVIOUS
    <3>2. o = OpOf("raw", g, x, v) /\ OpenFile(o)
      BY <2>1, <2>2, <3>1
    <3>3. op'.kind = "raw" /\ op'.file = g
            /\ op'.slot = IF Exists(g) THEN SlotOf(g) ELSE Free
      BY <3>2, OpenOp
    <3>. QED BY <3>1, <3>3
  <2>5. OpenDoes(mem, l, o.file, op'.slot, todo', stage') /\ mem' = mem
    BY <1>0, <2>1, <2>2, <2>3, <2>4, OpenLayout
  <2>6. PICK f \in Files : f = o.file
    BY <2>3
  <2>7. Kind(mem, l, todo')
    <3>1. PICK j, t, s : j = op'.slot /\ t = todo' /\ s = stage'
      OBVIOUS
    <3>2. OpenDoes(mem, l, f, j, t, s)
      BY <2>5, <2>6, <3>1
    <3>3. Kind(mem, l, t)
      BY <1>1, <3>2, OpenKind
    <3>. QED BY <3>1, <3>3
  <2>8. op'.kind # "create"
    BY <2>4
  <2>. QED BY <1>0, <2>5, <2>7, <2>8, NoProgress, NewFiles
<1>5. CASE CallWrite
  <2>1. PICK n \in Names, pos \in 0 .. MaxLen, buf \in Bufs :
          /\ Exists(Obj(n)) /\ op' = OpOf("write", Obj(n), buf, FALSE)
          /\ \/ Len(buf) = 1
             \/ pos + Len(buf) >= Entry(SlotOf(Obj(n))).size
             \/ "overwrite" \in Allow
          /\ WriteFile(Obj(n), pos, buf, "only")
    BY <1>5 DEF CallWrite
  <2>2. pos \in Nat /\ IsTuple(buf) /\ buf \in Seq(Vals)
    BY RpmbFsAssumption, BufIs
  <2>3. PICK f : f = Obj(n)
    OBVIOUS
  <2>4. /\ WriteDoes(mem, l, f, pos, buf, "only", todo', stage')
        /\ mem' = mem
    BY <1>0, <2>1, <2>2, <2>3, WriteFileDoes
  <2>5. Slotted(mem, l, f, SlotOf(f)) /\ Entry(SlotOf(f)) = mem[SlotOf(f)]
    BY <1>0, <2>1, <2>3, SlotGives
  <2>6. \A k : Slotted(mem, l, f, k) => k = SlotOf(f)
    BY <1>1, <1>2, <2>5, SameSlot
  <2>7. \A k : Slotted(mem, l, f, k) => \/ Len(buf) = 1
                                        \/ pos + Len(buf) >= mem[k].size
                                        \/ "overwrite" \in Allow
    BY <2>1, <2>3, <2>5, <2>6
  <2>8. buf \in SBufs
    BY DEF SBufs
  <2>9. Kind(mem, l, todo')
    BY <1>1, <1>2, <2>2, <2>4, <2>7, <2>8, WriteKind
  <2>10. op'.kind # "create"
    BY <2>1 DEF OpOf
  <2>. QED BY <1>0, <2>4, <2>9, <2>10, NoProgress, NewFiles
<1>6. CASE CallTruncate
  <2>1. PICK n \in Names, len \in 0 .. MaxLen :
              TruncateDoes(mem, l, Obj(n), len, todo')
    BY <1>0, <1>6, CallTruncateDoes
  <2>2. (op' # None => op'.kind = "truncate") /\ mem' = mem
    BY <1>0, <1>6, CallTruncateDoes
  <2>3. Kind(mem, l, todo')
    BY <1>1, <1>2, <2>1, TruncateKind
  <2>4. Progress(mem, l, todo', op', stage')
    BY <2>2 DEF Progress
  <2>. QED BY <1>0, <2>2, <2>3, <2>4, NewFiles
<1>7. CASE CallRemove
  <2>1. PICK n \in Names :
          /\ Exists(Obj(n)) /\ op' = OpOf("remove", Obj(n), <<>>, FALSE)
          /\ RemoveFile(Obj(n), 0, "only")
    BY <1>7 DEF CallRemove
  <2>2. PICK f : f = Obj(n)
    OBVIOUS
  <2>3. RemoveDoes(mem, l, f, todo') /\ mem' = mem
    BY <1>0, <2>1, <2>2, RemoveFileDoes
  <2>4. Kind(mem, l, todo')
    BY <2>3, RemoveKind
  <2>5. op'.kind # "create"
    BY <2>1 DEF OpOf
  <2>. QED BY <1>0, <2>3, <2>4, <2>5, NoProgress, NewFiles
<1>8. CASE CallRename
  <2>1. PICK n \in Names, k \in Names, over \in BOOLEAN :
          /\ Exists(Obj(n)) /\ op' = OpOf("rename", Obj(n), <<>>, over) /\ n # k
          /\ RenameFile(Obj(n), Obj(k), over, "only")
    BY <1>8 DEF CallRename
  <2>2. PICK f, g \in Files : f = Obj(n) /\ g = Obj(k)
    BY FileNames
  <2>3. f # g
    BY <2>1, <2>2, FileNames
  <2>4. RenameDoes(mem, l, f, g, over, "only", todo', stage') /\ mem' = mem
    BY <1>0, <2>1, <2>2, RenameFileDoes
  <2>5. Kind(mem, l, todo')
    <3>1. PICK t, s : t = todo' /\ s = stage'
      OBVIOUS
    <3>2. RenameDoes(mem, l, f, g, over, "only", t, s)
      BY <2>4, <3>1
    <3>3. Kind(mem, l, t)
      BY <1>1, <1>2, <2>3, <3>2, RenameKind
    <3>. QED BY <3>1, <3>3
  <2>6. op'.kind # "create"
    BY <2>1 DEF OpOf
  <2>. QED BY <1>0, <2>4, <2>5, <2>6, NoProgress, NewFiles
<1>9. CASE Lookup
  <2>1. mem' = mem /\ op' = op /\ stage' = stage /\ todo' = todo
    BY <1>9 DEF Lookup
  <2>. QED BY <1>0, <1>2, <2>1, NewFiles
<1>. QED BY <1>3, <1>4, <1>5, <1>6, <1>7, <1>8, <1>9 DEF Call

(***************************************************************************)
(* The head of the contents, written to an empty file;                     *)
(***************************************************************************)
LEMMA HeadIs ==
  ASSUME NEW D, D \in Contents
  PROVE  Updated(<<>>, 0, <<D[1]>>) = <<D[1]>>
<1>1. PICK v : v = D[1]
  OBVIOUS
<1>2. IsTuple(<<v>>) /\ Len(<<v>>) = 1 /\ <<v>>[1] = v
  BY TupleOne
<1>3. IsTuple(<<>>) /\ Len(<<>>) = 0
  BY TupleEmpty
<1>4. PICK x : x = Updated(<<>>, 0, <<v>>)
  OBVIOUS
<1>5. IsUpdated(x, <<>>, 0, <<v>>)
  BY <1>2, <1>3, <1>4, UpdatedIs
<1>6. IsTuple(x) /\ Len(x) = 1
  BY <1>2, <1>3, <1>5 DEF IsUpdated
<1>7. x[1] = v
  BY <1>2, <1>3, <1>5 DEF IsUpdated
<1>8. x = <<v>>
  BY <1>2, <1>6, <1>7, TupleEqual
<1>. QED BY <1>1, <1>4, <1>8

(***************************************************************************)
(* and the rest after it, whatever TMP_BLOCK_SIZE is.                      *)
(***************************************************************************)
LEMMA RestIs ==
  ASSUME NEW D, D \in Contents, Len(D) > 1
  PROVE  Updated(<<D[1]>>, 1, Tail(D)) = D
<1>1. PICK y : y = <<D[1]>>
  OBVIOUS
<1>2. IsTuple(y) /\ Len(y) = 1 /\ y[1] = D[1]
  BY <1>1, TupleOne
<1>3. PICK d : d = Tail(D)
  OBVIOUS
<1>4. IsTuple(D) /\ Len(D) \in Nat
  BY BufIs
<1>5. D # <<>>
  BY <1>4, TupleEmpty
<1>6. IsTuple(d) /\ Len(d) = Len(D) - 1 /\ \A i \in 1 .. Len(D) - 1 : d[i] = D[i + 1]
  BY <1>3, <1>4, <1>5, TupleTail
<1>7. PICK x : x = Updated(y, 1, d)
  OBVIOUS
<1>8. x = Store!Overlay(y, 1, d)
  <2>1. 1 + Len(d) >= Len(y)
    BY <1>2, <1>4, <1>6
  <2>. QED BY <1>2, <1>6, <1>7, <2>1, UpdatedOverlay
<1> DEFINE F(i) == IF i > 1 /\ i <= 1 + Len(d) THEN d[i - 1]
                   ELSE IF i <= Len(y) THEN y[i] ELSE Zero
<1>9. x = [i \in 1 .. Len(D) |-> F(i)]
  <2>1. (IF 1 + Len(d) > Len(y) THEN 1 + Len(d) ELSE Len(y)) = Len(D)
    BY <1>2, <1>4, <1>6
  <2>. QED BY <1>8, <2>1 DEF Store!Overlay
<1>10. ASSUME NEW i \in 1 .. Len(D)
       PROVE  F(i) = D[i]
  <2>1. CASE i = 1
    BY <1>2, <2>1
  <2>2. CASE i # 1
    <3>1. i > 1 /\ i <= 1 + Len(d) /\ i - 1 \in 1 .. Len(D) - 1
      BY <1>4, <1>6, <2>2
    <3>2. F(i) = d[i - 1]
      BY <3>1
    <3>3. d[i - 1] = D[i - 1 + 1]
      BY <1>6, <3>1
    <3>4. i - 1 + 1 = i
      BY <1>4
    <3>. QED BY <3>2, <3>3, <3>4
  <2>. QED BY <2>1, <2>2
<1> HIDE DEF F
<1>11. D = [i \in 1 .. Len(D) |-> D[i]]
  BY <1>4, TupleHas
<1>12. x = D
  BY <1>9, <1>10, <1>11
<1>. QED BY <1>1, <1>3, <1>7, <1>12

(***************************************************************************)
(* The two buffers of a creation.                                          *)
(***************************************************************************)
LEMMA BufsOf ==
  ASSUME NEW D, D \in Contents
  PROVE  /\ <<D[1]>> \in Seq(Vals) /\ <<D[1]>> \in SBufs
         /\ Len(<<D[1]>>) = 1 /\ <<D[1]>> # <<>> /\ IsTuple(<<D[1]>>)
         /\ Tail(D) \in Seq(Vals) /\ Tail(D) \in SBufs /\ IsTuple(Tail(D))
         /\ Len(D) > 1 => Tail(D) # <<>>
         /\ 0 \in 0 .. MaxLen /\ 1 \in 0 .. MaxLen
         /\ Len(D) = 1 => D = <<D[1]>>
<1>1. /\ D \in Seq(Vals) /\ Len(D) \in Nat /\ Len(D) >= 1 /\ IsTuple(D)
      /\ IsTuple(Tail(D))
  BY BufIs
<1>2. MaxLen \in Nat /\ Len(D) \in 1 .. MaxLen
  BY RpmbFsAssumption
<1>3. 0 \in 0 .. MaxLen /\ 1 \in 0 .. MaxLen
  BY <1>1, <1>2
<1>4. PICK v : v = D[1]
  OBVIOUS
<1>5. v \in Vals
  BY <1>1, <1>4
<1>6. <<v>> \in Seq(Vals)
  BY <1>5
<1>7. Len(<<v>>) = 1 /\ <<v>> # <<>> /\ IsTuple(<<v>>) /\ <<v>>[1] = v
  BY TupleOne
<1>8. D # <<>>
  BY <1>1, TupleEmpty
<1>9. Tail(D) \in Seq(Vals)
  BY <1>1, <1>8
<1>10. Len(Tail(D)) = Len(D) - 1
  BY <1>1, <1>8, TupleTail
<1>11. Len(D) > 1 => Tail(D) # <<>>
  <2>1. \A d \in Nat : d > 1 => d - 1 # 0
    OBVIOUS
  <2>2. Len(<<>>) = 0
    BY TupleEmpty
  <2>3. Tail(D) = <<>> => Len(D) - 1 = 0
    BY <1>10, <2>2
  <2>. QED BY <1>1, <2>1, <2>3
<1>12. Len(D) = 1 => D = <<v>>
  BY <1>1, <1>4, <1>7, TupleEqual
<1>13. <<D[1]>> \in SBufs
  BY DEF SBufs
<1>14. Tail(D) \in SBufs
  BY DEF SBufs
<1>. QED BY <1>1, <1>3, <1>4, <1>6, <1>7, <1>9, <1>11, <1>12, <1>13, <1>14

(***************************************************************************)
(* The parts of a creation, one after the other.                           *)
(***************************************************************************)
LEMMA CreateFiles ==
  ASSUME LInv, CInv, Args, CreateGoesOn
  PROVE  CInv' /\ mem' = mem
<1>0. PICK l : l = LastAddr(mem)
  OBVIOUS
<1>1. l \in Nat /\ Apart(mem, l) /\ LastAddr(Table) = l
  BY <1>0, LInvGives
<1>2. One(mem, l) /\ Known(mem, l) /\ Progress(mem, l, todo, op, stage)
  BY <1>0 DEF CInv, FilesOf
<1>3. op # None /\ todo = <<>> /\ op.kind = "create" /\ op' = op
        /\ stage \in {"open", "head", "data"}
  BY DEF CreateGoesOn
<1>4. PICK f, D : f = op.file /\ D = op.data
  OBVIOUS
<1>5. f \in Names \X {"tmp"} /\ D \in Contents
  BY <1>3, <1>4 DEF Args
<1>6. PICK g : g = Obj(f[1])
  OBVIOUS
<1>7. g \in Files /\ f # g
  <2>1. PICK n \in Names : f = <<n, "tmp">>
    BY <1>5
  <2>2. g = <<n, "obj">>
    BY <1>6, <2>1 DEF Obj
  <2>. QED BY <2>1, <2>2 DEF Files
<1>8. Exists(f)
  <2>1. Creating(mem, l, cache, todo, op, stage)
    BY <1>0 DEF LInv
  <2>2. Ready(mem, l, todo, op.file)
    BY <1>3, <2>1 DEF Creating, Creates
  <2>3. Has(mem, l, op.file)
    BY <1>3, <2>2 DEF Ready
  <2>. QED BY <1>0, <1>4, <2>3, ExistsIs
<1>9. \A x : Due(mem, l, todo, f, x) => FileAt(mem, l, f, x)
  BY <1>3 DEF Due, Last
<1>10. ASSUME NEW pos \in 0 .. MaxLen, NEW buf \in Seq(Vals), buf \in SBufs, buf # <<>>,
              NEW st, st # "fail", WriteFile(f, pos, buf, st),
              NEW y, FileAt(mem, l, f, y), Len(y) = pos
       PROVE  /\ mem' = mem /\ Kind(mem, l, todo')
              /\ \/ stage' = "fail"
                 \/ stage' = st /\ Due(mem, l, todo', f, Updated(y, pos, buf))
  <2>1. pos \in Nat /\ IsTuple(buf)
    BY RpmbFsAssumption, SeqTuple
  <2>2. WriteDoes(mem, l, f, pos, buf, st, todo', stage') /\ mem' = mem
    BY <1>0, <1>8, <1>10, <2>1, WriteFileDoes
  <2>3. \A k : Slotted(mem, l, f, k) => pos + Len(buf) >= mem[k].size
    <3> SUFFICES ASSUME NEW k, Slotted(mem, l, f, k) PROVE pos + Len(buf) >= mem[k].size
      OBVIOUS
    <3>1. PICK j : Slotted(mem, l, f, j) /\ Content(mem[j], mem) = y
      BY <1>10 DEF FileAt
    <3>2. j = k
      BY <1>1, <1>2, <3>1, SameSlot
    <3>3. PICK e \in Entries : e = mem[k] /\ e.size \in Nat
      BY EntryIs DEF Slotted
    <3>4. Len(y) = e.size
      BY <3>1, <3>2, <3>3, ContentIs
    <3>5. Len(buf) \in Nat
      BY SeqTuple
    <3>. QED BY <1>10, <3>3, <3>4, <3>5
  <2>4. Kind(mem, l, todo')
    BY <1>1, <1>2, <1>10, <2>2, <2>3, WriteKind
  <2>5. \/ stage' = "fail"
        \/ stage' = st /\ Due(mem, l, todo', f, Updated(y, pos, buf))
    BY <1>1, <1>2, <1>10, <2>1, <2>2, WriteDue
  <2>. QED BY <2>2, <2>4, <2>5
<1>11. CASE stage = "open" /\ WriteFile(op.file, 0, << op.data[1] >>, "head")
  <2>1. PICK buf : buf = <<D[1]>>
    OBVIOUS
  <2>2. buf \in Seq(Vals) /\ buf \in SBufs /\ buf # <<>> /\ 0 \in 0 .. MaxLen
    BY <1>5, <2>1, BufsOf
  <2>3. FileAt(mem, l, f, <<>>) /\ Len(<<>>) = 0
    BY <1>2, <1>3, <1>4, <1>9, <1>11, TupleEmpty DEF Progress
  <2>4. WriteFile(f, 0, buf, "head")
    BY <1>4, <1>11, <2>1
  <2>5. /\ mem' = mem /\ Kind(mem, l, todo')
        /\ \/ stage' = "fail"
           \/ stage' = "head" /\ Due(mem, l, todo', f, Updated(<<>>, 0, buf))
    BY <1>10, <2>2, <2>3, <2>4
  <2>6. Updated(<<>>, 0, buf) = buf
    BY <1>5, <2>1, HeadIs
  <2>7. Progress(mem, l, todo', op', stage')
    BY <1>3, <1>4, <2>1, <2>5, <2>6 DEF Progress
  <2>. QED BY <1>0, <2>5, <2>7, NewFiles
<1>12. CASE stage = "head" /\ Len(op.data) > 1 /\ WriteFile(op.file, 1, Tail(op.data), "data")
  <2>1. PICK buf, y : buf = Tail(D) /\ y = <<D[1]>>
    OBVIOUS
  <2>2. buf \in Seq(Vals) /\ buf \in SBufs /\ 1 \in 0 .. MaxLen
    BY <1>5, <2>1, BufsOf
  <2>3. buf # <<>>
    BY <1>4, <1>5, <1>12, <2>1, BufsOf
  <2>4. FileAt(mem, l, f, y) /\ Len(y) = 1
    BY <1>2, <1>3, <1>4, <1>9, <1>12, <2>1, TupleOne DEF Progress
  <2>5. WriteFile(f, 1, buf, "data")
    BY <1>4, <1>12, <2>1
  <2>6. /\ mem' = mem /\ Kind(mem, l, todo')
        /\ \/ stage' = "fail"
           \/ stage' = "data" /\ Due(mem, l, todo', f, Updated(y, 1, buf))
    BY <1>10, <2>2, <2>3, <2>4, <2>5
  <2>7. Updated(y, 1, buf) = D
    BY <1>4, <1>5, <1>12, <2>1, RestIs
  <2>8. Progress(mem, l, todo', op', stage')
    BY <1>3, <1>4, <2>6, <2>7 DEF Progress
  <2>. QED BY <1>0, <2>6, <2>8, NewFiles
<1>13. CASE /\ stage = "data" \/ (stage = "head" /\ Len(op.data) = 1)
            /\ RenameFile(op.file, Obj(op.file[1]), op.over, "rename")
  <2>1. FileAt(mem, l, f, D)
    <3>1. CASE stage = "data"
      BY <1>2, <1>3, <1>4, <1>9, <3>1 DEF Progress
    <3>2. CASE stage = "head" /\ Len(op.data) = 1
      <4>1. FileAt(mem, l, f, <<D[1]>>)
        BY <1>2, <1>3, <1>4, <1>9, <3>2 DEF Progress
      <4>2. D = <<D[1]>>
        BY <1>4, <1>5, <3>2, BufsOf
      <4>. QED BY <4>1, <4>2, Zenon
    <3>. QED BY <1>13, <3>1, <3>2
  <2>2. RenameFile(f, g, op.over, "rename")
    BY <1>4, <1>6, <1>13
  <2>3. RenameDoes(mem, l, f, g, op.over, "rename", todo', stage') /\ mem' = mem
    BY <1>0, <1>8, <2>2, RenameFileDoes
  <2>4. PICK t, s : t = todo' /\ s = stage'
    OBVIOUS
  <2>5. RenameDoes(mem, l, f, g, op.over, "rename", t, s)
    BY <2>3, <2>4
  <2>6. Kind(mem, l, t) /\ (s # "fail" => Due(mem, l, t, g, D))
    BY <1>1, <1>2, <1>7, <2>1, <2>5, RenameKind
  <2>7. s = "fail" \/ s = "rename"
    BY <2>5 DEF RenameDoes
  <2>8. Progress(mem, l, todo', op', stage')
    BY <1>3, <1>4, <1>6, <2>4, <2>6, <2>7 DEF Progress
  <2>. QED BY <1>0, <2>3, <2>4, <2>6, <2>8, NewFiles
<1>. QED BY <1>11, <1>12, <1>13 DEF CreateGoesOn

(***************************************************************************)
(* Every step preserves the invariant, and writes nothing or does one      *)
(* thing to the files, but for the write that cuts the table.              *)
(***************************************************************************)
LEMMA FilesStep ==
  ASSUME LInv, CInv, Args, "leftover" \notin Allow, [Next]_vars,
         ~(WriteBlock /\ stage = "cut")
  PROVE  /\ CInv'
         /\ mem' = mem \/ Became(mem, LastAddr(mem), mem', LastAddr(mem'))
<1>1. CASE Call
  BY <1>1, CallFiles
<1>2. CASE WriteBlock
  BY <1>2, WriteBlockStep
<1>3. CASE CreateGoesOn
  BY <1>3, CreateFiles
<1>4. CASE Undo
  <2>1. /\ mem' = mem /\ op' = op /\ stage' \in {"undo", "cut"}
        /\ stage' = "undo" => \/ RemoveDoes(mem, LastAddr(mem), op.file, todo')
                              \/ ClearDoes(mem, LastAddr(mem), todo')
    BY <1>4, UndoLayout
  <2>2. stage' # "cut" => Kind(mem, LastAddr(mem), todo')
    BY <2>1, RemoveKind, ClearKind
  <2>3. Progress(mem, LastAddr(mem), todo', op', stage')
    BY <2>1 DEF Progress
  <2>. QED BY <2>1, <2>2, <2>3, NewFiles
<1>5. CASE OpReturns \/ Stop
  <2>1. mem' = mem /\ op' = None /\ todo' = <<>>
    BY <1>5, EndLayout
  <2>2. Kind(mem, LastAddr(mem), todo') /\ Progress(mem, LastAddr(mem), todo', op', stage')
    BY <2>1 DEF Kind, Progress
  <2>. QED BY <2>1, <2>2, NewFiles
<1>6. CASE UNCHANGED vars
  BY <1>6 DEF vars, CInv, Left
<1>7. CASE AccessFails
  <2>1. mem' = mem /\ op' = op /\ todo' = <<>> /\ stage' \in {"only", "full", "fail"}
    BY <1>7, FailLayout
  <2>2. Kind(mem, LastAddr(mem), todo') /\ Progress(mem, LastAddr(mem), todo', op', stage')
    BY <2>1 DEF Kind, Progress
  <2>. QED BY <2>1, <2>2, NewFiles
<1>. QED BY <1>1, <1>2, <1>3, <1>4, <1>5, <1>6, <1>7 DEF Next

(***************************************************************************)
(* Only a creation has a stage "rename".                                   *)
(***************************************************************************)
Renaming == stage = "rename" => op # None /\ op.kind = "create"

(***************************************************************************)
(* That stays so.                                                          *)
(***************************************************************************)
LEMMA RenamingStep ==
  ASSUME Renaming, [Next]_vars
  PROVE  Renaming'
<1>1. CASE CreateGoesOn
  BY <1>1 DEF CreateGoesOn, Renaming
<1>2. CASE stage' # "rename"
  BY <1>2 DEF Renaming
<1>3. CASE op' = op /\ stage' = stage
  BY <1>3 DEF Renaming
<1>4. CallCreate \/ CallRawOpen => stage' # "rename"
  BY DEF CallCreate, CallRawOpen, OpenFile
<1>5. CallWrite => stage' # "rename"
  BY DEF CallWrite, WriteFile
<1>6. CallTruncate => stage' # "rename"
  BY DEF CallTruncate
<1>7. CallRemove \/ CallRename \/ Undo \/ OpReturns \/ AccessFails => stage' # "rename"
  BY DEF CallRemove, RemoveFile, CallRename, RenameFile, Undo, OpReturns, Return,
         AccessFails
<1>9. Stop => stage' # "rename"
  BY DEF Stop, Cut
<1>8. Lookup \/ WriteBlock \/ UNCHANGED vars => op' = op /\ stage' = stage
  BY DEF Lookup, WriteBlock, vars
<1>. QED BY <1>1, <1>2, <1>3, <1>4, <1>5, <1>6, <1>7, <1>8, <1>9 DEF Next, Call

(***************************************************************************)
(* There are no files at first.                                            *)
(***************************************************************************)
LEMMA InitFiles ==
  ASSUME Init
  PROVE  CInv /\ \A f : ~Has(mem, LastAddr(mem), f)
<1>1. LInv
  BY InitLayout
<1>2. PICK l : l = LastAddr(mem)
  OBVIOUS
<1>3. Ends(mem, l)
  BY <1>1, <1>2, LInvGives
<1>4. l = 1
  <2>1. 1 \in Addrs /\ mem[1] = LastEntry
    BY RpmbFsAssumption DEF Init, Addrs
  <2>2. Ends(mem, 1)
    BY <2>1, ClearedIs DEF Ends
  <2>. QED BY <1>2, <2>2, EndIs
<1>5. \A a \in 1 .. l : ~mem[a].active
  BY <1>3, <1>4 DEF Ends
<1>6. One(mem, l) /\ Known(mem, l) /\ \A f : ~Has(mem, l, f)
  BY <1>5 DEF One, Known, Has
<1>7. Kind(mem, l, Left) /\ Progress(mem, l, todo, op, stage)
  BY DEF Init, Kind, Progress, Left
<1>. QED BY <1>2, <1>6, <1>7 DEF CInv, FilesOf

(***************************************************************************)
(* So the invariant holds until the table is cut, if no file is created    *)
(* with a temporary file left over.                                        *)
(***************************************************************************)
LEMMA CInvHolds ==
  ASSUME "leftover" \notin Allow
  PROVE  Spec => []((LInv => CInv) /\ Renaming)
<1>1. Init => (LInv => CInv) /\ Renaming
  BY InitFiles DEF Init, Renaming
<1>2. LOrCut /\ Args /\ (LInv => CInv) /\ Renaming /\ [Next]_vars
        => ((LInv => CInv) /\ Renaming)'
  <2> SUFFICES ASSUME LOrCut, Args, LInv => CInv, Renaming, [Next]_vars
               PROVE  (LInv => CInv)' /\ Renaming'
    OBVIOUS
  <2>1. Renaming'
    BY RenamingStep
  <2>2. CASE LInv /\ ~(WriteBlock /\ stage = "cut")
    BY <2>1, <2>2, FilesStep
  <2>3. CASE LInv /\ WriteBlock /\ stage = "cut"
    <3>1. Cut'
      BY <2>3, WriteBlockLayout
    <3>. QED BY <2>1, <3>1, NotCutNext
  <2>4. CASE Cut /\ op # None
    <3>1. Cut'
      BY <2>4, CutStep
    <3>. QED BY <2>1, <3>1, NotCutNext
  <2>. QED BY <2>2, <2>3, <2>4 DEF LOrCut
<1>3. Spec => [](LOrCut /\ Args)
  BY LInvHolds
<1>. QED BY <1>1, <1>2, <1>3, PTL DEF Spec

(***************************************************************************)
(* FileIs with its state as parameters.                                    *)
(***************************************************************************)
FileOf(m, l, f) ==
  LET S == {a \in 1 .. l : m[a].active /\ m[a].file = f}
  IN  IF S = {} THEN None ELSE Content(m[Min(S)], m)

(***************************************************************************)
(* It is the contents of the file, or None.                                *)
(***************************************************************************)
LEMMA FileOfIs ==
  ASSUME NEW m, NEW l, Ends(m, l), One(m, l), NEW f
  PROVE  /\ ~Has(m, l, f) => FileOf(m, l, f) = None
         /\ \A x : FileAt(m, l, f, x) => FileOf(m, l, f) = x
<1> DEFINE S == {a \in 1 .. l : m[a].active /\ m[a].file = f}
<1>1. l \in Nat
  BY DEF Ends, Addrs
<1>2. ~Has(m, l, f) => S = {}
  BY DEF Has
<1>3. ASSUME NEW x, FileAt(m, l, f, x)
      PROVE  FileOf(m, l, f) = x
  <2>1. PICK k : Slotted(m, l, f, k) /\ Content(m[k], m) = x
    BY <1>3 DEF FileAt
  <2>2. k \in 1 .. l
    BY <1>1, <2>1 DEF Slotted
  <2>3. S = {k}
    <3>1. k \in S
      BY <2>1, <2>2 DEF Slotted
    <3>2. \A j \in S : j = k
      BY <2>1, <2>2 DEF One, Slotted
    <3>. QED BY <3>1, <3>2
  <2>4. Min(S) = k
    <3>1. IsFiniteSet({k}) /\ {k} # {} /\ {k} \subseteq Nat
      <4>1. IsFiniteSet({k})
        BY FS_Singleton
      <4>. QED BY <1>1, <2>2, <4>1
    <3>2. Min({k}) \in {k}
      BY <3>1, MinIsIn
    <3>. QED BY <2>3, <3>2
  <2>. QED BY <2>1, <2>3, <2>4 DEF FileOf
<1>. QED BY <1>2, <1>3 DEF FileOf

(***************************************************************************)
(* When rpmb_fs_create() has renamed the temporary file, the object has    *)
(* the contents that the create was given, whatever moved in between and   *)
(* whatever it replaced.  Without "leftover": a temporary file that a stop *)
(* left behind keeps the blocks it has beyond the new contents.            *)
(***************************************************************************)
THEOREM CreateCorrect ==
  "leftover" \notin Allow => (Spec => []CreateExact)
<1> SUFFICES ASSUME "leftover" \notin Allow
             PROVE  Spec => []CreateExact
  OBVIOUS
<1>1. LOrCut /\ (LInv => CInv) /\ Renaming => CreateExact
  <2> SUFFICES ASSUME LOrCut, LInv => CInv, Renaming, op # None, stage = "rename",
                      todo = <<>>
               PROVE  FileIs(Obj(op.file[1])) = op.data
    BY DEF CreateExact
  <2>6. LInv /\ CInv
    BY DEF LOrCut, Cut
  <2>0. PICK l : l = LastAddr(mem)
    OBVIOUS
  <2>1. Ends(mem, l)
    BY <2>0, <2>6, LInvGives
  <2>2. One(mem, l) /\ Progress(mem, l, todo, op, stage)
    BY <2>0, <2>6 DEF CInv, FilesOf
  <2>3. Due(mem, l, todo, Obj(op.file[1]), op.data)
    BY <2>2 DEF Progress, Renaming
  <2>4. FileAt(mem, l, Obj(op.file[1]), op.data)
    BY <2>3 DEF Due, Last
  <2>5. FileOf(mem, l, Obj(op.file[1])) = op.data
    BY <2>1, <2>2, <2>4, FileOfIs
  <2>. QED BY <2>0, <2>5 DEF FileIs, InDev, FileOf
<1>2. Spec => [](LOrCut /\ Args)
  BY LInvHolds
<1>3. Spec => []((LInv => CInv) /\ Renaming)
  BY CInvHolds
<1>. QED BY <1>1, <1>2, <1>3, PTL

-----------------------------------------------------------------------------
(***************************************************************************)
(* The files of the abstract store.                                        *)
(***************************************************************************)
FilesIn(m, l) == [f \in Files |-> FileOf(m, l, f)]

(***************************************************************************)
(* What is needed to speak of them.                                        *)
(***************************************************************************)
Sound(m, l) == Ends(m, l) /\ One(m, l) /\ Known(m, l)

(***************************************************************************)
(* A file that exists.                                                     *)
(***************************************************************************)
LEMMA FileAtIs ==
  ASSUME NEW m, NEW l, Sound(m, l), NEW f, NEW x, FileAt(m, l, f, x)
  PROVE  FileOf(m, l, f) = x /\ x # None
<1>1. FileOf(m, l, f) = x
  BY FileOfIs DEF Sound
<1>2. PICK k : Slotted(m, l, f, k) /\ Content(m[k], m) = x
  BY DEF FileAt
<1>3. l \in Nat
  BY DEF Sound, Ends, Addrs
<1>4. x \in Seq(Data)
  BY <1>2, <1>3, ContentData DEF Sound
<1>. QED BY <1>1, <1>4, NotAData

(***************************************************************************)
(* Exists or not.                                                          *)
(***************************************************************************)
LEMMA HasFile ==
  ASSUME NEW m, NEW l, Sound(m, l), NEW f
  PROVE  /\ Has(m, l, f) <=> \E x : FileAt(m, l, f, x)
         /\ Has(m, l, f) <=> FileOf(m, l, f) # None
<1>1. Ends(m, l) /\ One(m, l)
  BY DEF Sound
<1>2. Has(m, l, f) <=> \E k : Slotted(m, l, f, k)
  BY <1>1, HasSlotted
<1>3. Has(m, l, f) <=> \E x : FileAt(m, l, f, x)
  BY <1>2 DEF FileAt
<1>4. ~Has(m, l, f) => FileOf(m, l, f) = None
  BY <1>1, FileOfIs
<1>5. Has(m, l, f) => FileOf(m, l, f) # None
  BY <1>3, FileAtIs
<1>. QED BY <1>3, <1>4, <1>5

(***************************************************************************)
(* A file that a step keeps.                                               *)
(***************************************************************************)
LEMMA KeptFile ==
  ASSUME NEW m, NEW l, Sound(m, l), NEW n, NEW h, Sound(n, h), NEW S,
         Keep(m, l, n, h, S), NEW f, f \notin S
  PROVE  FileOf(n, h, f) = FileOf(m, l, f)
<1>1. \A x : FileAt(m, l, f, x) <=> FileAt(n, h, f, x)
  BY DEF Keep
<1>2. CASE Has(m, l, f)
  <2>1. PICK x : FileAt(m, l, f, x)
    BY <1>2, HasFile
  <2>2. FileAt(n, h, f, x)
    BY <1>1, <2>1
  <2>3. FileOf(m, l, f) = x
    BY <2>1, FileAtIs
  <2>4. FileOf(n, h, f) = x
    BY <2>2, FileAtIs
  <2>. QED BY <2>3, <2>4
<1>3. CASE ~Has(m, l, f)
  <2>1. ~Has(n, h, f)
    BY <1>1, <1>3, HasFile
  <2>. QED BY <1>3, <2>1, FileOfIs DEF Sound
<1>. QED BY <1>2, <1>3

(***************************************************************************)
(* The operations of the abstract store, from its files F to G.            *)
(***************************************************************************)
StoreMakes(F, G) == \E f \in Files : F[f] = None /\ G = [F EXCEPT ![f] = <<>>]

StoreDrops(F, G) == \E f \in Files : F[f] # None /\ G = [F EXCEPT ![f] = None]

StoreWritesTo(F, G, f, pos, buf) ==
  F[f] # None /\ G = [F EXCEPT ![f] = Store!Overlay(F[f], pos, buf)]

StoreWrites(F, G) ==
  \E f \in Files : \E pos \in 0 .. MaxLen, buf \in SBufs : StoreWritesTo(F, G, f, pos, buf)

StoreCuts(F, G) ==
  \E f \in Files : \E k \in 0 .. MaxLen :
    F[f] # None /\ G = [F EXCEPT ![f] = Extended(F[f], k)]

StoreNames(F, G) ==
  \E f, g \in Files :
    F[f] # None /\ F[g] = None /\ G = [F EXCEPT ![g] = F[f], ![f] = None]

(***************************************************************************)
(* What a write does to the files is nothing, or one operation of the      *)
(* store.                                                                  *)
(***************************************************************************)
LEMMA StoreStep ==
  ASSUME NEW m, NEW l, Sound(m, l), NEW n, NEW h, Sound(n, h), Became(m, l, n, h),
         "overwrite" \notin Allow,
         NEW F, F = FilesIn(m, l), NEW G, G = FilesIn(n, h)
  PROVE  \/ G = F \/ StoreMakes(F, G) \/ StoreDrops(F, G) \/ StoreWrites(F, G)
         \/ StoreCuts(F, G) \/ StoreNames(F, G)
<1>1. /\ F = [f \in Files |-> F[f]] /\ \A f \in Files : F[f] = FileOf(m, l, f)
  BY DEF FilesIn
<1>2. /\ G = [f \in Files |-> G[f]] /\ \A f \in Files : G[f] = FileOf(n, h, f)
  BY DEF FilesIn
<1>3. ASSUME NEW S, Keep(m, l, n, h, S), NEW f \in Files, f \notin S
      PROVE  G[f] = F[f]
  BY <1>1, <1>2, <1>3, KeptFile
<1>4. CASE Keep(m, l, n, h, {})
  <2>1. \A f \in Files : G[f] = F[f]
    BY <1>3, <1>4
  <2>. QED BY <1>1, <1>2, <2>1
<1>5. ASSUME NEW f \in Files, Keep(m, l, n, h, {f})
      PROVE  G = [F EXCEPT ![f] = G[f]]
  <2>1. \A g \in Files : g # f => G[g] = F[g]
    BY <1>3, <1>5
  <2>. QED BY <1>1, <1>2, <2>1
<1>6. CASE Made(m, l, n, h)
  <2>1. PICK f \in Files : ~Has(m, l, f) /\ FileAt(n, h, f, <<>>) /\ Keep(m, l, n, h, {f})
    BY <1>6 DEF Made
  <2>2. F[f] = None /\ G[f] = <<>>
    BY <1>1, <1>2, <2>1, HasFile, FileAtIs
  <2>3. G = [F EXCEPT ![f] = G[f]]
    BY <1>5, <2>1
  <2>. QED BY <2>2, <2>3 DEF StoreMakes
<1>7. CASE Gone(m, l, n, h)
  <2>1. PICK f \in Files : Has(m, l, f) /\ ~Has(n, h, f) /\ Keep(m, l, n, h, {f})
    BY <1>7 DEF Gone
  <2>2. F[f] # None /\ G[f] = None
    BY <1>1, <1>2, <2>1, HasFile
  <2>3. G = [F EXCEPT ![f] = G[f]]
    BY <1>5, <2>1
  <2>. QED BY <2>2, <2>3 DEF StoreDrops
<1>8. CASE Changed(m, l, n, h)
  <2>0. PICK f \in Files : \E y, x :
          FileAt(m, l, f, y) /\ FileAt(n, h, f, x) /\ Goal(y, x) /\ Keep(m, l, n, h, {f})
    BY <1>8 DEF Changed
  <2>1. PICK y, x :
          FileAt(m, l, f, y) /\ FileAt(n, h, f, x) /\ Goal(y, x) /\ Keep(m, l, n, h, {f})
    BY <2>0
  <2>2. F[f] = y /\ y # None /\ G[f] = x
    BY <1>1, <1>2, <2>1, FileAtIs
  <2>3. G = [F EXCEPT ![f] = x]
    BY <1>5, <2>1, <2>2
  <2>4. \/ \E pos \in 0 .. MaxLen, buf \in SBufs : x = Store!Overlay(y, pos, buf)
        \/ \E k \in 0 .. MaxLen : x = Extended(y, k)
    BY <2>1 DEF Goal
  <2>5. ASSUME NEW pos \in 0 .. MaxLen, NEW buf \in SBufs, x = Store!Overlay(y, pos, buf)
        PROVE  StoreWrites(F, G)
    <3>1. StoreWritesTo(F, G, f, pos, buf)
      BY <2>2, <2>3, <2>5 DEF StoreWritesTo
    <3>. QED BY <3>1, Zenon DEF StoreWrites
  <2>6. ASSUME NEW k \in 0 .. MaxLen, x = Extended(y, k)
        PROVE  StoreCuts(F, G)
    <3>1. F[f] # None /\ G = [F EXCEPT ![f] = Extended(F[f], k)]
      BY <2>2, <2>3, <2>6
    <3>. QED BY <3>1 DEF StoreCuts
  <2>. QED BY <2>4, <2>5, <2>6
<1>9. CASE Renamed(m, l, n, h)
  <2>0. PICK f \in Files, g \in Files : \E x :
    /\ f # g /\ FileAt(m, l, f, x) /\ ~Has(m, l, g)
    /\ FileAt(n, h, g, x) /\ ~Has(n, h, f) /\ Keep(m, l, n, h, {f, g})
    BY <1>9 DEF Renamed
  <2>1. PICK x :
    /\ f # g /\ FileAt(m, l, f, x) /\ ~Has(m, l, g)
    /\ FileAt(n, h, g, x) /\ ~Has(n, h, f) /\ Keep(m, l, n, h, {f, g})
    BY <2>0
  <2>2. F[f] = x /\ x # None /\ G[g] = x
    BY <1>1, <1>2, <2>1, FileAtIs
  <2>3. F[g] = None /\ G[f] = None
    BY <1>1, <1>2, <2>1, HasFile
  <2>4. \A s \in Files : s # f /\ s # g => G[s] = F[s]
    BY <1>3, <2>1
  <2>5. G = [F EXCEPT ![g] = F[f], ![f] = None]
    BY <1>1, <1>2, <2>1, <2>2, <2>3, <2>4
  <2>. QED BY <2>2, <2>3, <2>5 DEF StoreNames
<1>. QED BY <1>4, <1>6, <1>7, <1>8, <1>9 DEF Became

(***************************************************************************)
(* The RPMB file system implements the abstract file store: each block     *)
(* that is written, each access that fails and each stop is one whole      *)
(* change of the files or none, up to the write that cuts the table, with  *)
(* which all files are lost at once.  With Allow empty: each of the        *)
(* exceptions breaks a promise, as the README shows.                       *)
(***************************************************************************)
THEOREM FileStoreImplemented ==
  Allow = {} => (Spec => ImplementsFileStore)
<1> SUFFICES ASSUME Allow = {} PROVE Spec => ImplementsFileStore
  OBVIOUS
<1> DEFINE U == ~Cut
           F == [f \in Files |-> IF Cut THEN None ELSE FileIs(f)]
<1>1. "leftover" \notin Allow /\ "overwrite" \notin Allow
  OBVIOUS
<1>2. ~Cut => F = FilesIn(mem, LastAddr(mem))
  BY DEF FilesIn, FileOf, FileIs, InDev
<1>3. ~Cut' => F' = FilesIn(mem', LastAddr(mem'))
  BY DEF FilesIn, FileOf, FileIs, InDev
<1>4. Init => Store!Init
  <2> SUFFICES ASSUME Init PROVE Store!Init
    OBVIOUS
  <2>1. LInv /\ CInv /\ \A f : ~Has(mem, LastAddr(mem), f)
    BY InitLayout, InitFiles
  <2>2. \A f : InDev(f) = {}
    BY <2>1 DEF Has, InDev
  <2>3. ~Cut
    BY <2>1, NotCut
  <2>. QED BY <2>2, <2>3 DEF Store!Init, Store!Empty, FileIs
<1>5. LOrCut /\ Args /\ (LInv => CInv) /\ [Next]_vars /\ LOrCut' /\ (LInv => CInv)'
        => [Store!Next]_<<U, F>>
  <2> SUFFICES ASSUME LOrCut, Args, LInv => CInv, [Next]_vars, LOrCut', (LInv => CInv)'
               PROVE  [Store!Next]_<<U, F>>
    OBVIOUS
  <2>1. CASE Cut /\ op # None
    <3>1. Cut'
      BY <2>1, CutStep
    <3>2. F = [f \in Files |-> None] /\ F' = [f \in Files |-> None]
      BY <2>1, <3>1
    <3>. QED BY <2>1, <3>1, <3>2
  <2>2. CASE LInv /\ Cut'
    <3>1. ~Cut
      BY <2>2, NotCut
    <3>2. F' = [f \in Files |-> None]
      BY <2>2
    <3>. QED BY <2>2, <3>1, <3>2 DEF Store!Next, Store!Lose, Store!Empty
  <2>3. CASE LInv /\ ~Cut'
    <3>1. ~Cut /\ CInv /\ LInv' /\ CInv'
      BY <2>3, NotCut DEF LOrCut
    <3>2. ~(WriteBlock /\ stage = "cut")
      BY <2>3, WriteBlockLayout
    <3>3. mem' = mem \/ Became(mem, LastAddr(mem), mem', LastAddr(mem'))
      BY <1>1, <2>3, <3>1, <3>2, FilesStep
    <3>4. CASE mem' = mem
      BY <1>2, <1>3, <2>3, <3>1, <3>4
    <3>5. CASE Became(mem, LastAddr(mem), mem', LastAddr(mem'))
      <4>1. Sound(mem, LastAddr(mem))
        BY <2>3, <3>1 DEF LInv, LayoutOf, CInv, FilesOf, Sound
      <4>2. Sound(mem', LastAddr(mem'))
        BY <3>1 DEF LInv, LayoutOf, CInv, FilesOf, Sound
      <4>3. PICK A, G : A = F /\ G = F'
        OBVIOUS
      <4>4. \/ G = A \/ StoreMakes(A, G) \/ StoreDrops(A, G) \/ StoreWrites(A, G)
            \/ StoreCuts(A, G) \/ StoreNames(A, G)
        BY <1>1, <1>2, <1>3, <2>3, <3>1, <3>5, <4>1, <4>2, <4>3, StoreStep
      <4> HIDE DEF F
      <4>5. CASE G = A
        BY <2>3, <3>1, <4>3, <4>5
      <4>6. ASSUME Store!Change PROVE Store!Next
        BY <2>3, <3>1, <4>6 DEF Store!Next
      <4>7. CASE StoreMakes(A, G)
        <5>1. Store!Change
          BY <4>3, <4>7 DEF StoreMakes, Store!Change, Store!Create, Store!Present, F
        <5>. QED BY <4>6, <5>1
      <4>8. CASE StoreDrops(A, G)
        <5>1. Store!Change
          BY <4>3, <4>8 DEF StoreDrops, Store!Change, Store!Remove, Store!Present, F
        <5>. QED BY <4>6, <5>1
      <4>9. CASE StoreWrites(A, G)
        <5>1. PICK f \in Files, pos \in 0 .. MaxLen, buf \in SBufs :
                StoreWritesTo(A, G, f, pos, buf)
          BY <4>9, Zenon DEF StoreWrites
        <5>2. Store!Write(f, pos, buf)
          BY <4>3, <5>1 DEF StoreWritesTo, Store!Write, Store!Present, F
        <5>3. Store!Change
          BY <5>2, Zenon DEF Store!Change, SBufs
        <5>. QED BY <4>6, <5>3
      <4>10. CASE StoreCuts(A, G)
        <5>1. PICK f \in Files, k \in 0 .. MaxLen :
                A[f] # None /\ G = [A EXCEPT ![f] = Extended(A[f], k)]
          BY <4>10, Zenon DEF StoreCuts
        <5>2. Store!Truncate(f, k)
          BY <4>3, <5>1 DEF Store!Truncate, Store!Present, F, Extended, Store!Size
        <5>3. Store!Change
          BY <5>2, Zenon DEF Store!Change
        <5>. QED BY <4>6, <5>3
      <4>11. CASE StoreNames(A, G)
        <5>1. Store!Change
          BY <4>3, <4>11 DEF StoreNames, Store!Change, Store!Rename, Store!Present, F
        <5>. QED BY <4>6, <5>1
      <4>. QED BY <4>4, <4>5, <4>7, <4>8, <4>9, <4>10, <4>11
    <3>. QED BY <3>3, <3>4, <3>5
  <2>. QED BY <2>1, <2>2, <2>3 DEF LOrCut
<1>6. Spec => [](LOrCut /\ Args)
  BY LInvHolds
<1>7. Spec => []((LInv => CInv) /\ Renaming)
  BY <1>1, CInvHolds
<1>. QED BY <1>4, <1>5, <1>6, <1>7, PTL DEF Spec, ImplementsFileStore, Store!Spec, Store!vars
=============================================================================
