--------------------------- MODULE StorageProofs ----------------------------
(***************************************************************************)
(* The table of open objects and the directory file of module Storage, for *)
(* every number of threads, names and files: the counts and the numbers,   *)
(* whatever Uses allows; then, for the uses that Careful, Tidy, Reliable   *)
(* and Unfailing describe, what handles share, read, remove and enumerate, *)
(* and the stored objects as module ObjectStore has them.                  *)
(***************************************************************************)
EXTENDS Storage, FiniteSetTheorems, TLAPS

-----------------------------------------------------------------------------
(***************************************************************************)
(* Least and greatest of a finite set of numbers, and counting.            *)
(***************************************************************************)
LEMMA GreatestExists ==
  ASSUME NEW S, S \subseteq Nat, IsFiniteSet(S), S # {}
  PROVE  \E x \in S : \A y \in S : x >= y
<1> DEFINE Bad == {U \in SUBSET S : U # {} /\ ~ \E x \in U : \A y \in U : x >= y}
<1> HIDE DEF Bad
<1>1. IsWellFoundedOn(StrictSubsetOrdering(S), SUBSET S)
  BY FS_StrictSubsetOrderingWellFounded, FS_FiniteSubsetsOfFinite
<1>2. ASSUME Bad # {} PROVE FALSE
  <2>1. PICK U \in Bad : \A W \in Bad : ~ (<<W, U>> \in StrictSubsetOrdering(S))
    <3>1. Bad \subseteq SUBSET S
      BY DEF Bad
    <3>. QED BY <1>1, <1>2, <3>1, WFMin
  <2>2. PICK e \in U : TRUE
    BY DEF Bad
  <2>3. U \ {e} \notin Bad
    BY <2>1, <2>2 DEF StrictSubsetOrdering, Bad
  <2>4. CASE U \ {e} = {}
    BY <2>2, <2>4 DEF Bad
  <2>5. CASE \E x \in U \ {e} : \A y \in U \ {e} : x >= y
    <3>1. PICK x \in U \ {e} : \A y \in U \ {e} : x >= y
      BY <2>5
    <3>2. x \in Nat /\ e \in Nat
      BY <2>2 DEF Bad
    <3>3. CASE x >= e
      BY <3>1, <3>3 DEF Bad
    <3>4. CASE e >= x
      BY <2>2, <3>1, <3>2, <3>4 DEF Bad
    <3>. QED BY <3>2, <3>3, <3>4
  <2>. QED BY <2>2, <2>3, <2>4, <2>5 DEF Bad
<1>. QED BY <1>2 DEF Bad

LEMMA LeastExists ==
  ASSUME NEW S, S \subseteq Nat, IsFiniteSet(S), S # {}
  PROVE  \E x \in S : \A y \in S : x =< y
<1> DEFINE Bad == {U \in SUBSET S : U # {} /\ ~ \E x \in U : \A y \in U : x =< y}
<1> HIDE DEF Bad
<1>1. IsWellFoundedOn(StrictSubsetOrdering(S), SUBSET S)
  BY FS_StrictSubsetOrderingWellFounded, FS_FiniteSubsetsOfFinite
<1>2. ASSUME Bad # {} PROVE FALSE
  <2>1. PICK U \in Bad : \A W \in Bad : ~ (<<W, U>> \in StrictSubsetOrdering(S))
    <3>1. Bad \subseteq SUBSET S
      BY DEF Bad
    <3>. QED BY <1>1, <1>2, <3>1, WFMin
  <2>2. PICK e \in U : TRUE
    BY DEF Bad
  <2>3. U \ {e} \notin Bad
    BY <2>1, <2>2 DEF StrictSubsetOrdering, Bad
  <2>4. CASE U \ {e} = {}
    BY <2>2, <2>4 DEF Bad
  <2>5. CASE \E x \in U \ {e} : \A y \in U \ {e} : x =< y
    <3>1. PICK x \in U \ {e} : \A y \in U \ {e} : x =< y
      BY <2>5
    <3>2. x \in Nat /\ e \in Nat
      BY <2>2 DEF Bad
    <3>3. CASE x =< e
      BY <3>1, <3>3 DEF Bad
    <3>4. CASE e =< x
      BY <2>2, <3>1, <3>2, <3>4 DEF Bad
    <3>. QED BY <3>2, <3>3, <3>4
  <2>. QED BY <2>2, <2>3, <2>4, <2>5 DEF Bad
<1>. QED BY <1>2 DEF Bad

LEMMA MinIsIn ==
  ASSUME NEW S, S \subseteq Nat, IsFiniteSet(S), S # {}
  PROVE  Min(S) \in S
BY LeastExists DEF Min

LEMMA MaxIsAbove ==
  ASSUME NEW S, S \subseteq Nat, IsFiniteSet(S), S # {}
  PROVE  Max(S) \in S /\ \A x \in S : Max(S) >= x
BY GreatestExists DEF Max

LEMMA Counts ==
  ASSUME NEW S, S \subseteq Threads
  PROVE  /\ IsFiniteSet(S) /\ Cardinality(S) \in Nat
         /\ \A t \in Threads \ S : Cardinality(S \cup {t}) = Cardinality(S) + 1
         /\ \A t \in S : Cardinality(S \ {t}) = Cardinality(S) - 1
                         /\ Cardinality(S) >= 1
<1>1. IsFiniteSet(S) /\ Cardinality(S) \in Nat
  BY StorageAssumption, FS_Subset, FS_CardinalityType
<1>2. \A t \in Threads \ S : Cardinality(S \cup {t}) = Cardinality(S) + 1
  BY <1>1, FS_AddElement
<1>3. ASSUME NEW t \in S
      PROVE  Cardinality(S \ {t}) = Cardinality(S) - 1 /\ Cardinality(S) >= 1
  <2>1. IsFiniteSet(S \ {t}) /\ Cardinality(S \ {t}) = Cardinality(S) - 1
    BY <1>1, FS_RemoveElement
  <2>2. Cardinality(S \ {t}) \in Nat
    BY <2>1, FS_CardinalityType
  <2>. QED BY <1>1, <2>1, <2>2
<1>. QED BY <1>1, <1>2, <1>3

-----------------------------------------------------------------------------
(***************************************************************************)
(* The inductive invariant.                                                *)
(***************************************************************************)
Pobj ==
  [name : Names \cup {None}, refcnt : Nat, flags : Flags, creating : BOOLEAN]

Arg ==
  [op : {"none", "open", "create", "enum"}, name : Names \cup {None},
   over : BOOLEAN]

NoEntry == {"idle", "enumGet"}

Renaming == {"rename", "renamePobj", "renamed"}

NoFile == NoEntry \cup {"open", "enum", "create", "release"}

HasFile == Renaming \cup {"head", "final", "have"}

Places == NoFile \cup HasFile \cup {"failed", "remove", "close"}

Shape ==
  /\ use \in Kinds
  /\ dents \in [Idxs -> Dent]
  /\ dirh \in {None} \cup DirFile
  /\ refs \in Nat
  /\ pobjs \in [Pobjs -> Pobj]
  /\ pc \in [Threads -> Places]
  /\ arg \in [Threads -> Arg]
  /\ po \in [Threads -> {None} \cup Pobjs]
  /\ to \in [Threads -> {None} \cup Pobjs]
  /\ fl \in [Threads -> Flags]
  /\ fh \in [Threads -> {None} \cup Handle]
  /\ dir \in [Threads -> {None} \cup Enumeration]

(***************************************************************************)
(* Which entries of the table, and which file, a thread has at each place  *)
(* of its calls.                                                           *)
(***************************************************************************)
HeldBy(t) ==
  /\ po[t] = None <=> pc[t] \in NoEntry
  /\ to[t] = None <=> pc[t] \notin Renaming
  /\ pc[t] \in NoFile => fh[t] = None
  /\ pc[t] \in HasFile => fh[t] # None
  /\ pc[t] \in {"enumGet"} \cup Renaming => arg[t].name # None

Held == \A t \in Threads : HeldBy(t)

(***************************************************************************)
(* An entry of the table is linked as long as it is referred to.           *)
(***************************************************************************)
Linked == \A p \in Pobjs : pobjs[p].name = None <=> pobjs[p].refcnt = 0

(***************************************************************************)
(* No two named entries have one file number, and the numbers of the named *)
(* entries are marked as used.                                             *)
(***************************************************************************)
Distinct(d) ==
  \A i, j \in Idxs :
    d[i].name # None /\ d[j].name # None /\ d[i].fno = d[j].fno => i = j

Good(d) ==
  /\ d \in DirFile
  /\ Distinct(d.dents)
  /\ \A i \in Idxs : d.dents[i].name # None => d.dents[i].fno \in d.bits

Numbered == Distinct(dents) /\ (dirh # None => Good(dirh))

(***************************************************************************)
(* The directory file that an enumeration can still use is in memory.      *)
(***************************************************************************)
EnumKept == \A t \in Threads : dir[t] # None /\ dir[t].valid => dirh # None

Inv ==
  /\ Shape /\ Held /\ Linked /\ Numbered /\ EnumKept
  /\ PobjRefs /\ DirhRefs /\ DirhCommitted

-----------------------------------------------------------------------------
(***************************************************************************)
(* The directory file of an operation.                                     *)
(***************************************************************************)
LEMMA NoneApart ==
  /\ None \notin DirFile /\ None \notin Handle /\ None \notin Enumeration
  /\ None \notin Names /\ None \notin Pobjs /\ None \notin Vers
  /\ Idxs \subseteq Nat /\ IsFiniteSet(Idxs) /\ Pobjs \subseteq Nat
  /\ Vers \subseteq Nat /\ Fnos \subseteq Nat
  /\ IsFiniteSet(Pobjs) /\ IsFiniteSet(Vers) /\ IsFiniteSet(Fnos)
<1>1. Cardinality(Names) \in Nat
  BY StorageAssumption, FS_CardinalityType
<1>2. Idxs \subseteq Nat /\ IsFiniteSet(Idxs)
  BY <1>1, FS_Interval DEF Idxs
<1>. QED BY <1>2, StorageAssumption

(***************************************************************************)
(* tee_fs_dirfile_open() finds nothing to clear.                           *)
(***************************************************************************)
LEMMA ReadIs ==
  ASSUME dents \in [Idxs -> Dent], Distinct(dents)
  PROVE  Read(dents) = dents
<1>1. \A i \in Idxs : dents[i].name # None =>
        ~ \E j \in 1 .. i - 1 : dents[j].name # None /\ dents[j].fno = dents[i].fno
  <2>1. SUFFICES ASSUME NEW i \in Idxs, NEW j \in 1 .. i - 1,
                        dents[i].name # None, dents[j].name # None,
                        dents[j].fno = dents[i].fno
                 PROVE  FALSE
    OBVIOUS
  <2>2. j \in Idxs /\ j # i
    <3>1. Cardinality(Names) \in Nat
      BY StorageAssumption, FS_CardinalityType
    <3>. QED BY <3>1 DEF Idxs
  <2>. QED BY <2>1, <2>2 DEF Distinct
<1>2. Read(dents) = [i \in Idxs |-> dents[i]]
  BY <1>1 DEF Read
<1>. QED BY <1>2

LEMMA DirhIs ==
  ASSUME Shape, Numbered, DirhCommitted
  PROVE  Good(Dirh) /\ Dirh.dents = dents /\ Dirh # None
<1>1. CASE dirh # None
  BY <1>1 DEF Dirh, Numbered, DirhCommitted, Good
<1>2. CASE dirh = None
  <2>1. Dirh = [dents |-> dents, bits |-> Numbers(dents)]
    BY <1>2, ReadIs DEF Dirh, Shape, Numbered
  <2>2. Numbers(dents) \subseteq Nat
    BY DEF Numbers, Shape, Dent
  <2>3. \A i \in Idxs : dents[i].name # None => dents[i].fno \in Numbers(dents)
    BY DEF Numbers
  <2>. QED BY <2>1, <2>2, <2>3, NoneApart DEF Good, Numbered, Shape, DirFile
<1>. QED BY <1>1, <1>2

LEMMA SetGood ==
  ASSUME NEW d, Good(d), NEW i \in Idxs, NEW n \in Names \cup {None},
         NEW f \in Nat, NEW v \in Vers \cup {None},
         \/ f \notin d.bits
         \/ d.dents[i].fno = f /\ (n # None => d.dents[i].name # None)
  PROVE  Good(SetDent(d, i, n, f, v))
<1> DEFINE e == SetDent(d, i, n, f, v)
           x == [name |-> n, fno |-> f, hash |-> v]
<1>1. /\ d \in DirFile /\ d.dents \in [Idxs -> Dent] /\ d.bits \subseteq Nat
      /\ x \in Dent
  BY DEF Good, DirFile, Dent
<1>2. e = [dents |-> [d.dents EXCEPT ![i] = x], bits |-> d.bits \cup {f}]
  BY DEF SetDent
<1>3. /\ e.dents \in [Idxs -> Dent] /\ e \in DirFile /\ e.bits = d.bits \cup {f}
      /\ e.dents[i] = x
      /\ \A j \in Idxs : j # i => e.dents[j] = d.dents[j]
  BY <1>1, <1>2 DEF DirFile
<1> HIDE DEF e
<1>4. e.dents[i].name = n /\ e.dents[i].fno = f
  BY <1>3
<1>. QED BY <1>3, <1>4 DEF Good, Distinct, e

LEMMA ClearGood ==
  ASSUME NEW d, Good(d), NEW i \in Idxs, d.dents[i].name # None
  PROVE  Good(ClearDent(d, i))
<1> DEFINE e == ClearDent(d, i)
<1>1. /\ d \in DirFile /\ d.dents \in [Idxs -> Dent] /\ d.bits \subseteq Nat
      /\ NoDent \in Dent
  BY DEF Good, DirFile, Dent, NoDent
<1>2. e = [dents |-> [d.dents EXCEPT ![i] = NoDent],
           bits |-> d.bits \ {d.dents[i].fno}]
  BY DEF ClearDent
<1>3. /\ e.dents \in [Idxs -> Dent] /\ e \in DirFile
      /\ e.bits = d.bits \ {d.dents[i].fno} /\ e.dents[i].name = None
      /\ \A j \in Idxs : j # i => e.dents[j] = d.dents[j]
  BY <1>1, <1>2 DEF DirFile, NoDent
<1> HIDE DEF e
<1>. QED BY <1>3 DEF Good, Distinct, e

LEMMA StaleIs ==
  ASSUME Shape, NEW d
  PROVE  /\ Stale(d) \in [Threads -> {None} \cup Enumeration]
         /\ \A u \in Threads :
              /\ Stale(d)[u] = None <=> dir[u] = None
              /\ Stale(d)[u] # None /\ Stale(d)[u].valid => d # None
<1>1. \A x \in Enumeration : /\ [x EXCEPT !.valid = FALSE] \in Enumeration
                              /\ [x EXCEPT !.valid = FALSE].valid = FALSE
  BY DEF Enumeration
<1>2. \A u \in Threads : dir[u] = None \/ dir[u] \in Enumeration
  BY DEF Shape
<1>3. ASSUME NEW u \in Threads
      PROVE  /\ Stale(d)[u] \in {None} \cup Enumeration
             /\ Stale(d)[u] = None <=> dir[u] = None
             /\ Stale(d)[u] # None /\ Stale(d)[u].valid => d # None
  <2>1. CASE d = None /\ dir[u] # None
    <3>1. Stale(d)[u] = [dir[u] EXCEPT !.valid = FALSE]
      BY <2>1 DEF Stale
    <3>2. Stale(d)[u] \in Enumeration /\ Stale(d)[u].valid = FALSE
      BY <1>1, <1>2, <2>1, <3>1
    <3>. QED BY <2>1, <3>2, NoneApart
  <2>2. CASE ~(d = None /\ dir[u] # None)
    <3>1. Stale(d)[u] = dir[u]
      BY <2>2 DEF Stale
    <3>. QED BY <1>2, <2>2, <3>1
  <2>. QED BY <2>1, <2>2
<1>4. Stale(d) = [u \in Threads |-> Stale(d)[u]]
  BY DEF Stale
<1>. QED BY <1>3, <1>4

LEMMA StaleDoes ==
  ASSUME Shape, dir' = Stale(dirh')
  PROVE  /\ dir' \in [Threads -> {None} \cup Enumeration]
         /\ \A u \in Threads : dir'[u] = None <=> dir[u] = None
         /\ EnumKept'
BY StaleIs DEF EnumKept

(***************************************************************************)
(* The references and the directory file in memory after an operation.     *)
(***************************************************************************)
Left(d, n) ==
  /\ refs' = refs + n /\ refs' \in Nat
  /\ dirh' \in {None, d}
  /\ dir' \in [Threads -> {None} \cup Enumeration]
  /\ \A u \in Threads : dir'[u] = None <=> dir[u] = None
  /\ EnumKept'

LEMMA LeaveDoes ==
  ASSUME Shape, NEW d \in DirFile, NEW n \in {0, 1}
  PROVE  /\ Leave(d, n, FALSE) => Left(d, n)
         /\ Leave(d, n, TRUE) => Left(d, n) /\ dirh' = None
<1>1. ASSUME Leave(d, n, FALSE) \/ Leave(d, n, TRUE)
      PROVE  Left(d, n)
  <2>1. refs' = refs + n /\ refs' \in Nat /\ dirh' \in {None, d}
    BY <1>1 DEF Leave, Shape
  <2>2. dir' = Stale(dirh')
    BY <1>1 DEF Leave
  <2>. QED BY <2>1, <2>2, StaleDoes DEF Left
<1>2. Leave(d, n, TRUE) => dirh' = None
  BY DEF Leave
<1>. QED BY <1>1, <1>2
-----------------------------------------------------------------------------
(***************************************************************************)
(* What a step of a thread does to the table, to the references to the     *)
(* directory file and to the directory file.                               *)
(***************************************************************************)
Entry(p, n) ==
  /\ pobjs'[p].refcnt = n /\ (pobjs'[p].name = None <=> n = 0)
  /\ \A q \in Pobjs : q # p => pobjs'[q] = pobjs[q]

SameTable ==
  /\ po' = po /\ to' = to
  /\ \A p \in Pobjs : /\ pobjs'[p].refcnt = pobjs[p].refcnt
                      /\ pobjs'[p].name = None <=> pobjs[p].name = None

PoTaken(t, p) ==
  /\ po[t] = None /\ po' = [po EXCEPT ![t] = p] /\ to' = to
  /\ Entry(p, pobjs[p].refcnt + 1)

PoPut(t, p) ==
  /\ po[t] = p /\ po' = [po EXCEPT ![t] = None] /\ to' = to
  /\ Entry(p, pobjs[p].refcnt - 1)

ToTaken(t, p) ==
  /\ to[t] = None /\ to' = [to EXCEPT ![t] = p] /\ po' = po
  /\ Entry(p, pobjs[p].refcnt + 1)

ToPut(t, p) ==
  /\ to[t] = p /\ to' = [to EXCEPT ![t] = None] /\ po' = po
  /\ Entry(p, pobjs[p].refcnt - 1)

TableDoes(t) ==
  \/ SameTable
  \/ \E p \in Pobjs : PoTaken(t, p) \/ PoPut(t, p) \/ ToTaken(t, p) \/ ToPut(t, p)

SameEnums == \A u \in Threads : dir'[u] = None <=> dir[u] = None

SameFiles(S) == \A u \in S : fh'[u] = None <=> fh[u] = None

RefsDoes(t) ==
  \/ refs' = refs /\ SameEnums /\ SameFiles(Threads)
  \/ /\ refs' = refs + 1 /\ SameEnums /\ SameFiles(Threads \ {t})
     /\ fh[t] = None /\ fh'[t] # None
  \/ /\ refs' = refs - 1 /\ SameEnums /\ SameFiles(Threads \ {t})
     /\ fh[t] # None /\ fh'[t] = None
  \/ /\ refs' = refs + 1 /\ SameFiles(Threads)
     /\ \A u \in Threads \ {t} : dir'[u] = None <=> dir[u] = None
     /\ dir[t] = None /\ dir'[t] # None
  \/ /\ refs' = refs - 1 /\ SameFiles(Threads)
     /\ \A u \in Threads \ {t} : dir'[u] = None <=> dir[u] = None
     /\ dir[t] # None /\ dir'[t] = None

DirDoes ==
  \/ dents' = dents /\ dirh' = dirh
  \/ \E e : Good(e) /\ dents' = e.dents /\ dirh' \in {None, e}

Does(t) ==
  Shape' /\ Held' /\ EnumKept' /\ TableDoes(t) /\ RefsDoes(t) /\ DirDoes

LEMMA TableKept ==
  ASSUME Inv, NEW t \in Threads, Shape', TableDoes(t)
  PROVE  Linked' /\ PobjRefs'
<1> DEFINE Users(p) == {u \in Threads : po[u] = p}
           Movers(p) == {u \in Threads : to[u] = p}
<1>1. \A p : Users(p) \subseteq Threads /\ Movers(p) \subseteq Threads
  OBVIOUS
<1>2. \A p \in Pobjs : /\ pobjs[p].refcnt = Cardinality(Users(p)) + Cardinality(Movers(p))
                       /\ Cardinality(Users(p)) \in Nat
                       /\ Cardinality(Movers(p)) \in Nat
  BY Counts, <1>1 DEF Inv, PobjRefs
<1>3. /\ pobjs \in [Pobjs -> Pobj] /\ pobjs' \in [Pobjs -> Pobj]
      /\ po \in [Threads -> {None} \cup Pobjs] /\ to \in [Threads -> {None} \cup Pobjs]
      /\ Linked
  BY DEF Inv, Shape
<1>4. SUFFICES ASSUME NEW q \in Pobjs
               PROVE  /\ pobjs'[q].name = None <=> pobjs'[q].refcnt = 0
                      /\ pobjs'[q].refcnt = Cardinality(Users(q)') + Cardinality(Movers(q)')
  BY DEF Linked, PobjRefs
<1>5. CASE SameTable
  <2>1. Users(q)' = Users(q) /\ Movers(q)' = Movers(q)
    BY <1>5 DEF SameTable
  <2>. QED BY <1>2, <1>3, <1>5, <2>1 DEF SameTable, Linked
<1>6. ASSUME NEW p \in Pobjs, p # q, Entry(p, pobjs'[p].refcnt), Users(q)' = Users(q),
             Movers(q)' = Movers(q)
      PROVE  /\ pobjs'[q].name = None <=> pobjs'[q].refcnt = 0
             /\ pobjs'[q].refcnt = Cardinality(Users(q)') + Cardinality(Movers(q)')
  <2>1. pobjs'[q] = pobjs[q]
    BY <1>6 DEF Entry
  <2>. QED BY <1>2, <1>3, <1>6, <2>1 DEF Linked
<1>7. ASSUME NEW p \in Pobjs, PoTaken(t, p) 
      PROVE  /\ pobjs'[q].name = None <=> pobjs'[q].refcnt = 0
             /\ pobjs'[q].refcnt = Cardinality(Users(q)') + Cardinality(Movers(q)')
  <2>1. Movers(q)' = Movers(q)
    BY <1>7 DEF PoTaken
  <2>2. CASE p = q
    <3>1. Users(q)' = Users(q) \cup {t} /\ t \notin Users(q)
      BY <1>3, <1>7, <2>2, NoneApart DEF PoTaken
    <3>2. Cardinality(Users(q)') = Cardinality(Users(q)) + 1
      BY <1>1, <3>1, Counts
    <3>3. /\ pobjs'[q].refcnt = pobjs[q].refcnt + 1
          /\ pobjs'[q].name = None <=> pobjs'[q].refcnt = 0
      BY <1>7, <2>2 DEF PoTaken, Entry
    <3> HIDE DEF Users, Movers
    <3>. QED BY <1>2, <2>1, <3>2, <3>3
  <2>3. CASE p # q
    <3>1. Users(q)' = Users(q)
      BY <1>3, <1>7, <2>3, NoneApart DEF PoTaken
    <3>. QED BY <1>6, <1>7, <2>1, <2>3, <3>1 DEF PoTaken, Entry
  <2>. QED BY <2>2, <2>3
<1>8. ASSUME NEW p \in Pobjs, PoPut(t, p)
      PROVE  /\ pobjs'[q].name = None <=> pobjs'[q].refcnt = 0
             /\ pobjs'[q].refcnt = Cardinality(Users(q)') + Cardinality(Movers(q)')
  <2>1. Movers(q)' = Movers(q)
    BY <1>8 DEF PoPut
  <2>2. CASE p = q
    <3>1. Users(q)' = Users(q) \ {t} /\ t \in Users(q)
      BY <1>3, <1>8, <2>2, NoneApart DEF PoPut
    <3>2. Cardinality(Users(q)') = Cardinality(Users(q)) - 1
      BY <1>1, <3>1, Counts
    <3>3. /\ pobjs'[q].refcnt = pobjs[q].refcnt - 1
          /\ pobjs'[q].name = None <=> pobjs'[q].refcnt = 0
      BY <1>8, <2>2 DEF PoPut, Entry
    <3> HIDE DEF Users, Movers
    <3>. QED BY <1>2, <2>1, <3>2, <3>3
  <2>3. CASE p # q
    <3>1. Users(q)' = Users(q)
      BY <1>3, <1>8, <2>3, NoneApart DEF PoPut
    <3>. QED BY <1>6, <1>8, <2>1, <2>3, <3>1 DEF PoPut, Entry
  <2>. QED BY <2>2, <2>3
<1>9. ASSUME NEW p \in Pobjs, ToTaken(t, p) 
      PROVE  /\ pobjs'[q].name = None <=> pobjs'[q].refcnt = 0
             /\ pobjs'[q].refcnt = Cardinality(Users(q)') + Cardinality(Movers(q)')
  <2>1. Users(q)' = Users(q)
    BY <1>9 DEF ToTaken
  <2>2. CASE p = q
    <3>1. Movers(q)' = Movers(q) \cup {t} /\ t \notin Movers(q)
      BY <1>3, <1>9, <2>2, NoneApart DEF ToTaken
    <3>2. Cardinality(Movers(q)') = Cardinality(Movers(q)) + 1
      BY <1>1, <3>1, Counts
    <3>3. /\ pobjs'[q].refcnt = pobjs[q].refcnt + 1
          /\ pobjs'[q].name = None <=> pobjs'[q].refcnt = 0
      BY <1>9, <2>2 DEF ToTaken, Entry
    <3> HIDE DEF Users, Movers
    <3>. QED BY <1>2, <2>1, <3>2, <3>3
  <2>3. CASE p # q
    <3>1. Movers(q)' = Movers(q)
      BY <1>3, <1>9, <2>3, NoneApart DEF ToTaken
    <3>. QED BY <1>6, <1>9, <2>1, <2>3, <3>1 DEF ToTaken, Entry
  <2>. QED BY <2>2, <2>3
<1>10. ASSUME NEW p \in Pobjs, ToPut(t, p)
      PROVE  /\ pobjs'[q].name = None <=> pobjs'[q].refcnt = 0
             /\ pobjs'[q].refcnt = Cardinality(Users(q)') + Cardinality(Movers(q)')
  <2>1. Users(q)' = Users(q)
    BY <1>10 DEF ToPut
  <2>2. CASE p = q
    <3>1. Movers(q)' = Movers(q) \ {t} /\ t \in Movers(q)
      BY <1>3, <1>10, <2>2, NoneApart DEF ToPut
    <3>2. Cardinality(Movers(q)') = Cardinality(Movers(q)) - 1
      BY <1>1, <3>1, Counts
    <3>3. /\ pobjs'[q].refcnt = pobjs[q].refcnt - 1
          /\ pobjs'[q].name = None <=> pobjs'[q].refcnt = 0
      BY <1>10, <2>2 DEF ToPut, Entry
    <3> HIDE DEF Users, Movers
    <3>. QED BY <1>2, <2>1, <3>2, <3>3
  <2>3. CASE p # q
    <3>1. Movers(q)' = Movers(q)
      BY <1>3, <1>10, <2>3, NoneApart DEF ToPut
    <3>. QED BY <1>6, <1>10, <2>1, <2>3, <3>1 DEF ToPut, Entry
  <2>. QED BY <2>2, <2>3
<1>. QED BY <1>5, <1>7, <1>8, <1>9, <1>10 DEF TableDoes

LEMMA RefsKept ==
  ASSUME Inv, NEW t \in Threads, RefsDoes(t)
  PROVE  DirhRefs'
<1> DEFINE Opens == {u \in Threads : fh[u] # None}
           Enums == {u \in Threads : dir[u] # None}
<1>1. /\ refs = Cardinality(Opens) + Cardinality(Enums)
      /\ Cardinality(Opens) \in Nat /\ Cardinality(Enums) \in Nat
  BY Counts DEF Inv, DirhRefs
<1>2. SUFFICES refs' = Cardinality(Opens') + Cardinality(Enums')
  BY DEF DirhRefs
<1>3. CASE refs' = refs /\ SameEnums /\ SameFiles(Threads)
  <2>1. Opens' = Opens /\ Enums' = Enums
    BY <1>3 DEF SameEnums, SameFiles
  <2>. QED BY <1>1, <1>3, <2>1
<1>4. CASE /\ refs' = refs + 1 /\ SameEnums /\ SameFiles(Threads \ {t})
           /\ fh[t] = None /\ fh'[t] # None
  <2>1. Opens' = Opens \cup {t} /\ t \notin Opens /\ Enums' = Enums
    BY <1>4 DEF SameEnums, SameFiles
  <2>2. Cardinality(Opens') = Cardinality(Opens) + 1
    BY <2>1, Counts
  <2> HIDE DEF Opens, Enums
  <2>. QED BY <1>1, <1>4, <2>1, <2>2
<1>5. CASE /\ refs' = refs - 1 /\ SameEnums /\ SameFiles(Threads \ {t})
           /\ fh[t] # None /\ fh'[t] = None
  <2>1. Opens' = Opens \ {t} /\ t \in Opens /\ Enums' = Enums
    BY <1>5 DEF SameEnums, SameFiles
  <2>2. Cardinality(Opens') = Cardinality(Opens) - 1
    BY <2>1, Counts
  <2> HIDE DEF Opens, Enums
  <2>. QED BY <1>1, <1>5, <2>1, <2>2
<1>6. CASE /\ refs' = refs + 1 /\ SameFiles(Threads)
           /\ \A u \in Threads \ {t} : dir'[u] = None <=> dir[u] = None
           /\ dir[t] = None /\ dir'[t] # None
  <2>1. Enums' = Enums \cup {t} /\ t \notin Enums /\ Opens' = Opens
    BY <1>6 DEF SameFiles
  <2>2. Cardinality(Enums') = Cardinality(Enums) + 1
    BY <2>1, Counts
  <2> HIDE DEF Opens, Enums
  <2>. QED BY <1>1, <1>6, <2>1, <2>2
<1>7. CASE /\ refs' = refs - 1 /\ SameFiles(Threads)
           /\ \A u \in Threads \ {t} : dir'[u] = None <=> dir[u] = None
           /\ dir[t] # None /\ dir'[t] = None
  <2>1. Enums' = Enums \ {t} /\ t \in Enums /\ Opens' = Opens
    BY <1>7 DEF SameFiles
  <2>2. Cardinality(Enums') = Cardinality(Enums) - 1
    BY <2>1, Counts
  <2> HIDE DEF Opens, Enums
  <2>. QED BY <1>1, <1>7, <2>1, <2>2
<1>. QED BY <1>3, <1>4, <1>5, <1>6, <1>7 DEF RefsDoes

LEMMA DirKept ==
  ASSUME Inv, DirDoes
  PROVE  Numbered' /\ DirhCommitted'
BY DEF Inv, DirDoes, Numbered, DirhCommitted, Good

LEMMA DoesKeeps ==
  ASSUME Inv, NEW t \in Threads, Does(t)
  PROVE  Inv'
BY TableKept, RefsKept, DirKept DEF Does, Inv

-----------------------------------------------------------------------------
(***************************************************************************)
(* The steps of a thread, one lemma each.                                  *)
(***************************************************************************)
LEMMA HasEntry ==
  ASSUME Inv, NEW t \in Threads
  PROVE  /\ pc[t] \notin NoEntry =>
              po[t] \in Pobjs /\ pobjs[po[t]].refcnt >= 1 /\ NameOf(t) \in Names
         /\ pc[t] \in Renaming => to[t] \in Pobjs /\ pobjs[to[t]].refcnt >= 1
<1> DEFINE Users(p) == {u \in Threads : po[u] = p}
           Movers(p) == {u \in Threads : to[u] = p}
<1>1. \A p \in Pobjs : /\ pobjs[p].refcnt = Cardinality(Users(p)) + Cardinality(Movers(p))
                       /\ Cardinality(Users(p)) \in Nat
                       /\ Cardinality(Movers(p)) \in Nat
                       /\ \A u \in Users(p) : Cardinality(Users(p)) >= 1
                       /\ \A u \in Movers(p) : Cardinality(Movers(p)) >= 1
  BY Counts DEF Inv, PobjRefs
<1>2. /\ pc[t] \notin NoEntry => po[t] \in Pobjs /\ t \in Users(po[t])
      /\ pc[t] \in Renaming => to[t] \in Pobjs /\ t \in Movers(to[t])
  BY DEF Inv, Shape, Held, HeldBy
<1> HIDE DEF Users, Movers
<1>3. /\ pc[t] \notin NoEntry => po[t] \in Pobjs /\ pobjs[po[t]].refcnt >= 1
      /\ pc[t] \in Renaming => to[t] \in Pobjs /\ pobjs[to[t]].refcnt >= 1
  BY <1>1, <1>2
<1>4. \A p \in Pobjs : pobjs[p].refcnt >= 1 => pobjs[p].name \in Names
  BY DEF Inv, Linked, Shape, Pobj
<1>. QED BY <1>3, <1>4 DEF NameOf

LEMMA HeldKept ==
  ASSUME Inv, NEW t \in Threads, HeldBy(t)',
         \A u \in Threads \ {t} :
           /\ pc'[u] = pc[u] /\ po'[u] = po[u] /\ to'[u] = to[u]
           /\ fh'[u] = fh[u] /\ arg'[u] = arg[u]
  PROVE  Held'
BY DEF Inv, Held, HeldBy

LEMMA GetsDoes ==
  ASSUME Inv, NEW n \in Names, NEW f \in Flags, NEW w, NEW over,
         Gets(n, f, w, over)
  PROVE  /\ Got(n) \in Pobjs /\ pobjs' \in [Pobjs -> Pobj]
         /\ Entry(Got(n), pobjs[Got(n)].refcnt + 1)
<1> DEFINE p == Got(n)
<1>1. p \in Pobjs /\ pobjs \in [Pobjs -> Pobj] /\ Linked
  BY DEF Gets, Inv, Shape
<1>2. CASE OfName(n) # {}
  <2>1. p \in OfName(n)
    <3>1. OfName(n) \subseteq Pobjs
      BY DEF OfName, Listed
    <3>2. IsFiniteSet(OfName(n)) /\ OfName(n) \subseteq Nat
      BY <3>1, NoneApart, FS_Subset
    <3>. QED BY <1>2, <3>2, MaxIsAbove DEF Got
  <2>2. pobjs' = [pobjs EXCEPT ![p].refcnt = @ + 1]
    BY <1>2 DEF Gets
  <2>4. /\ pobjs' \in [Pobjs -> Pobj]
        /\ pobjs'[p].refcnt = pobjs[p].refcnt + 1 /\ pobjs'[p].name = pobjs[p].name
        /\ \A q \in Pobjs : q # p => pobjs'[q] = pobjs[q]
    BY <1>1, <2>2 DEF Pobj
  <2>5. pobjs[p].name # None /\ pobjs[p].refcnt \in Nat
    BY <1>1, <2>1 DEF OfName, Listed, Pobj
  <2>. QED BY <1>1, <2>4, <2>5 DEF Entry
<1>3. CASE OfName(n) = {}
  <2>1. pobjs[p].name = None
    <3>1. CASE Listed = {}
      BY <1>1, <3>1 DEF Listed
    <3>2. CASE Listed # {}
      <4>1. IsFiniteSet(Listed) /\ Listed \subseteq Nat
        BY NoneApart, FS_Subset DEF Listed
      <4>2. Max(Listed) \in Nat /\ \A x \in Listed : Max(Listed) >= x
        BY <3>2, <4>1, MaxIsAbove
      <4>3. p = Max(Listed) + 1
        BY <1>3, <3>2 DEF Got
      <4>4. p \notin Listed
        BY <4>1, <4>2, <4>3
      <4>. QED BY <1>1, <4>4 DEF Listed
    <3>. QED BY <3>1, <3>2
  <2>2. pobjs' = [pobjs EXCEPT ![p] = [name |-> n, refcnt |-> 1, flags |-> f,
                                       creating |-> w = "create"]]
    BY <1>3 DEF Gets
  <2>3. [name |-> n, refcnt |-> 1, flags |-> f, creating |-> w = "create"] \in Pobj
    BY DEF Pobj
  <2>4. /\ pobjs' \in [Pobjs -> Pobj]
        /\ pobjs'[p].refcnt = 1 /\ pobjs'[p].name = n
        /\ \A q \in Pobjs : q # p => pobjs'[q] = pobjs[q]
    BY <1>1, <2>2, <2>3
  <2>5. pobjs[p].refcnt = 0
    BY <1>1, <2>1 DEF Linked
  <2>. QED BY <1>1, <2>4, <2>5, NoneApart DEF Entry
<1>. QED BY <1>2, <1>3

LEMMA ReleasedDoes ==
  ASSUME Inv, NEW p \in Pobjs, pobjs[p].refcnt >= 1, pobjs' = Released(p)
  PROVE  pobjs' \in [Pobjs -> Pobj] /\ Entry(p, pobjs[p].refcnt - 1)
<1>1. pobjs \in [Pobjs -> Pobj] /\ Linked /\ pobjs[p] \in Pobj
  BY DEF Inv, Shape
<1>2. CASE pobjs[p].refcnt = 1
  <2>1. pobjs' = [pobjs EXCEPT ![p] = NoPobj] /\ NoPobj \in Pobj
    BY <1>2 DEF Released, Pobj, NoPobj, Flags
  <2>. QED BY <1>1, <1>2, <2>1 DEF Entry, NoPobj
<1>3. CASE pobjs[p].refcnt # 1
  <2>1. pobjs' = [pobjs EXCEPT ![p].refcnt = @ - 1]
    BY <1>3 DEF Released
  <2>2. pobjs[p].refcnt \in Nat /\ pobjs[p].refcnt - 1 \in Nat \ {0}
    BY <1>1, <1>3 DEF Pobj
  <2>4. /\ pobjs' \in [Pobjs -> Pobj]
        /\ pobjs'[p].refcnt = pobjs[p].refcnt - 1 /\ pobjs'[p].name = pobjs[p].name
        /\ \A q \in Pobjs : q # p => pobjs'[q] = pobjs[q]
    BY <1>1, <2>1, <2>2 DEF Pobj
  <2>. QED BY <1>1, <2>2, <2>4 DEF Entry, Linked
<1>. QED BY <1>2, <1>3

(***************************************************************************)
(* Steps that only move a thread on, or change an entry's name or state.   *)
(***************************************************************************)
LEMMA MoveDoes ==
  ASSUME Inv, NEW t \in Threads, NEW l \in Places, Goto(t, l),
         UNCHANGED <<use, fsvars, thvars>>,
         pobjs' \in [Pobjs -> Pobj],
         \A p \in Pobjs : /\ pobjs'[p].refcnt = pobjs[p].refcnt
                          /\ pobjs'[p].name = None <=> pobjs[p].name = None,
         l \in NoEntry <=> pc[t] \in NoEntry,
         l \in Renaming <=> pc[t] \in Renaming,
         l \in NoFile => fh[t] = None,
         l \in HasFile => fh[t] # None,
         l # "enumGet"
  PROVE  Does(t)
<1>1. /\ pc' = [pc EXCEPT ![t] = l] /\ pc' \in [Threads -> Places]
      /\ UNCHANGED <<use, dents, dirh, refs, arg, po, to, fl, fh, dir>>
  BY DEF Goto, fsvars, thvars, Inv, Shape
<1>2. Shape'
  BY <1>1 DEF Inv, Shape
<1>3. Held'
  <2>1. pc'[t] = l /\ \A u \in Threads \ {t} : pc'[u] = pc[u]
    BY <1>1 DEF Inv, Shape
  <2>2. HeldBy(t)'
    BY <1>1, <2>1 DEF Inv, Held, HeldBy
  <2>. QED BY <1>1, <2>1, <2>2, HeldKept
<1>4. EnumKept'
  BY <1>1 DEF Inv, EnumKept
<1>5. TableDoes(t) /\ RefsDoes(t) /\ DirDoes
  BY <1>1 DEF TableDoes, SameTable, RefsDoes, SameEnums, SameFiles, DirDoes
<1>. QED BY <1>2, <1>3, <1>4, <1>5 DEF Does

LEMMA ReadHeadDoes ==
  ASSUME Inv, NEW t \in Threads, ReadHead(t)
  PROVE  Does(t)
<1>1. PICK l \in {"close", "have", "remove"} : Goto(t, l)
  BY DEF ReadHead, Answer
<1>2. pc[t] = "head" /\ fh[t] # None /\ l \in Places
  BY <1>1 DEF ReadHead, Inv, Held, HeldBy, HasFile, Places
<1>. QED BY <1>1, <1>2, MoveDoes
      DEF ReadHead, Inv, Shape, NoEntry, Renaming, NoFile, HasFile

LEMMA CreateFinalDoes ==
  ASSUME Inv, NEW t \in Threads, CreateFinal(t)
  PROVE  Does(t)
<1>1. PICK l \in {"close", "have"} : Goto(t, l)
  BY DEF CreateFinal
<1>2. pc[t] = "final" /\ fh[t] # None /\ l \in Places
  BY <1>1 DEF CreateFinal, Inv, Held, HeldBy, HasFile, Places
<1>3. po[t] \in Pobjs
  BY <1>2, HasEntry DEF NoEntry
<1>4. /\ pobjs' \in [Pobjs -> Pobj]
      /\ \A p \in Pobjs : /\ pobjs'[p].refcnt = pobjs[p].refcnt
                          /\ pobjs'[p].name = pobjs[p].name
  <2>1. pobjs \in [Pobjs -> Pobj]
    BY DEF Inv, Shape
  <2>2. CASE pobjs' = pobjs
    BY <2>1, <2>2
  <2>3. CASE pobjs' = [pobjs EXCEPT ![po[t]].creating = FALSE]
    <3>1. \A f \in [Pobjs -> Pobj] : [f EXCEPT ![po[t]].creating = FALSE] \in [Pobjs -> Pobj]
      BY <1>3 DEF Pobj
    <3>. QED BY <1>3, <2>1, <2>3, <3>1 DEF Pobj
  <2>. QED BY <2>2, <2>3 DEF CreateFinal
<1>. QED BY <1>1, <1>2, <1>4, MoveDoes
      DEF CreateFinal, NoEntry, Renaming, NoFile, HasFile

LEMMA ObjReadDoes ==
  ASSUME Inv, NEW t \in Threads, ObjRead(t)
  PROVE  Does(t)
<1>1. PICK l \in {"have", "remove"} : Goto(t, l)
  BY DEF ObjRead, Answer
<1>2. pc[t] = "have" /\ fh[t] # None /\ l \in Places
  BY <1>1 DEF ObjRead, Inv, Held, HeldBy, HasFile, Places
<1>. QED BY <1>1, <1>2, MoveDoes
      DEF ObjRead, Inv, Shape, NoEntry, Renaming, NoFile, HasFile

LEMMA ObjDelDoes ==
  ASSUME Inv, NEW t \in Threads, ObjDel(t)
  PROVE  Does(t)
<1>1. pc[t] = "have" /\ "remove" \in Places
  BY DEF ObjDel, Places
<1>. QED BY <1>1, MoveDoes
      DEF ObjDel, Inv, Shape, NoEntry, Renaming, NoFile, HasFile

LEMMA ObjCloseDoes ==
  ASSUME Inv, NEW t \in Threads, ObjClose(t)
  PROVE  Does(t)
<1>1. pc[t] \in {"have", "failed"} /\ "close" \in Places
  BY DEF ObjClose, Places
<1>. QED BY <1>1, MoveDoes
      DEF ObjClose, Inv, Shape, NoEntry, Renaming, NoFile, HasFile

LEMMA RenamePobjDoes ==
  ASSUME Inv, NEW t \in Threads, RenamePobj(t)
  PROVE  Does(t)
<1>1. /\ pc[t] = "renamePobj" /\ fh[t] # None /\ "renamed" \in Places
      /\ arg[t].name \in Names
  BY DEF RenamePobj, Inv, Shape, Held, HeldBy, HasFile, Renaming, Places, Arg
<1>2. po[t] \in Pobjs /\ NameOf(t) \in Names
  BY <1>1, HasEntry DEF NoEntry
<1>3. /\ pobjs' \in [Pobjs -> Pobj]
      /\ \A p \in Pobjs : /\ pobjs'[p].refcnt = pobjs[p].refcnt
                          /\ pobjs'[p].name = None <=> pobjs[p].name = None
  <2>1. pobjs \in [Pobjs -> Pobj]
    BY DEF Inv, Shape
  <2>2. CASE pobjs' = pobjs
    BY <2>1, <2>2
  <2>3. CASE pobjs' = [pobjs EXCEPT ![po[t]].name = arg[t].name]
    <3>1. /\ pobjs' \in [Pobjs -> Pobj] /\ pobjs'[po[t]].name = arg[t].name
          /\ pobjs'[po[t]].refcnt = pobjs[po[t]].refcnt
          /\ \A p \in Pobjs : p # po[t] => pobjs'[p] = pobjs[p]
      BY <1>1, <1>2, <2>1, <2>3 DEF Pobj
    <3>. QED BY <1>1, <1>2, <3>1, NoneApart DEF NameOf
  <2>. QED BY <2>2, <2>3 DEF RenamePobj
<1>. QED BY <1>1, <1>3, MoveDoes
      DEF RenamePobj, NoEntry, Renaming, NoFile, HasFile

-----------------------------------------------------------------------------
(***************************************************************************)
(* Steps of the table.                                                     *)
(***************************************************************************)
LEMMA BeginDoes ==
  ASSUME Inv, NEW t \in Threads, NEW o \in {"open", "create"}, NEW n \in Names,
         NEW f \in Flags, NEW over \in BOOLEAN, Begin(t, o, n, f, over)
  PROVE  Does(t)
<1> DEFINE p == Got(n)
<1>1. /\ p \in Pobjs /\ pobjs' \in [Pobjs -> Pobj]
      /\ Entry(p, pobjs[p].refcnt + 1)
  BY GetsDoes DEF Begin
<1> HIDE DEF p
<1>2. /\ pc[t] = "idle" /\ pc' = [pc EXCEPT ![t] = o]
      /\ po[t] = None /\ po' = [po EXCEPT ![t] = p]
      /\ arg' = [arg EXCEPT ![t] = [op |-> o, name |-> n, over |-> over]]
      /\ fl' = [fl EXCEPT ![t] = f]
      /\ UNCHANGED <<use, dents, dirh, refs, to, fh, dir>>
      /\ [op |-> o, name |-> n, over |-> over] \in Arg /\ o \in Places
  BY DEF Begin, Goto, fsvars, p, Arg, Places, NoFile
<1>3. Shape'
  BY <1>1, <1>2 DEF Inv, Shape
<1>4. Held'
  <2>1. /\ pc'[t] = o /\ po'[t] = p
        /\ \A u \in Threads \ {t} : pc'[u] = pc[u] /\ po'[u] = po[u] /\ arg'[u] = arg[u]
    BY <1>2 DEF Inv, Shape
  <2>2. HeldBy(t)'
    BY <1>1, <1>2, <2>1, NoneApart
       DEF Inv, Held, HeldBy, NoEntry, Renaming, NoFile, HasFile
  <2>. QED BY <1>2, <2>1, <2>2, HeldKept
<1>5. EnumKept'
  BY <1>2 DEF Inv, EnumKept
<1>6. TableDoes(t)
  BY <1>1, <1>2 DEF TableDoes, PoTaken
<1>7. RefsDoes(t) /\ DirDoes
  BY <1>2 DEF RefsDoes, SameEnums, SameFiles, DirDoes
<1>. QED BY <1>3, <1>4, <1>5, <1>6, <1>7 DEF Does

LEMMA ObjOpenDoes ==
  ASSUME Inv, NEW t \in Threads, ObjOpen(t)
  PROVE  Does(t)
<1>1. use.opens \subseteq Flags
  BY DEF Inv, Shape, Kinds
<1>. QED BY <1>1, BeginDoes DEF ObjOpen

LEMMA ObjCreateDoes ==
  ASSUME Inv, NEW t \in Threads, ObjCreate(t)
  PROVE  Does(t)
<1>1. use.creates \subseteq Flags /\ use.overs \subseteq BOOLEAN
  BY DEF Inv, Shape, Kinds
<1>. QED BY <1>1, BeginDoes DEF ObjCreate

LEMMA EnumGetDoes ==
  ASSUME Inv, NEW t \in Threads, EnumGet(t)
  PROVE  Does(t)
<1> DEFINE p == Got(arg[t].name)
<1>1. arg[t].name \in Names /\ {} \in Flags /\ pc[t] = "enumGet"
  BY DEF EnumGet, Inv, Shape, Held, HeldBy, Arg, Flags
<1>2. /\ p \in Pobjs /\ pobjs' \in [Pobjs -> Pobj]
      /\ Entry(p, pobjs[p].refcnt + 1)
  BY <1>1, GetsDoes DEF EnumGet
<1> HIDE DEF p
<1>3. /\ po[t] = None /\ po' = [po EXCEPT ![t] = p]
      /\ pc' = [pc EXCEPT ![t] = "enum"] /\ "enum" \in Places
      /\ UNCHANGED <<use, dents, dirh, refs, arg, to, fl, fh, dir>>
  BY <1>1 DEF EnumGet, Goto, fsvars, p, Inv, Held, HeldBy, NoEntry, Places, NoFile
<1>4. Shape'
  BY <1>2, <1>3 DEF Inv, Shape
<1>5. Held'
  <2>1. /\ pc'[t] = "enum" /\ po'[t] = p
        /\ \A u \in Threads \ {t} : pc'[u] = pc[u] /\ po'[u] = po[u]
    BY <1>3 DEF Inv, Shape
  <2>2. HeldBy(t)'
    BY <1>1, <1>2, <1>3, <2>1, NoneApart
       DEF Inv, Held, HeldBy, NoEntry, Renaming, NoFile, HasFile
  <2>. QED BY <1>3, <2>1, <2>2, HeldKept
<1>6. EnumKept'
  BY <1>3 DEF Inv, EnumKept
<1>7. TableDoes(t)
  BY <1>2, <1>3 DEF TableDoes, PoTaken
<1>8. RefsDoes(t) /\ DirDoes
  BY <1>3 DEF RefsDoes, SameEnums, SameFiles, DirDoes
<1>. QED BY <1>4, <1>5, <1>6, <1>7, <1>8 DEF Does

LEMMA ObjRenameDoes ==
  ASSUME Inv, NEW t \in Threads, ObjRename(t)
  PROVE  Does(t)
<1>1. PICK m \in Names :
        /\ pc[t] = "have" /\ Gets(m, {"meta"}, "rename", FALSE)
        /\ to' = [to EXCEPT ![t] = Got(m)]
        /\ arg' = [arg EXCEPT ![t].name = m]
        /\ pc' = [pc EXCEPT ![t] = "rename"]
        /\ UNCHANGED <<use, dents, dirh, refs, po, fl, fh, dir>>
  BY DEF ObjRename, Goto, fsvars
<1> DEFINE p == Got(m)
<1>2. /\ p \in Pobjs /\ pobjs' \in [Pobjs -> Pobj]
      /\ Entry(p, pobjs[p].refcnt + 1)
  BY <1>1, GetsDoes DEF Flags
<1>3. to' = [to EXCEPT ![t] = p]
  BY <1>1
<1> HIDE DEF p
<1>4. /\ to[t] = None /\ "rename" \in Places
      /\ arg' \in [Threads -> Arg] /\ arg'[t].name = m
      /\ \A u \in Threads \ {t} : arg'[u] = arg[u]
  BY <1>1 DEF Inv, Shape, Held, HeldBy, Renaming, Places, HasFile, Arg
<1>5. Shape'
  BY <1>1, <1>2, <1>3, <1>4 DEF Inv, Shape
<1>6. Held'
  <2>1. /\ pc'[t] = "rename" /\ to'[t] = p
        /\ \A u \in Threads \ {t} : pc'[u] = pc[u] /\ to'[u] = to[u]
    BY <1>1, <1>3 DEF Inv, Shape
  <2>2. HeldBy(t)'
    BY <1>1, <1>2, <1>4, <2>1, NoneApart
       DEF Inv, Held, HeldBy, NoEntry, Renaming, NoFile, HasFile
  <2>. QED BY <1>1, <1>4, <2>1, <2>2, HeldKept
<1>7. EnumKept'
  BY <1>1 DEF Inv, EnumKept
<1>8. TableDoes(t)
  BY <1>1, <1>2, <1>3, <1>4 DEF TableDoes, ToTaken
<1>9. RefsDoes(t) /\ DirDoes
  BY <1>1 DEF RefsDoes, SameEnums, SameFiles, DirDoes
<1>. QED BY <1>5, <1>6, <1>7, <1>8, <1>9 DEF Does

LEMMA RenamedDoes ==
  ASSUME Inv, NEW t \in Threads, Renamed(t)
  PROVE  Does(t)
<1> DEFINE p == to[t]
<1>1. /\ pc[t] = "renamed" /\ pobjs' = Released(p) /\ to' = [to EXCEPT ![t] = None]
      /\ pc' = [pc EXCEPT ![t] = "have"] /\ "have" \in Places /\ fh[t] # None
      /\ UNCHANGED <<use, dents, dirh, refs, arg, po, fl, fh, dir>>
  BY DEF Renamed, Goto, fsvars, Places, HasFile, Renaming, Inv, Held, HeldBy
<1>2. p \in Pobjs /\ pobjs[p].refcnt >= 1
  BY <1>1, HasEntry DEF Renaming
<1>3. pobjs' \in [Pobjs -> Pobj] /\ Entry(p, pobjs[p].refcnt - 1)
  BY <1>1, <1>2, ReleasedDoes
<1>4. Shape'
  BY <1>1, <1>3 DEF Inv, Shape
<1>5. Held'
  <2>1. /\ pc'[t] = "have" /\ to'[t] = None
        /\ \A u \in Threads \ {t} : pc'[u] = pc[u] /\ to'[u] = to[u]
    BY <1>1 DEF Inv, Shape
  <2>2. HeldBy(t)'
    BY <1>1, <2>1 DEF Inv, Held, HeldBy, NoEntry, Renaming, NoFile, HasFile
  <2>. QED BY <1>1, <2>1, <2>2, HeldKept
<1>6. EnumKept'
  BY <1>1 DEF Inv, EnumKept
<1>7. TableDoes(t)
  BY <1>1, <1>2, <1>3 DEF TableDoes, ToPut
<1>8. RefsDoes(t) /\ DirDoes
  BY <1>1 DEF RefsDoes, SameEnums, SameFiles, DirDoes
<1>. QED BY <1>4, <1>5, <1>6, <1>7, <1>8 DEF Does

LEMMA ReleaseDoes ==
  ASSUME Inv, NEW t \in Threads, Release(t)
  PROVE  Does(t)
<1> DEFINE p == po[t]
<1>1. /\ pc[t] = "release" /\ pobjs' = Released(p) /\ po' = [po EXCEPT ![t] = None]
      /\ fl' = [fl EXCEPT ![t] = {}] /\ arg' = [arg EXCEPT ![t] = NoArg]
      /\ pc' = [pc EXCEPT ![t] = "idle"] /\ "idle" \in Places
      /\ NoArg \in Arg /\ {} \in Flags
      /\ UNCHANGED <<use, dents, dirh, refs, to, fh, dir>>
  BY DEF Release, Goto, fsvars, Places, NoFile, NoEntry, Arg, NoArg, Flags
<1>2. p \in Pobjs /\ pobjs[p].refcnt >= 1
  BY <1>1, HasEntry DEF NoEntry
<1>3. pobjs' \in [Pobjs -> Pobj] /\ Entry(p, pobjs[p].refcnt - 1)
  BY <1>1, <1>2, ReleasedDoes
<1>4. Shape'
  BY <1>1, <1>3 DEF Inv, Shape
<1>5. Held'
  <2>1. /\ pc'[t] = "idle" /\ po'[t] = None
        /\ \A u \in Threads \ {t} : pc'[u] = pc[u] /\ po'[u] = po[u] /\ arg'[u] = arg[u]
    BY <1>1 DEF Inv, Shape
  <2>2. HeldBy(t)'
    BY <1>1, <2>1 DEF Inv, Held, HeldBy, NoEntry, Renaming, NoFile, HasFile
  <2>. QED BY <1>1, <2>1, <2>2, HeldKept
<1>6. EnumKept'
  BY <1>1 DEF Inv, EnumKept
<1>7. TableDoes(t)
  BY <1>1, <1>2, <1>3 DEF TableDoes, PoPut
<1>8. RefsDoes(t) /\ DirDoes
  BY <1>1 DEF RefsDoes, SameEnums, SameFiles, DirDoes
<1>. QED BY <1>4, <1>5, <1>6, <1>7, <1>8 DEF Does

-----------------------------------------------------------------------------
(***************************************************************************)
(* Steps of the file system.                                               *)
(***************************************************************************)
Handles(t) ==
  /\ fh' \in [Threads -> {None} \cup Handle]
  /\ \A u \in Threads \ {t} : fh'[u] = fh[u]

Filed(t) ==
  /\ dents' \in [Idxs -> Dent] /\ dirh' \in {None} \cup DirFile
  /\ refs' \in Nat /\ dir' \in [Threads -> {None} \cup Enumeration]
  /\ Handles(t) /\ EnumKept' /\ RefsDoes(t) /\ DirDoes
  /\ UNCHANGED <<use, pobjs, arg, po, to, fl>>

LEMMA FiledDoes ==
  ASSUME Inv, NEW t \in Threads, NEW l \in Places, Goto(t, l), Filed(t),
         l \in NoEntry <=> pc[t] \in NoEntry,
         l \in Renaming <=> pc[t] \in Renaming,
         l \in NoFile => fh'[t] = None,
         l \in HasFile => fh'[t] # None,
         l # "enumGet"
  PROVE  Does(t)
<1>1. /\ Shape /\ pc' = [pc EXCEPT ![t] = l]
      /\ UNCHANGED <<use, pobjs, arg, po, to, fl>>
  BY DEF Inv, Goto, Filed
<1>2. Shape'
  BY <1>1 DEF Shape, Filed, Handles
<1>3. /\ pc'[t] = l
      /\ \A u \in Threads \ {t} : pc'[u] = pc[u] /\ fh'[u] = fh[u]
  BY <1>1 DEF Shape, Filed, Handles
<1>4. HeldBy(t)'
  BY <1>1, <1>3 DEF Inv, Held, HeldBy
<1>5. Held'
  BY <1>1, <1>3, <1>4, HeldKept
<1>6. TableDoes(t)
  BY <1>1 DEF TableDoes, SameTable
<1>. QED BY <1>2, <1>5, <1>6 DEF Does, Filed

LEMMA LeftFiled ==
  ASSUME Inv, NEW t \in Threads, NEW d, Good(d), NEW n \in {0, 1}, Left(d, n),
         dents' = d.dents \/ (dirh' = None /\ dents' = dents),
         Handles(t),
         n = 1 => fh[t] = None /\ fh'[t] # None,
         n = 0 => (fh'[t] = None <=> fh[t] = None),
         UNCHANGED <<use, pobjs, arg, po, to, fl>>
  PROVE  Filed(t)
<1>1. Shape /\ d \in DirFile /\ Good(Dirh) /\ Dirh.dents = dents
  BY DirhIs DEF Inv, Good
<1>2. /\ refs' = refs + n /\ refs' \in Nat /\ dirh' \in {None, d}
      /\ dir' \in [Threads -> {None} \cup Enumeration]
      /\ \A u \in Threads : dir'[u] = None <=> dir[u] = None
      /\ EnumKept'
  BY DEF Left
<1>3. dents' \in [Idxs -> Dent]
  BY <1>1 DEF Shape, Good, DirFile
<1>4. RefsDoes(t)
  <2>1. CASE n = 0
    BY <1>1, <1>2, <2>1 DEF RefsDoes, SameEnums, SameFiles, Shape, Handles
  <2>2. CASE n = 1
    BY <1>1, <1>2, <2>2 DEF RefsDoes, SameEnums, SameFiles, Handles
  <2>. QED BY <2>1, <2>2
<1>5. DirDoes
  BY <1>1, <1>2 DEF DirDoes
<1>. QED BY <1>1, <1>2, <1>3, <1>4, <1>5 DEF Filed

LEMMA LeaveFails ==
  ASSUME Inv, NEW d, Leave(d, 0, TRUE)
  PROVE  Left(Dirh, 0) /\ dirh' = None
<1>1. /\ refs' = refs + 0 /\ refs' \in Nat /\ dirh' = None /\ Shape
      /\ dir' = Stale(dirh')
  BY DEF Leave, Inv, Shape
<1>. QED BY <1>1, StaleDoes DEF Left

(***************************************************************************)
(* A handle or an enumeration is counted.                                  *)
(***************************************************************************)
LEMMA RefsCover ==
  ASSUME Inv, NEW t \in Threads, fh[t] # None \/ dir[t] # None
  PROVE  refs >= 1
<1> DEFINE Opens == {u \in Threads : fh[u] # None}
           Enums == {u \in Threads : dir[u] # None}
<1>1. /\ refs = Cardinality(Opens) + Cardinality(Enums)
      /\ Cardinality(Opens) \in Nat /\ Cardinality(Enums) \in Nat
      /\ \A u \in Opens : Cardinality(Opens) >= 1
      /\ \A u \in Enums : Cardinality(Enums) >= 1
  BY Counts DEF Inv, DirhRefs
<1>2. t \in Opens \/ t \in Enums
  OBVIOUS
<1> HIDE DEF Opens, Enums
<1>. QED BY <1>1, <1>2

LEMMA NewVerIs ==
  ASSUME Writable
  PROVE  NewVer \in Vers
<1>1. IsFiniteSet(Vers \ Known) /\ Vers \ Known \subseteq Nat
  BY NoneApart, FS_Subset
<1>. QED BY <1>1, MinIsIn DEF Writable, NewVer

LEMMA EndStaleDoes ==
  ASSUME Shape, NEW t \in Threads, dir' = [Stale(dirh') EXCEPT ![t] = None]
  PROVE  /\ dir' \in [Threads -> {None} \cup Enumeration] /\ dir'[t] = None
         /\ \A u \in Threads \ {t} : dir'[u] = None <=> dir[u] = None
         /\ EnumKept'
<1> DEFINE g == Stale(dirh')
<1> HIDE DEF g
<1>1. /\ g \in [Threads -> {None} \cup Enumeration]
      /\ \A u \in Threads : g[u] = None <=> dir[u] = None
      /\ \A u \in Threads : g[u] # None /\ g[u].valid => dirh' # None
  BY StaleIs DEF g
<1>2. /\ dir' \in [Threads -> {None} \cup Enumeration] /\ dir'[t] = None
      /\ \A u \in Threads \ {t} : dir'[u] = g[u]
  BY <1>1 DEF g
<1>3. \A u \in Threads : dir'[u] # None => dir'[u] = g[u]
  BY <1>2
<1>. QED BY <1>1, <1>2, <1>3 DEF EnumKept

LEMMA NoDirhDoes ==
  ASSUME Inv, NEW t \in Threads, NEW l \in {"close", "renamed", "failed"},
         Goto(t, l), NoDirh, UNCHANGED <<use, pobjs, arg, po, to, fl, fh>>,
         pc[t] \in {"open", "enum", "create", "have", "rename", "remove"},
         l = "renamed" <=> pc[t] = "rename"
  PROVE  Does(t)
<1>1. /\ l \in Places /\ UNCHANGED <<use, fsvars, thvars>>
      /\ pobjs' \in [Pobjs -> Pobj]
      /\ l \in NoEntry <=> pc[t] \in NoEntry
      /\ l \in Renaming <=> pc[t] \in Renaming
      /\ l \notin NoFile
      /\ l \in HasFile => fh[t] # None
  BY DEF Places, NoDirh, thvars, Inv, Shape, Held, HeldBy, NoEntry, Renaming,
         NoFile, HasFile
<1>. QED BY <1>1, MoveDoes

LEMMA OpenFileDoes ==
  ASSUME Inv, NEW t \in Threads, OpenFile(t)
  PROVE  Does(t)
<1>1. /\ pc[t] \in {"open", "enum"} /\ fh[t] = None
      /\ Good(Dirh) /\ Dirh.dents = dents /\ Dirh.dents \in [Idxs -> Dent]
      /\ Dirh \in DirFile /\ Shape
      /\ UNCHANGED <<use, pobjs, arg, po, to, fl>>
      /\ fh \in [Threads -> {None} \cup Handle]
  BY DirhIs DEF OpenFile, Inv, Held, HeldBy, NoFile, Shape, Good
<1>2. CASE NoDirh /\ Goto(t, "close") /\ UNCHANGED fh
  BY <1>1, <1>2, NoDirhDoes
<1>3. ASSUME NEW l \in {"close", "remove"}, Goto(t, l), Leave(Dirh, 0, FALSE),
             UNCHANGED <<dents, files, fh>>
      PROVE  Does(t)
  <2>1. /\ fh' = [fh EXCEPT ![t] = None] /\ dents' = Dirh.dents
        /\ l \in Places /\ l \notin NoEntry /\ l \notin Renaming
        /\ l \notin NoFile /\ l \notin HasFile /\ l # "enumGet"
        /\ pc[t] \notin NoEntry /\ pc[t] \notin Renaming
    BY <1>1, <1>3 DEF Places, NoEntry, Renaming, NoFile, HasFile
  <2>2. Left(Dirh, 0)
    BY <1>1, <1>3, LeaveDoes
  <2>3. Handles(t) /\ fh'[t] = None
    BY <1>1, <2>1 DEF Handles
  <2>4. Filed(t)
    BY <1>1, <2>1, <2>2, <2>3, LeftFiled
  <2>. QED BY <1>3, <2>1, <2>3, <2>4, FiledDoes
<1>4. ASSUME NEW i \in Find(Dirh, NameOf(t)),
             Readable(Dirh.dents[i].fno, Dirh.dents[i].hash),
             fh' = [fh EXCEPT ![t] =
                      [idx |-> i, fno |-> Dirh.dents[i].fno,
                       ver |-> Dirh.dents[i].hash,
                       slot |-> SlotOf(Dirh.dents[i].fno, Dirh.dents[i].hash)]],
             Leave(Dirh, 1, FALSE), Goto(t, "head"), dents' = dents
      PROVE  Does(t)
  <2> DEFINE h == [idx |-> i, fno |-> Dirh.dents[i].fno, ver |-> Dirh.dents[i].hash,
                   slot |-> SlotOf(Dirh.dents[i].fno, Dirh.dents[i].hash)]
  <2>1. SlotOf(Dirh.dents[i].fno, Dirh.dents[i].hash) \in 0 .. 1
    BY <1>4 DEF Readable, SlotOf
  <2>2. i \in Idxs /\ Dirh.dents[i] \in Dent
    BY <1>1, <1>4 DEF Find
  <2>3. h \in Handle
    BY <2>1, <2>2 DEF Handle, Dent
  <2>4. fh' = [fh EXCEPT ![t] = h]
    BY <1>4
  <2> HIDE DEF h
  <2>5. /\ h # None /\ "head" \in Places /\ "head" \notin NoEntry
        /\ "head" \notin Renaming /\ "head" \notin NoFile /\ "head" # "enumGet"
        /\ pc[t] \notin NoEntry /\ pc[t] \notin Renaming
    BY <1>1, <2>3, NoneApart DEF Places, NoEntry, Renaming, NoFile, HasFile
  <2>6. Left(Dirh, 1)
    BY <1>1, <1>4, LeaveDoes
  <2>7. Handles(t) /\ fh'[t] # None
    BY <1>1, <2>3, <2>4, <2>5 DEF Handles
  <2>8. Filed(t)
    BY <1>1, <1>4, <2>6, <2>7, LeftFiled
  <2>. QED BY <1>4, <2>5, <2>7, <2>8, FiledDoes
<1>. QED BY <1>1, <1>2, <1>3, <1>4 DEF OpenFile

LEMMA CreateFileDoes ==
  ASSUME Inv, NEW t \in Threads, CreateFile(t)
  PROVE  Does(t)
<1>1. /\ pc[t] = "create" /\ fh[t] = None
      /\ Good(Dirh) /\ Dirh.dents = dents /\ Dirh.dents \in [Idxs -> Dent]
      /\ Dirh \in DirFile /\ Shape
      /\ UNCHANGED <<use, pobjs, arg, po, to, fl>>
      /\ fh \in [Threads -> {None} \cup Handle]
  BY DirhIs DEF CreateFile, Inv, Held, HeldBy, NoFile, Shape, Good
<1>2. CASE NoDirh /\ Goto(t, "close") /\ UNCHANGED fh
  BY <1>1, <1>2, NoDirhDoes
<1>3. CASE /\ Room(Dirh, NameOf(t)) /\ Writable
           /\ \/ CreateFails(t, Dirh, Min(FreeFno(Dirh)))
              \/ CreateLate(t, Dirh, Min(FreeFno(Dirh)))
              \/ CreateDone(t, Dirh, Min(FreeFno(Dirh)))
  <2> DEFINE f == Min(FreeFno(Dirh))
             i == DentFor(Dirh, NameOf(t))
             e == Named(Dirh, NameOf(t), f)
             h == [idx |-> i, fno |-> f, slot |-> 0, ver |-> NewVer]
  <2>1. NameOf(t) \in Names
    BY <1>1, HasEntry DEF NoEntry
  <2>2. f \in Nat /\ f \notin Dirh.bits
    <3>1. /\ FreeFno(Dirh) # {} /\ FreeFno(Dirh) \subseteq Fnos
          /\ FreeFno(Dirh) \cap Dirh.bits = {}
      BY <1>3 DEF Room, FreeFno
    <3>2. IsFiniteSet(FreeFno(Dirh)) /\ FreeFno(Dirh) \subseteq Nat
      BY <3>1, NoneApart, FS_Subset
    <3>. QED BY <3>1, <3>2, MinIsIn
  <2>3. NewVer \in Vers
    BY <1>3, NewVerIs
  <2>4. i \in Idxs
    <3>1. \A x : Find(Dirh, x) \subseteq Idxs
      BY DEF Find
    <3>2. \A x : IsFiniteSet(Find(Dirh, x)) /\ Find(Dirh, x) \subseteq Nat
      BY <3>1, NoneApart, FS_Subset
    <3>3. \A x : Find(Dirh, x) # {} => Min(Find(Dirh, x)) \in Idxs
      BY <3>1, <3>2, MinIsIn
    <3>. QED BY <1>3, <3>3 DEF Room, DentFor
  <2>5. Good(e)
    <3> HIDE DEF f, i
    <3>. QED BY <1>1, <2>1, <2>2, <2>3, <2>4, SetGood DEF Named, i
  <2>6. h \in Handle /\ h # None
    <3>1. h \in Handle
      BY <2>2, <2>3, <2>4 DEF Handle
    <3>. QED BY <3>1, NoneApart
  <2>7. CASE CreateFails(t, Dirh, f)
    <3>1. PICK l \in {"close", "remove"} :
            /\ Goto(t, l) /\ Leave(e, 0, TRUE) /\ UNCHANGED <<dents, fh>>
      BY <2>7 DEF CreateFails
    <3> HIDE DEF e
    <3>2. /\ fh' = [fh EXCEPT ![t] = None] /\ dents' = dents
          /\ l \in Places /\ l \notin NoEntry /\ l \notin Renaming
          /\ l \notin NoFile /\ l \notin HasFile /\ l # "enumGet"
          /\ pc[t] \notin NoEntry /\ pc[t] \notin Renaming
      BY <1>1, <3>1 DEF Places, NoEntry, Renaming, NoFile, HasFile
    <3>3. Left(e, 0) /\ dirh' = None
      BY <1>1, <2>5, <3>1, LeaveDoes DEF Good
    <3>4. Handles(t) /\ fh'[t] = None
      BY <1>1, <3>2 DEF Handles
    <3>5. Filed(t)
      BY <1>1, <2>5, <3>2, <3>3, <3>4, LeftFiled
    <3>. QED BY <3>1, <3>2, <3>4, <3>5, FiledDoes
  <2>9. CASE CreateLate(t, Dirh, f)
    <3>1. PICK l \in {"close", "remove"} :
            /\ Goto(t, l) /\ Leave(e, 0, TRUE) /\ UNCHANGED fh
            /\ dents' = e.dents
      BY <2>9 DEF CreateLate, Commit
    <3> HIDE DEF e
    <3>2. /\ fh' = [fh EXCEPT ![t] = None]
          /\ l \in Places /\ l \notin NoEntry /\ l \notin Renaming
          /\ l \notin NoFile /\ l \notin HasFile /\ l # "enumGet"
          /\ pc[t] \notin NoEntry /\ pc[t] \notin Renaming
      BY <1>1, <3>1 DEF Places, NoEntry, Renaming, NoFile, HasFile
    <3>3. Left(e, 0)
      BY <1>1, <2>5, <3>1, LeaveDoes DEF Good
    <3>4. Handles(t) /\ fh'[t] = None
      BY <1>1, <3>2 DEF Handles
    <3>5. Filed(t)
      BY <1>1, <2>5, <3>1, <3>3, <3>4, LeftFiled
    <3>. QED BY <3>1, <3>2, <3>4, <3>5, FiledDoes
  <2>8. CASE CreateDone(t, Dirh, f)
    <3>1. /\ dents' = e.dents /\ fh' = [fh EXCEPT ![t] = h]
          /\ Leave(e, 1, FALSE) /\ Goto(t, "final")
      BY <2>8 DEF CreateDone, Commit
    <3> HIDE DEF e, h
    <3>2. /\ "final" \in Places /\ "final" \notin NoEntry
          /\ "final" \notin Renaming /\ "final" \notin NoFile
          /\ "final" # "enumGet"
          /\ pc[t] \notin NoEntry /\ pc[t] \notin Renaming
      BY <1>1 DEF Places, NoEntry, Renaming, NoFile, HasFile
    <3>3. Left(e, 1)
      BY <1>1, <2>5, <3>1, LeaveDoes DEF Good
    <3>4. Handles(t) /\ fh'[t] # None
      BY <1>1, <2>6, <3>1 DEF Handles
    <3>5. Filed(t)
      BY <1>1, <2>5, <3>1, <3>3, <3>4, LeftFiled
    <3>. QED BY <3>1, <3>2, <3>4, <3>5, FiledDoes
  <2>. QED BY <1>3, <2>7, <2>8, <2>9
<1>. QED BY <1>2, <1>3 DEF CreateFile

LEMMA ObjWriteDoes ==
  ASSUME Inv, NEW t \in Threads, ObjWrite(t)
  PROVE  Does(t)
<1> DEFINE h == fh[t]
           e == SetDent(Dirh, h.idx, Dirh.dents[h.idx].name, h.fno, NewVer)
<1>1. /\ pc[t] = "have" /\ fh[t] # None
      /\ Good(Dirh) /\ Dirh.dents = dents /\ Dirh.dents \in [Idxs -> Dent]
      /\ Dirh \in DirFile /\ Shape
      /\ UNCHANGED <<use, pobjs, arg, po, to, fl>>
      /\ fh \in [Threads -> {None} \cup Handle]
  BY DirhIs DEF ObjWrite, Inv, Held, HeldBy, HasFile, Shape, Good
<1>2. /\ h \in Handle /\ h.idx \in Idxs /\ h.fno \in Nat /\ h.slot \in 0 .. 1
      /\ Dirh.dents[h.idx].name \in Names \cup {None}
  BY <1>1 DEF Handle, Dent
<1>3. pc[t] \notin NoEntry /\ pc[t] \notin Renaming
  BY <1>1 DEF NoEntry, Renaming
<1>4. CASE NoDirh /\ Goto(t, "failed") /\ UNCHANGED fh
  BY <1>1, <1>4, NoDirhDoes
<1>5. CASE /\ Leave(e, 0, TRUE) /\ (Goto(t, "failed") \/ Goto(t, "remove"))
           /\ UNCHANGED <<dents, fh>>
  <2>1. PICK l \in {"failed", "remove"} : Goto(t, l)
    BY <1>5
  <2>2. /\ l \in Places /\ l \notin NoEntry /\ l \notin Renaming
        /\ l \notin NoFile /\ l \notin HasFile /\ l # "enumGet"
    BY DEF Places, NoEntry, Renaming, NoFile, HasFile
  <2>3. Left(Dirh, 0) /\ dirh' = None
    BY <1>1, <1>5, LeaveFails
  <2>4. Handles(t) /\ fh'[t] # None
    BY <1>1, <1>5 DEF Handles
  <2>5. Filed(t)
    BY <1>1, <1>5, <2>3, <2>4, LeftFiled
  <2>. QED BY <1>3, <2>1, <2>2, <2>4, <2>5, FiledDoes
<1>6. CASE /\ SameFile(t) /\ Writable /\ Commit(e) /\ Leave(e, 0, FALSE)
           /\ fh' = [fh EXCEPT ![t].slot = 1 - h.slot, ![t].ver = NewVer]
           /\ UNCHANGED pc
  <2>1. NewVer \in Vers
    BY <1>6, NewVerIs
  <2>2. Good(e) /\ dents' = e.dents
    BY <1>1, <1>2, <1>6, <2>1, SetGood DEF SameFile, Commit
  <2>3. Left(e, 0)
    BY <1>1, <1>6, <2>2, LeaveDoes DEF Good
  <2>4. Handles(t) /\ fh'[t] # None
    <3>1. [fh[t] EXCEPT !.slot = 1 - h.slot, !.ver = NewVer] \in Handle
      <4>1. 1 - h.slot \in 0 .. 1
        BY <1>2
      <4>. QED BY <1>2, <2>1, <4>1 DEF Handle
    <3>2. fh' = [fh EXCEPT ![t] = [fh[t] EXCEPT !.slot = 1 - h.slot, !.ver = NewVer]]
      BY <1>1, <1>6
    <3>. QED BY <1>1, <3>1, <3>2, NoneApart DEF Handles
  <2>5. Filed(t)
    BY <1>1, <2>2, <2>3, <2>4, LeftFiled
  <2>6. Goto(t, "have") /\ "have" \in Places /\ "have" \notin NoFile
        /\ "have" # "enumGet"
    BY <1>1, <1>6 DEF Goto, Shape, Places, HasFile, NoFile, NoEntry
  <2>. QED BY <1>1, <2>4, <2>5, <2>6, FiledDoes
<1>7. CASE /\ SameFile(t) /\ Writable /\ Commit(e) /\ Leave(e, 0, TRUE)
           /\ (Goto(t, "failed") \/ Goto(t, "remove"))
           /\ UNCHANGED fh
  <2>1. NewVer \in Vers
    BY <1>7, NewVerIs
  <2>2. Good(e) /\ dents' = e.dents
    BY <1>1, <1>2, <1>7, <2>1, SetGood DEF SameFile, Commit
  <2>3. Left(e, 0)
    BY <1>1, <1>7, <2>2, LeaveDoes DEF Good
  <2>4. Handles(t) /\ fh'[t] # None
    BY <1>1, <1>7 DEF Handles
  <2>5. Filed(t)
    BY <1>1, <2>2, <2>3, <2>4, LeftFiled
  <2>6. PICK l \in {"failed", "remove"} : Goto(t, l)
    BY <1>7
  <2>7. /\ l \in Places /\ l \notin NoEntry /\ l \notin Renaming
        /\ l \notin NoFile /\ l \notin HasFile /\ l # "enumGet"
    BY DEF Places, NoEntry, Renaming, NoFile, HasFile
  <2>. QED BY <1>3, <2>4, <2>5, <2>6, <2>7, FiledDoes
<1>. QED BY <1>4, <1>5, <1>6, <1>7 DEF ObjWrite

LEMMA RenameFileDoes ==
  ASSUME Inv, NEW t \in Threads, RenameFile(t)
  PROVE  Does(t)
<1>1. /\ pc[t] = "rename" /\ fh[t] # None /\ arg[t].name \in Names
      /\ Good(Dirh) /\ Dirh.dents = dents /\ Dirh.dents \in [Idxs -> Dent]
      /\ Dirh \in DirFile /\ Shape
      /\ UNCHANGED <<use, pobjs, arg, po, to, fl, fh>>
      /\ Handles(t) /\ fh'[t] # None
  BY DirhIs DEF RenameFile, Inv, Held, HeldBy, HasFile, Renaming, Shape, Good,
     Arg, Handles
<1>2. \A l \in {"renamed", "renamePobj"} :
        /\ l \in Places /\ l \notin NoEntry /\ l \in Renaming
        /\ l \notin NoFile /\ l # "enumGet"
  BY DEF Places, NoEntry, Renaming, NoFile, HasFile
<1>3. pc[t] \notin NoEntry /\ pc[t] \in Renaming
  BY <1>1 DEF NoEntry, Renaming
<1>4. CASE NoDirh /\ Goto(t, "renamed")
  BY <1>1, <1>4, NoDirhDoes
<1>5. ASSUME NEW d, Leave(d, 0, TRUE), Goto(t, "renamed"), dents' = dents
      PROVE  Does(t)
  <2>1. Left(Dirh, 0) /\ dirh' = None
    BY <1>1, <1>5, LeaveFails
  <2>2. Filed(t)
    BY <1>1, <1>5, <2>1, LeftFiled
  <2>. QED BY <1>1, <1>2, <1>3, <1>5, <2>2, FiledDoes
<1>6. ASSUME NEW i \in Find(Dirh, NameOf(t)), Commit(Moved(Dirh, i, arg[t].name)),
             NEW late \in BOOLEAN, Leave(Moved(Dirh, i, arg[t].name), 0, late),
             NEW l \in {"renamed", "renamePobj"}, Goto(t, l)
      PROVE  Does(t)
  <2> DEFINE e == Moved(Dirh, i, arg[t].name)
  <2>1. i \in Idxs /\ Dirh.dents[i].name # None /\ Dirh.dents[i] \in Dent
    BY <1>1, <1>3, <1>6, HasEntry, NoneApart DEF Find
  <2>2. Good(e)
    BY <1>1, <2>1, SetGood DEF Moved, Dent
  <2>3. dents' = e.dents
    BY <1>6 DEF Commit
  <2> HIDE DEF e
  <2>4. Left(e, 0)
    BY <1>1, <1>6, <2>2, LeaveDoes DEF Good, e
  <2>5. Filed(t)
    BY <1>1, <2>2, <2>3, <2>4, LeftFiled
  <2>. QED BY <1>1, <1>2, <1>3, <1>6, <2>5, FiledDoes
<1>. QED BY <1>4, <1>5, <1>6 DEF RenameFile

LEMMA RemoveFileDoes ==
  ASSUME Inv, NEW t \in Threads, RemoveFile(t)
  PROVE  Does(t)
<1>1. /\ pc[t] = "remove" /\ Goto(t, "close")
      /\ Good(Dirh) /\ Dirh.dents = dents /\ Dirh.dents \in [Idxs -> Dent]
      /\ Dirh \in DirFile /\ Shape
      /\ UNCHANGED <<use, pobjs, arg, po, to, fl, fh>>
      /\ Handles(t)
  BY DirhIs DEF RemoveFile, Inv, Shape, Good, Handles
<1>2. /\ "close" \in Places /\ "close" \notin NoEntry /\ "close" \notin Renaming
      /\ "close" \notin NoFile /\ "close" \notin HasFile /\ "close" # "enumGet"
      /\ pc[t] \notin NoEntry /\ pc[t] \notin Renaming
  BY <1>1 DEF Places, NoEntry, Renaming, NoFile, HasFile
<1>3. CASE NoDirh
  BY <1>1, <1>3, NoDirhDoes
<1>4. ASSUME NEW d, Leave(d, 0, TRUE), dents' = dents
      PROVE  Does(t)
  <2>1. Left(Dirh, 0) /\ dirh' = None
    BY <1>1, <1>4, LeaveFails
  <2>2. Filed(t)
    BY <1>1, <1>4, <2>1, LeftFiled
  <2>. QED BY <1>1, <1>2, <2>2, FiledDoes
<1>5. ASSUME NEW i \in Find(Dirh, NameOf(t)), Commit(ClearDent(Dirh, i)),
             NEW late \in BOOLEAN, Leave(ClearDent(Dirh, i), 0, late)
      PROVE  Does(t)
  <2> DEFINE e == ClearDent(Dirh, i)
  <2>1. i \in Idxs /\ Dirh.dents[i].name # None
    BY <1>2, <1>5, HasEntry, NoneApart DEF Find
  <2>2. Good(e)
    BY <1>1, <2>1, ClearGood
  <2>3. dents' = e.dents
    BY <1>5 DEF Commit
  <2> HIDE DEF e
  <2>4. Left(e, 0)
    BY <1>1, <1>5, <2>2, LeaveDoes DEF Good, e
  <2>5. Filed(t)
    BY <1>1, <2>2, <2>3, <2>4, LeftFiled
  <2>. QED BY <1>1, <1>2, <2>5, FiledDoes
<1>. QED BY <1>3, <1>4, <1>5 DEF RemoveFile

LEMMA CloseFileDoes ==
  ASSUME Inv, NEW t \in Threads, CloseFile(t)
  PROVE  Does(t)
<1>1. /\ pc[t] = "close" /\ Goto(t, "release") /\ Shape
      /\ fh' = [fh EXCEPT ![t] = None]
      /\ UNCHANGED <<use, dents, pobjs, arg, po, to, fl>>
  BY DEF CloseFile, Inv
<1>2. Handles(t) /\ fh'[t] = None
  BY <1>1 DEF Handles, Shape
<1>3. /\ "release" \in Places /\ "release" \notin NoEntry
      /\ "release" \notin Renaming /\ "release" \notin HasFile
      /\ "release" # "enumGet"
      /\ pc[t] \notin NoEntry /\ pc[t] \notin Renaming
  BY <1>1 DEF Places, NoEntry, Renaming, NoFile, HasFile
<1>4. Filed(t)
  <2>1. CASE fh[t] = None
    <3>1. UNCHANGED <<dirh, refs, dir>>
      BY <2>1 DEF CloseFile
    <3>2. RefsDoes(t) /\ DirDoes /\ EnumKept'
      BY <1>1, <1>2, <2>1, <3>1
         DEF RefsDoes, SameEnums, SameFiles, Handles, DirDoes, EnumKept, Inv
    <3>. QED BY <1>1, <1>2, <3>1, <3>2 DEF Filed, Shape
  <2>2. CASE fh[t] # None
    <3>1. /\ refs' = refs - 1 /\ dirh' \in {None, dirh} /\ dir' = Stale(dirh')
      BY <2>2 DEF CloseFile
    <3>2. refs' \in Nat
      BY <2>2, <3>1, RefsCover DEF Inv, Shape
    <3>3. /\ dir' \in [Threads -> {None} \cup Enumeration]
          /\ \A u \in Threads : dir'[u] = None <=> dir[u] = None
          /\ EnumKept'
      BY <1>1, <3>1, StaleDoes
    <3>4. RefsDoes(t)
      BY <1>2, <2>2, <3>1, <3>3 DEF RefsDoes, SameEnums, SameFiles, Handles
    <3>5. DirDoes
      BY <1>1, <3>1, DirhIs DEF DirDoes, Inv
    <3>. QED BY <1>1, <1>2, <3>1, <3>2, <3>3, <3>4, <3>5 DEF Filed, Shape
  <2>. QED BY <2>1, <2>2
<1>. QED BY <1>1, <1>2, <1>3, <1>4, FiledDoes

-----------------------------------------------------------------------------
(***************************************************************************)
(* Steps of an enumeration.                                                *)
(***************************************************************************)
LEMMA StartEnumDoes ==
  ASSUME Inv, NEW t \in Threads, StartEnum(t)
  PROVE  Does(t)
<1>1. /\ dir[t] = None /\ refs' = refs + 1 /\ dirh' = Dirh
      /\ dir' = [dir EXCEPT ![t] = [idx |-> 0, valid |-> TRUE]]
      /\ UNCHANGED <<use, dents, pobjs, pc, arg, po, to, fl, fh>>
      /\ Good(Dirh) /\ Dirh.dents = dents /\ Dirh \in DirFile /\ Shape
  BY DirhIs DEF StartEnum, Inv, Good
<1>2. /\ [idx |-> 0, valid |-> TRUE] \in Enumeration
      /\ [idx |-> 0, valid |-> TRUE] # None
  <2>1. [idx |-> 0, valid |-> TRUE] \in Enumeration
    BY DEF Enumeration
  <2>. QED BY <2>1, NoneApart
<1>3. /\ dir' \in [Threads -> {None} \cup Enumeration] /\ dir'[t] # None
      /\ \A u \in Threads \ {t} : dir'[u] = dir[u]
  BY <1>1, <1>2 DEF Shape
<1>4. Shape'
  BY <1>1, <1>3 DEF Shape
<1>5. Held' /\ TableDoes(t)
  BY <1>1 DEF Inv, Held, HeldBy, TableDoes, SameTable
<1>6. EnumKept'
  BY <1>1, NoneApart DEF EnumKept
<1>7. RefsDoes(t) /\ DirDoes
  BY <1>1, <1>3 DEF RefsDoes, SameFiles, DirDoes
<1>. QED BY <1>4, <1>5, <1>6, <1>7 DEF Does

LEMMA NextEnumDoes ==
  ASSUME Inv, NEW t \in Threads, NextEnum(t)
  PROVE  Does(t)
<1> DEFINE i == Min(Ahead(t))
           a == [op |-> "enum", over |-> FALSE, name |-> dirh.dents[i].name]
<1>1. /\ pc[t] = "idle" /\ dir[t] # None /\ dir[t].valid /\ Ahead(t) # {}
      /\ dir' = [dir EXCEPT ![t].idx = i] /\ arg' = [arg EXCEPT ![t] = a]
      /\ pc' = [pc EXCEPT ![t] = "enumGet"] /\ "enumGet" \in Places
      /\ UNCHANGED <<use, dents, dirh, refs, pobjs, po, to, fl, fh>> /\ Shape
  BY DEF NextEnum, Goto, fsvars, Inv, Places, NoFile, NoEntry
<1>2. i \in Idxs /\ dirh.dents[i].name # None
  <2>1. IsFiniteSet(Ahead(t)) /\ Ahead(t) \subseteq Nat
    BY NoneApart, FS_Subset DEF Ahead
  <2>2. i \in Ahead(t)
    BY <1>1, <2>1, MinIsIn
  <2>. QED BY <2>2 DEF Ahead
<1>3. dirh \in DirFile
  BY <1>1 DEF Inv, EnumKept, Shape
<1>4. a \in Arg /\ a.name # None
  BY <1>2, <1>3 DEF Arg, DirFile, Dent
<1> HIDE DEF a, i
<1>5. /\ dir' \in [Threads -> {None} \cup Enumeration]
      /\ dir'[t] # None /\ \A u \in Threads \ {t} : dir'[u] = dir[u]
  <2>1. dir[t] \in Enumeration /\ i \in Nat
    BY <1>1, <1>2, NoneApart DEF Shape
  <2>2. [dir[t] EXCEPT !.idx = i] \in Enumeration
    BY <2>1 DEF Enumeration
  <2>3. dir' = [dir EXCEPT ![t] = [dir[t] EXCEPT !.idx = i]]
    BY <1>1
  <2>. QED BY <1>1, <2>2, <2>3, NoneApart DEF Shape
<1>6. Shape'
  BY <1>1, <1>4, <1>5 DEF Shape
<1>7. Held'
  <2>1. /\ pc'[t] = "enumGet" /\ arg'[t] = a
        /\ \A u \in Threads \ {t} : pc'[u] = pc[u] /\ arg'[u] = arg[u]
    BY <1>1 DEF Shape
  <2>2. HeldBy(t)'
    BY <1>1, <1>4, <2>1 DEF Inv, Held, HeldBy, NoEntry, Renaming, NoFile, HasFile
  <2>. QED BY <1>1, <2>1, <2>2, HeldKept
<1>8. EnumKept'
  BY <1>1, <1>3, NoneApart DEF EnumKept
<1>9. TableDoes(t) /\ RefsDoes(t) /\ DirDoes
  BY <1>1, <1>5 DEF TableDoes, SameTable, RefsDoes, SameEnums, SameFiles, DirDoes
<1>. QED BY <1>6, <1>7, <1>8, <1>9 DEF Does

LEMMA EndEnumDoes ==
  ASSUME Inv, NEW t \in Threads, EndEnum(t)
  PROVE  Does(t)
<1>1. /\ dir[t] # None /\ refs' = refs - 1 /\ dirh' \in {None, dirh}
      /\ dir' = [Stale(dirh') EXCEPT ![t] = None]
      /\ UNCHANGED <<use, dents, pobjs, pc, arg, po, to, fl, fh>> /\ Shape
  BY DEF EndEnum, Inv
<1>2. refs' \in Nat
  BY <1>1, RefsCover DEF Shape
<1>3. /\ dir' \in [Threads -> {None} \cup Enumeration] /\ dir'[t] = None
      /\ \A u \in Threads \ {t} : dir'[u] = None <=> dir[u] = None
      /\ EnumKept'
  BY <1>1, EndStaleDoes
<1>4. Shape'
  BY <1>1, <1>2, <1>3 DEF Shape
<1>5. Held' /\ TableDoes(t)
  BY <1>1 DEF Inv, Held, HeldBy, TableDoes, SameTable
<1>6. RefsDoes(t)
  BY <1>1, <1>3 DEF RefsDoes, SameFiles
<1>7. DirDoes
  BY <1>1, DirhIs DEF DirDoes, Inv
<1>. QED BY <1>3, <1>4, <1>5, <1>6, <1>7 DEF Does

-----------------------------------------------------------------------------
LEMMA StepDoes ==
  ASSUME Inv, NEW t \in Threads, Step(t)
  PROVE  Does(t)
BY ObjOpenDoes, OpenFileDoes, ReadHeadDoes, ObjCreateDoes, CreateFileDoes,
   CreateFinalDoes, ObjReadDoes, ObjWriteDoes, ObjRenameDoes, RenameFileDoes,
   RenamePobjDoes, RenamedDoes, ObjDelDoes, RemoveFileDoes, ObjCloseDoes,
   CloseFileDoes, ReleaseDoes, StartEnumDoes, NextEnumDoes, EnumGetDoes,
   EndEnumDoes
   DEF Step

(***************************************************************************)
(* The state after a start: nothing is open, and no entry is used.         *)
(***************************************************************************)
Started ==
  /\ dirh = None /\ refs = 0
  /\ pobjs = [p \in Pobjs |-> NoPobj]
  /\ pc = [t \in Threads |-> "idle"]
  /\ arg = [t \in Threads |-> NoArg]
  /\ po = [t \in Threads |-> None] /\ to = [t \in Threads |-> None]
  /\ fl = [t \in Threads |-> {}]
  /\ fh = [t \in Threads |-> None] /\ dir = [t \in Threads |-> None]

LEMMA StartedHolds ==
  ASSUME Started, use \in Kinds, dents \in [Idxs -> Dent], Distinct(dents)
  PROVE  Inv
<1>1. Shape
  BY DEF Started, Shape, Pobj, NoPobj, Flags, Places, NoFile, NoEntry, Arg, NoArg
<1>2. Held /\ Linked /\ Numbered /\ EnumKept /\ DirhCommitted
  BY DEF Started, Held, HeldBy, Linked, NoPobj, Numbered, EnumKept,
         DirhCommitted, NoEntry, Renaming, NoFile, HasFile
<1>3. PobjRefs
  <2>. SUFFICES ASSUME NEW p \in Pobjs
       PROVE  pobjs[p].refcnt = Cardinality({t \in Threads : po[t] = p})
                                  + Cardinality({t \in Threads : to[t] = p})
    BY DEF PobjRefs
  <2>1. {t \in Threads : po[t] = p} = {} /\ {t \in Threads : to[t] = p} = {}
    BY NoneApart DEF Started
  <2>2. Cardinality({}) = 0 /\ pobjs[p].refcnt = 0
    BY FS_EmptySet DEF Started, NoPobj
  <2>. QED BY <2>1, <2>2
<1>4. DirhRefs
  <2>1. {t \in Threads : fh[t] # None} = {} /\ {t \in Threads : dir[t] # None} = {}
    BY DEF Started
  <2>. QED BY <2>1, FS_EmptySet DEF DirhRefs, Started
<1>. QED BY <1>1, <1>2, <1>3, <1>4 DEF Inv

LEMMA InitHolds == Init => Inv
<1>. SUFFICES ASSUME Init PROVE Inv
  OBVIOUS
<1>1. Started
  BY DEF Init, Started
<1>2. use \in Kinds /\ dents \in [Idxs -> Dent] /\ Distinct(dents)
  BY StorageAssumption DEF Init, Dent, NoDent, Distinct
<1>. QED BY <1>1, <1>2, StartedHolds

LEMMA StopKeeps ==
  ASSUME Inv, Stop
  PROVE  Inv'
<1>1. Started'
  BY DEF Stop, Started
<1>2. (use \in Kinds)' /\ (dents \in [Idxs -> Dent])' /\ Distinct(dents)'
  BY DEF Stop, Inv, Shape, Numbered
<1>. QED BY <1>1, <1>2, StartedHolds, PTL

LEMMA LoseKeeps ==
  ASSUME Inv, UNCHANGED <<use, dents, dirh, refs, pobjs, pc, thvars>>
  PROVE  Inv'
<1>1. UNCHANGED <<use, dents, dirh, refs, pobjs, pc, arg, po, to, fl, fh, dir>>
  BY DEF thvars
<1>. QED
  BY <1>1 DEF Inv, Shape, Held, HeldBy, Linked, Numbered, EnumKept, PobjRefs,
     DirhRefs, DirhCommitted

LEMMA NextKeeps == Inv /\ [Next]_vars => Inv'
<1>. SUFFICES ASSUME Inv, [Next]_vars PROVE Inv'
  OBVIOUS
<1>1. CASE Stop
  BY <1>1, StopKeeps
<1>2. CASE Lose
  BY <1>2, LoseKeeps DEF Lose
<1>3. ASSUME NEW t \in Threads, Step(t) PROVE Inv'
  BY <1>3, StepDoes, DoesKeeps
<1>4. CASE UNCHANGED vars
  BY <1>4, LoseKeeps DEF vars, fsvars
<1>. QED BY <1>1, <1>2, <1>3, <1>4 DEF Next

LEMMA InvHolds == Spec => []Inv
BY InitHolds, NextKeeps, PTL DEF Spec

(***************************************************************************)
(* tee_pobj_get(), _release() and _rename() keep the count of every table  *)
(* entry at the number of threads that refer to it, in every system call   *)
(* and on every error path.                                                *)
(***************************************************************************)
THEOREM TableRefsCorrect == Spec => []PobjRefs
<1>1. Inv => PobjRefs
  BY DEF Inv
<1>. QED BY <1>1, InvHolds, PTL

(***************************************************************************)
(* ree_fs_dirh_refcount counts the open files and enumerations, also when  *)
(* an operation that failed has closed the directory file under them.      *)
(***************************************************************************)
THEOREM DirhRefsCorrect == Spec => []DirhRefs
<1>1. Inv => DirhRefs
  BY DEF Inv
<1>. QED BY <1>1, InvHolds, PTL

(***************************************************************************)
(* What a failed operation wrote to the directory file in memory does not  *)
(* get into a later commit.                                                *)
(***************************************************************************)
THEOREM FailureForgotten == Spec => []DirhCommitted
<1>1. Inv => DirhCommitted
  BY DEF Inv
<1>. QED BY <1>1, InvHolds, PTL

(***************************************************************************)
(* tee_fs_dirfile_get_tmp() gives no file number that an object has: no    *)
(* two named entries of the committed directory file ever share one, so    *)
(* that tee_fs_dirfile_open() has nothing to clear.                        *)
(***************************************************************************)
THEOREM FileNumbersDistinct == Spec => [](Distinct(dents) /\ Read(dents) = dents)
<1>1. Inv => Distinct(dents) /\ Read(dents) = dents
  BY ReadIs DEF Inv, Numbered, Shape
<1>. QED BY <1>1, InvHolds, PTL

-----------------------------------------------------------------------------
(***************************************************************************)
(* Flags that share nothing: an entry of the table that is used with them  *)
(* refuses everybody else, except an enumeration.                          *)
(***************************************************************************)
Exclusive(f) == Conflict(f, f)

(***************************************************************************)
(* The uses the theorems are about: the TA that renames objects does not   *)
(* enumerate them meanwhile, handles that write are not shared, and the    *)
(* commit of a create or of a rename that reports an error had no effect.  *)
(***************************************************************************)
Careful(u) ==
  /\ ~u.late
  /\ ~(u.enums /\ u.renames)
  /\ \A f \in u.opens \cup u.creates : "w" \in f => "sw" \notin f

(***************************************************************************)
(* A thread that opens or creates an object, or has it open.               *)
(***************************************************************************)
User(t) == arg[t].op \in {"open", "create"}

(***************************************************************************)
(* What a call is about, at each of its places.                            *)
(***************************************************************************)
CallOf(t) ==
  /\ pc[t] = "idle" <=> arg[t].op = "none"
  /\ pc[t] \in {"enumGet", "enum"} => arg[t].op = "enum"
  /\ arg[t].op = "enum" => pc[t] \in {"enumGet", "enum", "head", "close", "release"}
  /\ pc[t] = "open" => arg[t].op = "open"
  /\ pc[t] \in {"create", "final"} => arg[t].op = "create"
  /\ arg[t].op = "open" => fl[t] \in use.opens
  /\ arg[t].op = "create" => fl[t] \in use.creates
  /\ arg[t].op = "enum" \/ dir[t] # None => use.enums
  /\ pc[t] \in Renaming => use.renames /\ "meta" \in fl[t]

Calls == \A t \in Threads : CallOf(t)

(***************************************************************************)
(* Two entries of one name are those of a rename that is about to end.     *)
(***************************************************************************)
Pair(p, q) ==
  \E t \in Threads : pc[t] = "renamed" /\ {p, q} = {po[t], to[t]}

OneName ==
  \A p, q \in Pobjs :
    p # q /\ pobjs[p].name # None /\ pobjs[q].name = pobjs[p].name => Pair(p, q)

(***************************************************************************)
(* The entry of a new name belongs to the thread that renames, alone.      *)
(***************************************************************************)
TargetOf(t) ==
  pc[t] \in Renaming =>
    /\ pobjs[to[t]].name = arg[t].name /\ "meta" \in pobjs[to[t]].flags
    /\ \A u \in Threads : po[u] # to[t] /\ (u # t => to[u] # to[t])

Targets == \A t \in Threads : TargetOf(t)

(***************************************************************************)
(* The flags of an entry, which are those of the first who took it, stand  *)
(* for those of all who use it.                                            *)
(***************************************************************************)
AgreesOn(f, g) ==
  /\ "sr" \in f <=> "sr" \in g
  /\ "sw" \in f <=> "sw" \in g
  /\ Exclusive(f) => Exclusive(g)

Agreed == \A t \in Threads : User(t) => AgreesOn(fl[t], pobjs[po[t]].flags)

Alone ==
  \A t, u \in Threads :
    t # u /\ User(t) /\ User(u) /\ po[t] = po[u] => ~Exclusive(fl[t])

Table == Calls /\ OneName /\ Targets /\ Agreed /\ Alone

(***************************************************************************)
(* tee_pobj_get() joins an entry or adds one.                              *)
(***************************************************************************)
SameEntry(p) == pobjs'[p].name = pobjs[p].name /\ pobjs'[p].flags = pobjs[p].flags

Joins(p, n, f, w) ==
  /\ pobjs[p].name = n
  /\ w # "enum" => ~Conflict(pobjs[p].flags, f)
  /\ \A q \in Pobjs : SameEntry(q)

Adds(p, n, f) ==
  /\ pobjs[p].name = None /\ \A q \in Pobjs : pobjs[q].name # n
  /\ pobjs'[p].name = n /\ pobjs'[p].flags = f
  /\ \A q \in Pobjs : q # p => SameEntry(q)

LEMMA GetsIs ==
  ASSUME Inv, NEW n \in Names, NEW f \in Flags, NEW w, NEW over,
         Gets(n, f, w, over)
  PROVE  /\ Got(n) \in Pobjs
         /\ Joins(Got(n), n, f, w) \/ Adds(Got(n), n, f)
<1> DEFINE p == Got(n)
<1>1. p \in Pobjs /\ pobjs \in [Pobjs -> Pobj] /\ Linked
  BY DEF Gets, Inv, Shape
<1>2. CASE OfName(n) # {}
  <2>1. p \in OfName(n) /\ \A q \in OfName(n) : q <= p
    <3>1. OfName(n) \subseteq Pobjs
      BY DEF OfName, Listed
    <3>2. IsFiniteSet(OfName(n)) /\ OfName(n) \subseteq Nat
      BY <3>1, NoneApart, FS_Subset
    <3>3. p = Max(OfName(n))
      BY <1>2 DEF Got
    <3>4. p \in OfName(n) /\ \A q \in OfName(n) : p >= q
      BY <1>2, <3>2, <3>3, MaxIsAbove
    <3>5. \A x, y \in Nat : x >= y => y <= x
      OBVIOUS
    <3>. QED BY <3>2, <3>4, <3>5
  <2>2. pobjs' = [pobjs EXCEPT ![p].refcnt = @ + 1]
    BY <1>2 DEF Gets
  <2>3. \A q \in Pobjs : SameEntry(q)
    BY <1>1, <2>2 DEF SameEntry, Pobj
  <2>4. pobjs[p].name = n
    BY <2>1 DEF OfName
  <2>5. p \in Last(n)
    BY <2>1 DEF Last
  <2>6. w # "enum" => ~Conflict(pobjs[p].flags, f)
    BY <2>5 DEF Gets, MayGet
  <2>. QED BY <1>1, <2>3, <2>4, <2>6 DEF Joins
<1>3. CASE OfName(n) = {}
  <2>1. pobjs[p].name = None
    <3>1. CASE Listed = {}
      BY <1>1, <3>1 DEF Listed
    <3>2. CASE Listed # {}
      <4>1. IsFiniteSet(Listed) /\ Listed \subseteq Nat
        BY NoneApart, FS_Subset DEF Listed
      <4>2. Max(Listed) \in Nat /\ \A x \in Listed : Max(Listed) >= x
        BY <3>2, <4>1, MaxIsAbove
      <4>3. p = Max(Listed) + 1
        BY <1>3, <3>2 DEF Got
      <4>4. p \notin Listed
        BY <4>1, <4>2, <4>3
      <4>. QED BY <1>1, <4>4 DEF Listed
    <3>. QED BY <3>1, <3>2
  <2>2. pobjs' = [pobjs EXCEPT ![p] = [name |-> n, refcnt |-> 1, flags |-> f,
                                       creating |-> w = "create"]]
    BY <1>3 DEF Gets
  <2>3. /\ pobjs'[p].flags = f /\ pobjs'[p].name = n
        /\ \A q \in Pobjs : q # p => pobjs'[q] = pobjs[q]
    BY <1>1, <2>2
  <2>4. \A q \in Pobjs : pobjs[q].name # n
    BY <1>3, NoneApart DEF OfName, Listed
  <2>. QED BY <1>1, <2>1, <2>3, <2>4 DEF Adds, SameEntry
<1>. QED BY <1>2, <1>3

(***************************************************************************)
(* Who refers to an entry, by its count.                                   *)
(***************************************************************************)
SolePo(t) ==
  /\ \A u \in Threads : u # t => po[u] # po[t]
  /\ \A u \in Threads : to[u] # po[t]

SoleTo(t) ==
  /\ \A u \in Threads : u # t => to[u] # to[t]
  /\ \A u \in Threads : po[u] # to[t]

LEMMA CardOne ==
  ASSUME NEW S, S \subseteq Threads, NEW t \in S
  PROVE  Cardinality(S) = 1 <=> S = {t}
<1>1. IsFiniteSet(S) /\ Cardinality(S) \in Nat
  BY Counts
<1>2. Cardinality({t}) = 1 /\ IsFiniteSet({t})
  BY FS_Singleton
<1>3. ASSUME Cardinality(S) = 1 PROVE S = {t}
  <2>1. {t} \subseteq S
    OBVIOUS
  <2>. QED BY <1>1, <1>2, <1>3, <2>1, FS_Subset
<1>. QED BY <1>2, <1>3

LEMMA CardZero ==
  ASSUME NEW S, S \subseteq Threads
  PROVE  Cardinality(S) = 0 <=> S = {}
BY Counts, FS_EmptySet

LEMMA SoleIs ==
  ASSUME Inv, NEW t \in Threads
  PROVE  /\ po[t] \in Pobjs => (pobjs[po[t]].refcnt = 1 <=> SolePo(t))
         /\ to[t] \in Pobjs => (pobjs[to[t]].refcnt = 1 <=> SoleTo(t))
<1> DEFINE Users(p) == {u \in Threads : po[u] = p}
           Movers(p) == {u \in Threads : to[u] = p}
<1>1. \A p \in Pobjs : /\ pobjs[p].refcnt = Cardinality(Users(p)) + Cardinality(Movers(p))
                       /\ Cardinality(Users(p)) \in Nat
                       /\ Cardinality(Movers(p)) \in Nat
                       /\ \A u \in Users(p) : Cardinality(Users(p)) >= 1
                       /\ \A u \in Movers(p) : Cardinality(Movers(p)) >= 1
  BY Counts DEF Inv, PobjRefs
<1>2. \A p \in Pobjs : /\ Cardinality(Users(p)) = 0 <=> Users(p) = {}
                       /\ Cardinality(Movers(p)) = 0 <=> Movers(p) = {}
  BY CardZero
<1>3. ASSUME po[t] \in Pobjs
      PROVE  pobjs[po[t]].refcnt = 1 <=> SolePo(t)
  <2> DEFINE p == po[t]
  <2>1. t \in Users(p) /\ Users(p) \subseteq Threads
    OBVIOUS
  <2>2. Cardinality(Users(p)) = 1 <=> Users(p) = {t}
    BY <2>1, CardOne
  <2>3. SolePo(t) <=> Users(p) = {t} /\ Movers(p) = {}
    BY DEF SolePo
  <2> HIDE DEF Users, Movers
  <2>. QED BY <1>1, <1>2, <1>3, <2>1, <2>2, <2>3
<1>4. ASSUME to[t] \in Pobjs
      PROVE  pobjs[to[t]].refcnt = 1 <=> SoleTo(t)
  <2> DEFINE p == to[t]
  <2>1. t \in Movers(p) /\ Movers(p) \subseteq Threads
    OBVIOUS
  <2>2. Cardinality(Movers(p)) = 1 <=> Movers(p) = {t}
    BY <2>1, CardOne
  <2>3. SoleTo(t) <=> Movers(p) = {t} /\ Users(p) = {}
    BY DEF SoleTo
  <2> HIDE DEF Users, Movers
  <2>. QED BY <1>1, <1>2, <1>4, <2>1, <2>2, <2>3
<1>. QED BY <1>3, <1>4

LEMMA ReleasedIs ==
  ASSUME Inv, NEW p \in Pobjs, pobjs' = Released(p)
  PROVE  /\ \A q \in Pobjs : q # p => SameEntry(q)
         /\ pobjs[p].refcnt = 1 => pobjs'[p].name = None
         /\ pobjs[p].refcnt # 1 => SameEntry(p)
<1>1. pobjs \in [Pobjs -> Pobj] /\ pobjs[p] \in Pobj
  BY DEF Inv, Shape
<1>2. CASE pobjs[p].refcnt = 1
  <2>1. pobjs' = [pobjs EXCEPT ![p] = NoPobj]
    BY <1>2 DEF Released
  <2>. QED BY <1>1, <1>2, <2>1 DEF SameEntry, NoPobj
<1>3. CASE pobjs[p].refcnt # 1
  <2>1. pobjs' = [pobjs EXCEPT ![p].refcnt = @ - 1]
    BY <1>3 DEF Released
  <2>. QED BY <1>1, <1>3, <2>1 DEF SameEntry, Pobj
<1>. QED BY <1>2, <1>3

(***************************************************************************)
(* The other threads are where they were.                                  *)
(***************************************************************************)
Others(t) ==
  \A u \in Threads \ {t} :
    /\ pc'[u] = pc[u] /\ arg'[u] = arg[u] /\ po'[u] = po[u] /\ to'[u] = to[u]
    /\ fl'[u] = fl[u] /\ (dir'[u] = None <=> dir[u] = None)

LEMMA CallsKept ==
  ASSUME Calls, NEW t \in Threads, Others(t), use' = use, CallOf(t)'
  PROVE  Calls'
BY DEF Calls, CallOf, Others

(***************************************************************************)
(* Steps that only take a thread on in its call.                           *)
(***************************************************************************)
Moves(t, l) ==
  /\ l \in Places /\ pc' = [pc EXCEPT ![t] = l]
  /\ pc[t] \notin NoEntry \cup {"renamed"}
  /\ l \in Renaming <=> pc[t] \in Renaming
  /\ UNCHANGED <<use, arg, po, to, fl>> /\ SameEnums
  /\ \A q \in Pobjs : SameEntry(q)

LEMMA MovesTable ==
  ASSUME Inv, Inv', Table, NEW t \in Threads, NEW l, Moves(t, l), CallOf(t)'
  PROVE  Table'
<1>1. /\ pc'[t] = l /\ \A u \in Threads \ {t} : pc'[u] = pc[u]
      /\ UNCHANGED <<use, arg, po, to, fl>> /\ SameEnums
  BY DEF Moves, Inv, Shape
<1>2. Others(t)
  BY <1>1 DEF Others, SameEnums
<1>3. Calls'
  BY <1>1, <1>2, CallsKept DEF Table
<1>4. OneName'
  <2>1. ASSUME NEW p \in Pobjs, NEW q \in Pobjs, Pair(p, q) PROVE Pair(p, q)'
    <3>1. PICK u \in Threads : pc[u] = "renamed" /\ {p, q} = {po[u], to[u]}
      BY <2>1 DEF Pair
    <3>2. u # t
      BY <3>1 DEF Moves
    <3>. QED BY <1>1, <3>1, <3>2 DEF Pair
  <2>. QED BY <2>1 DEF Table, OneName, Moves, SameEntry
<1>5. Targets'
  <2>1. SUFFICES ASSUME NEW u \in Threads, pc'[u] \in Renaming PROVE TargetOf(u)'
    BY DEF Targets, TargetOf
  <2>2. pc[u] \in Renaming
    BY <1>1, <2>1 DEF Moves
  <2>3. to[u] \in Pobjs
    BY <2>2, HasEntry
  <2>. QED BY <1>1, <2>2, <2>3 DEF Table, Targets, TargetOf, Moves, SameEntry
<1>6. Agreed' /\ Alone'
  <2>1. ASSUME NEW u \in Threads, User(u)
        PROVE  po[u] \in Pobjs
    <3>1. pc[u] \notin NoEntry
      BY <2>1 DEF Table, Calls, CallOf, User, NoEntry
    <3>. QED BY <3>1, HasEntry
  <2>2. \A u \in Threads : User(u)' <=> User(u)
    BY <1>1 DEF User
  <2>3. Agreed'
    BY <1>1, <2>1, <2>2 DEF Table, Agreed, Moves, SameEntry
  <2>4. Alone'
    BY <1>1, <2>2 DEF Table, Alone
  <2>. QED BY <2>3, <2>4
<1>. QED BY <1>3, <1>4, <1>5, <1>6 DEF Table

(***************************************************************************)
(* A user has an entry.                                                    *)
(***************************************************************************)
LEMMA UserHas ==
  ASSUME Inv, Table, NEW t \in Threads, User(t)
  PROVE  pc[t] \notin NoEntry /\ po[t] \in Pobjs /\ NameOf(t) \in Names
<1>1. pc[t] \notin NoEntry
  BY DEF Table, Calls, CallOf, User, NoEntry
<1>. QED BY <1>1, HasEntry

LEMMA SameEntries ==
  ASSUME pobjs' = pobjs
  PROVE  \A q \in Pobjs : SameEntry(q)
BY DEF SameEntry

(***************************************************************************)
(* The place of a call after a step of it.                                 *)
(***************************************************************************)
LEMMA NextPlace ==
  ASSUME Inv, Table, NEW t \in Threads, NEW l, Moves(t, l),
         l \notin NoEntry \cup {"open", "create", "enum", "final"} \/
           (l = "final" /\ pc[t] = "create"),
         arg[t].op = "enum" => l \in {"head", "close", "release"},
         l \in Renaming => pc[t] \in Renaming
  PROVE  CallOf(t)'
<1>1. /\ pc'[t] = l /\ UNCHANGED <<use, arg, fl>> /\ (dir'[t] = None <=> dir[t] = None)
  BY DEF Moves, Inv, Shape, SameEnums
<1>2. CallOf(t) /\ pc[t] \notin NoEntry
  BY DEF Table, Calls, Moves
<1>. QED BY <1>1, <1>2 DEF CallOf, NoEntry, Renaming

LEMMA SameEnumsLeave ==
  ASSUME Inv, NEW d, NEW n, NEW e, Leave(d, n, e)
  PROVE  SameEnums
BY StaleDoes DEF Leave, SameEnums, Inv

LEMMA NoDirhEnums ==
  ASSUME NoDirh
  PROVE  SameEnums /\ UNCHANGED <<dents, files, dirh, refs, dir>>
BY DEF NoDirh, SameEnums, fsvars

LEMMA OpenFileTable ==
  ASSUME Inv, Inv', Table, NEW t \in Threads, OpenFile(t)
  PROVE  Table'
<1>1. /\ pc[t] \in {"open", "enum"} /\ UNCHANGED <<use, pobjs, arg, po, to, fl>>
  BY DEF OpenFile
<1>2. PICK l \in {"close", "head", "remove"} :
         pc' = [pc EXCEPT ![t] = l] /\ (l = "remove" => pc[t] = "open")
  BY <1>1 DEF OpenFile, Goto
<1>3. SameEnums
  BY NoDirhEnums, SameEnumsLeave DEF OpenFile
<1>4. Moves(t, l)
  BY <1>1, <1>2, <1>3, SameEntries
     DEF Moves, Places, NoEntry, Renaming, HasFile
<1>5. arg[t].op = "enum" => l # "remove"
  BY <1>1, <1>2 DEF Table, Calls, CallOf
<1>6. CallOf(t)'
  BY <1>2, <1>4, <1>5, NextPlace DEF NoEntry, Renaming
<1>. QED BY <1>4, <1>6, MovesTable

LEMMA CreateFileTable ==
  ASSUME Inv, Inv', Table, NEW t \in Threads, CreateFile(t)
  PROVE  Table'
<1>1. /\ pc[t] = "create" /\ UNCHANGED <<use, pobjs, arg, po, to, fl>>
  BY DEF CreateFile
<1>2. PICK l \in {"close", "final", "remove"} : pc' = [pc EXCEPT ![t] = l]
  BY <1>1 DEF CreateFile, CreateFails, CreateLate, CreateDone, Goto
<1>3. SameEnums
  BY NoDirhEnums, SameEnumsLeave DEF CreateFile, CreateFails, CreateLate, CreateDone
<1>4. Moves(t, l)
  BY <1>1, <1>2, <1>3, SameEntries
     DEF Moves, Places, NoEntry, Renaming, HasFile
<1>5. arg[t].op # "enum"
  BY <1>1, <1>2 DEF Table, Calls, CallOf
<1>6. CallOf(t)'
  BY <1>1, <1>2, <1>4, <1>5, NextPlace DEF NoEntry, Renaming
<1>. QED BY <1>4, <1>6, MovesTable

LEMMA ObjWriteTable ==
  ASSUME Inv, Inv', Table, NEW t \in Threads, ObjWrite(t)
  PROVE  Table'
<1>1. /\ pc[t] = "have" /\ UNCHANGED <<use, pobjs, arg, po, to, fl>>
      /\ pc \in [Threads -> Places]
  BY DEF ObjWrite, Inv, Shape
<1>2. PICK l \in {"failed", "have", "remove"} : pc' = [pc EXCEPT ![t] = l]
  BY <1>1 DEF ObjWrite, Goto
<1>3. SameEnums
  BY NoDirhEnums, SameEnumsLeave DEF ObjWrite
<1>4. Moves(t, l)
  BY <1>1, <1>2, <1>3, SameEntries
     DEF Moves, Places, NoEntry, Renaming, HasFile
<1>5. arg[t].op # "enum"
  BY <1>1, <1>2 DEF Table, Calls, CallOf
<1>6. CallOf(t)'
  BY <1>1, <1>2, <1>4, <1>5, NextPlace DEF NoEntry, Renaming
<1>. QED BY <1>4, <1>6, MovesTable

LEMMA RenameFileTable ==
  ASSUME Inv, Inv', Table, NEW t \in Threads, RenameFile(t)
  PROVE  Table'
<1>1. /\ pc[t] = "rename" /\ UNCHANGED <<use, pobjs, arg, po, to, fl>>
  BY DEF RenameFile
<1>2. PICK l \in {"renamed", "renamePobj"} : pc' = [pc EXCEPT ![t] = l]
  BY <1>1 DEF RenameFile, Goto
<1>3. SameEnums
  BY NoDirhEnums, SameEnumsLeave DEF RenameFile
<1>4. Moves(t, l)
  BY <1>1, <1>2, <1>3, SameEntries
     DEF Moves, Places, NoEntry, Renaming, HasFile
<1>5. arg[t].op # "enum"
  BY <1>1, <1>2 DEF Table, Calls, CallOf
<1>6. CallOf(t)'
  BY <1>1, <1>2, <1>4, <1>5, NextPlace DEF NoEntry, Renaming
<1>. QED BY <1>4, <1>6, MovesTable

LEMMA RemoveFileTable ==
  ASSUME Inv, Inv', Table, NEW t \in Threads, RemoveFile(t)
  PROVE  Table'
<1>1. /\ pc[t] = "remove" /\ UNCHANGED <<use, pobjs, arg, po, to, fl>>
      /\ pc' = [pc EXCEPT ![t] = "close"]
  BY DEF RemoveFile, Goto
<1>3. SameEnums
  BY NoDirhEnums, SameEnumsLeave DEF RemoveFile
<1>4. Moves(t, "close")
  BY <1>1, <1>3, SameEntries
     DEF Moves, Places, NoEntry, Renaming, HasFile
<1>6. CallOf(t)'
  BY <1>4, NextPlace DEF NoEntry, Renaming
<1>. QED BY <1>4, <1>6, MovesTable

LEMMA CloseFileTable ==
  ASSUME Inv, Inv', Table, NEW t \in Threads, CloseFile(t)
  PROVE  Table'
<1>1. /\ pc[t] = "close" /\ UNCHANGED <<use, pobjs, arg, po, to, fl>>
      /\ pc' = [pc EXCEPT ![t] = "release"]
  BY DEF CloseFile, Goto
<1>3. SameEnums
  BY StaleDoes DEF CloseFile, SameEnums, Inv
<1>4. Moves(t, "release")
  BY <1>1, <1>3, SameEntries
     DEF Moves, Places, NoEntry, Renaming, HasFile, NoFile
<1>6. CallOf(t)'
  BY <1>4, NextPlace DEF NoEntry, Renaming
<1>. QED BY <1>4, <1>6, MovesTable

LEMMA QuietTable ==
  ASSUME Inv, Inv', Table, NEW t \in Threads,
         ReadHead(t) \/ CreateFinal(t) \/ ObjRead(t) \/ ObjDel(t) \/ ObjClose(t)
  PROVE  Table'
<1>1. /\ pc[t] \in {"head", "final", "have", "failed"}
      /\ UNCHANGED <<use, arg, po, to, fl, dir>>
      /\ pc[t] = "head" => arg[t].op \in {"enum", "open"} \/ use.faults
  BY DEF ReadHead, CreateFinal, ObjRead, ObjDel, ObjClose, thvars
<1>2. PICK l \in {"have", "close", "remove"} :
         /\ pc' = [pc EXCEPT ![t] = l] 
         /\ pc[t] = "head" /\ l # "close" => arg[t].op = "open"
  BY <1>1 DEF ReadHead, CreateFinal, ObjRead, ObjDel, ObjClose, Answer, Goto
<1>3. SameEnums
  BY <1>1 DEF SameEnums
<1>4. \A q \in Pobjs : SameEntry(q)
  <2>1. CASE pobjs' = pobjs
    BY <2>1, SameEntries
  <2>2. CASE pobjs' # pobjs
    <3>1. pc[t] = "final" /\ pobjs' = [pobjs EXCEPT ![po[t]].creating = FALSE]
      BY <2>2 DEF ReadHead, CreateFinal, ObjRead, ObjDel, ObjClose, thvars
    <3>2. po[t] \in Pobjs /\ pobjs \in [Pobjs -> Pobj]
      BY <3>1, HasEntry DEF NoEntry, Inv, Shape
    <3>. QED BY <3>1, <3>2 DEF SameEntry, Pobj
  <2>. QED BY <2>1, <2>2
<1>5. Moves(t, l)
  BY <1>1, <1>2, <1>3, <1>4
     DEF Moves, Places, NoEntry, Renaming, HasFile
<1>6. arg[t].op = "enum" => l = "close"
  BY <1>1, <1>2 DEF Table, Calls, CallOf
<1>7. CallOf(t)'
  BY <1>1, <1>2, <1>5, <1>6, NextPlace DEF NoEntry, Renaming
<1>. QED BY <1>5, <1>7, MovesTable

(***************************************************************************)
(* Everybody who renames, who uses an object, or who has an entry at all.  *)
(***************************************************************************)
LEMMA Holders ==
  ASSUME Inv, Table, NEW u \in Threads
  PROVE  /\ po[u] # None => po[u] \in Pobjs /\ pobjs[po[u]].name # None
         /\ to[u] # None => to[u] \in Pobjs /\ pobjs[to[u]].name # None /\ pc[u] \in Renaming
         /\ pc[u] \in Renaming => to[u] \in Pobjs /\ User(u) /\ po[u] \in Pobjs
<1>1. HeldBy(u) /\ CallOf(u) /\ arg[u].op \in {"none", "open", "create", "enum"}
  BY DEF Inv, Held, Table, Calls, Shape, Arg
<1>2. po[u] # None => po[u] \in Pobjs /\ NameOf(u) \in Names
  BY <1>1, HasEntry DEF HeldBy
<1>3. pc[u] \in Renaming => to[u] \in Pobjs /\ pobjs[to[u]].refcnt >= 1
  BY HasEntry
<1>4. \A p \in Pobjs : pobjs[p].refcnt >= 1 => pobjs[p].name # None
  BY DEF Inv, Linked, Shape, Pobj
<1>5. pc[u] \in Renaming => User(u) /\ pc[u] \notin NoEntry
  BY <1>1 DEF CallOf, User, Renaming, NoEntry
<1>. QED BY <1>1, <1>2, <1>3, <1>4, <1>5, NoneApart DEF HeldBy, NameOf

LEMMA NoConflict ==
  ASSUME NEW f \in Flags, NEW g \in Flags, ~Conflict(g, f)
  PROVE  AgreesOn(f, g) /\ ~Exclusive(f) /\ ~Exclusive(g) /\ "meta" \notin g
BY DEF Conflict, Clash, AgreesOn, Exclusive

(***************************************************************************)
(* An entry is taken, for a call or for an enumeration.                    *)
(***************************************************************************)
Takes(t, p, n, f, w) ==
  /\ p \in Pobjs /\ pc[t] \in NoEntry /\ po[t] = None
  /\ Joins(p, n, f, w) \/ Adds(p, n, f)
  /\ UNCHANGED <<use, to>> /\ po' = [po EXCEPT ![t] = p]
  /\ Others(t) /\ CallOf(t)' /\ pc'[t] \notin Renaming
  /\ User(t)' => w # "enum" /\ fl'[t] = f
  /\ w = "enum" => use.enums

LEMMA TakesTable ==
  ASSUME Inv, Inv', Table, Careful(use), NEW t \in Threads, NEW p,
         NEW n \in Names, NEW f \in Flags, NEW w, Takes(t, p, n, f, w)
  PROVE  Table'
<1>1. /\ p \in Pobjs /\ po'[t] = p /\ UNCHANGED <<use, to>> /\ Others(t)
      /\ \A u \in Threads \ {t} : po'[u] = po[u] /\ pc'[u] = pc[u]
                                  /\ arg'[u] = arg[u] /\ fl'[u] = fl[u]
      /\ pc[t] \notin Renaming /\ pc'[t] \notin Renaming
  BY DEF Takes, Inv, Shape, Others, NoEntry, Renaming
<1>2. Calls'
  BY <1>1, CallsKept DEF Table, Takes
<1>3. \A q \in Pobjs : pobjs[q].name # None => SameEntry(q)
  BY DEF Takes, Joins, Adds
<1>4. OneName'
  <2>1. ASSUME NEW q \in Pobjs, NEW r \in Pobjs, q # r, pobjs'[q].name # None,
               pobjs'[r].name = pobjs'[q].name
        PROVE  Pair(q, r)'
    <3>1. pobjs[q].name # None /\ pobjs[r].name = pobjs[q].name
      <4>1. CASE Joins(p, n, f, w)
        BY <2>1, <4>1 DEF Joins, SameEntry
      <4>2. CASE Adds(p, n, f)
        BY <2>1, <4>2, <1>1 DEF Adds, SameEntry
      <4>. QED BY <4>1, <4>2 DEF Takes
    <3>2. PICK u \in Threads : pc[u] = "renamed" /\ {q, r} = {po[u], to[u]}
      BY <2>1, <3>1 DEF Table, OneName, Pair
    <3>3. u # t
      BY <1>1, <3>2 DEF Renaming
    <3>. QED BY <1>1, <3>2, <3>3 DEF Pair
  <2>. QED BY <2>1 DEF OneName
<1>5. Targets'
  <2>1. SUFFICES ASSUME NEW u \in Threads, pc'[u] \in Renaming PROVE TargetOf(u)'
    BY DEF Targets, TargetOf
  <2>2. u # t /\ pc[u] \in Renaming /\ TargetOf(u) /\ CallOf(u)
    BY <1>1, <2>1 DEF Table, Targets, Calls
  <2>3. to[u] \in Pobjs /\ pobjs[to[u]].name # None /\ to[u] # None
    BY <2>2, Holders, NoneApart
  <2>4. p # to[u]
    <3>1. CASE Joins(p, n, f, w)
      <4>1. use.renames /\ "meta" \in pobjs[to[u]].flags
        BY <2>2 DEF CallOf, TargetOf
      <4>2. w # "enum"
        BY <4>1 DEF Takes, Careful
      <4>. QED BY <4>1, <4>2, <3>1 DEF Joins, Conflict
    <3>2. CASE Adds(p, n, f)
      BY <2>3, <3>2 DEF Adds
    <3>. QED BY <3>1, <3>2 DEF Takes
  <2>5. SameEntry(to[u])
    BY <1>3, <2>3
  <2>. QED BY <1>1, <2>2, <2>4, <2>5 DEF TargetOf, SameEntry
<1>6. \A u \in Threads \ {t} : User(u)' <=> User(u)
  BY <1>1 DEF User
<1>7. \A u \in Threads \ {t} : User(u) =>
        /\ po[u] \in Pobjs /\ SameEntry(po[u])
        /\ po[u] = p => Joins(p, n, f, w)
  <2>1. ASSUME NEW u \in Threads \ {t}, User(u)
        PROVE  po[u] \in Pobjs /\ pobjs[po[u]].name # None
    BY <2>1, UserHas, NoneApart DEF NameOf
  <2>. QED BY <1>3, <2>1 DEF Takes, Adds
<1>8. pobjs \in [Pobjs -> Pobj] /\ \A q \in Pobjs : pobjs[q].flags \in Flags
  BY DEF Inv, Shape, Pobj
<1>9. Agreed'
  <2>1. SUFFICES ASSUME NEW u \in Threads, User(u)'
                 PROVE  AgreesOn(fl'[u], pobjs'[po'[u]].flags)
    BY DEF Agreed
  <2>2. CASE u # t
    BY <1>1, <1>6, <1>7, <2>1, <2>2 DEF Table, Agreed, SameEntry
  <2>3. CASE u = t
    <3>1. CASE Adds(p, n, f)
      BY <1>1, <2>1, <2>3, <3>1 DEF Adds, Takes, AgreesOn
    <3>2. CASE Joins(p, n, f, w)
      <4>1. ~Conflict(pobjs[p].flags, f) /\ SameEntry(p) /\ fl'[u] = f
        BY <1>1, <2>1, <2>3, <3>2 DEF Joins, Takes
      <4>2. AgreesOn(f, pobjs[p].flags)
        BY <1>1, <1>8, <4>1, NoConflict
      <4>. QED BY <1>1, <2>3, <4>1, <4>2 DEF SameEntry
    <3>. QED BY <3>1, <3>2 DEF Takes
  <2>. QED BY <2>2, <2>3
<1>10. Alone'
  <2>1. ASSUME NEW u \in Threads \ {t}, User(t)', User(u), po[u] = p
        PROVE  ~Exclusive(fl'[t]) /\ ~Exclusive(fl[u])
    <3>1. /\ Joins(p, n, f, w) /\ ~Conflict(pobjs[p].flags, f) /\ fl'[t] = f
      BY <1>7, <2>1 DEF Joins, Takes
    <3>2. ~Exclusive(f) /\ ~Exclusive(pobjs[p].flags)
      BY <1>1, <1>8, <3>1, NoConflict
    <3>3. AgreesOn(fl[u], pobjs[p].flags)
      BY <2>1 DEF Table, Agreed
    <3>. QED BY <3>1, <3>2, <3>3 DEF AgreesOn
  <2>. QED BY <1>1, <1>6, <2>1 DEF Table, Alone
<1>. QED BY <1>2, <1>4, <1>5, <1>9, <1>10 DEF Table

LEMMA BeginTable ==
  ASSUME Inv, Inv', Table, Careful(use), NEW t \in Threads,
         NEW o \in {"open", "create"}, NEW n \in Names, NEW over \in BOOLEAN,
         NEW f \in IF o = "open" THEN use.opens ELSE use.creates,
         Begin(t, o, n, f, over)
  PROVE  Table'
<1>1. f \in Flags
  <2>1. use \in Kinds
    BY DEF Inv, Shape
  <2>2. use.opens \subseteq Flags /\ use.creates \subseteq Flags
    BY <2>1 DEF Kinds
  <2>. QED BY <2>2
<1>2. /\ pc[t] = "idle" /\ po[t] = None /\ Gets(n, f, o, over)
      /\ po' = [po EXCEPT ![t] = Got(n)]
      /\ fl' = [fl EXCEPT ![t] = f] /\ pc' = [pc EXCEPT ![t] = o]
      /\ arg' = [arg EXCEPT ![t] = [op |-> o, name |-> n, over |-> over]]
      /\ UNCHANGED <<use, to, dir>>
  BY DEF Begin, Goto
<1>3. Got(n) \in Pobjs /\ (Joins(Got(n), n, f, o) \/ Adds(Got(n), n, f))
  BY <1>1, <1>2, GetsIs
<1>4. /\ pc'[t] = o /\ fl'[t] = f /\ arg'[t].op = o
      /\ \A u \in Threads \ {t} : /\ pc'[u] = pc[u] /\ fl'[u] = fl[u]
                                  /\ arg'[u] = arg[u] /\ po'[u] = po[u]
  BY <1>2 DEF Inv, Shape
<1>5. Others(t)
  BY <1>2, <1>4 DEF Others
<1>6. CallOf(t)'
  BY <1>2, <1>4 DEF CallOf, Table, Calls, Renaming
<1>7. Takes(t, Got(n), n, f, o)
  BY <1>2, <1>3, <1>4, <1>5, <1>6 DEF Takes, NoEntry, Renaming
<1>. QED BY <1>1, <1>7, TakesTable

LEMMA EnumGetTable ==
  ASSUME Inv, Inv', Table, Careful(use), NEW t \in Threads, EnumGet(t)
  PROVE  Table'
<1> DEFINE n == arg[t].name
<1>1. /\ pc[t] = "enumGet" /\ Gets(n, {}, "enum", FALSE)
      /\ po' = [po EXCEPT ![t] = Got(n)] /\ pc' = [pc EXCEPT ![t] = "enum"]
      /\ UNCHANGED <<use, arg, to, fl, dir>>
  BY DEF EnumGet, Goto
<1>2. n \in Names /\ po[t] = None /\ {} \in Flags
  BY <1>1 DEF Inv, Shape, Arg, Held, HeldBy, NoEntry, Flags
<1>3. arg[t].op = "enum" /\ use.enums /\ CallOf(t)
  BY <1>1 DEF Table, Calls, CallOf
<1>4. Got(n) \in Pobjs /\ (Joins(Got(n), n, {}, "enum") \/ Adds(Got(n), n, {}))
  BY <1>1, <1>2, GetsIs
<1>5. /\ pc'[t] = "enum" /\ \A u \in Threads \ {t} : pc'[u] = pc[u] /\ po'[u] = po[u]
  BY <1>1 DEF Inv, Shape
<1>6. Others(t)
  BY <1>1, <1>5 DEF Others
<1>7. CallOf(t)'
  BY <1>1, <1>3, <1>5 DEF CallOf, Renaming
<1>8. Takes(t, Got(n), n, {}, "enum")
  BY <1>1, <1>2, <1>3, <1>4, <1>5, <1>6, <1>7 DEF Takes, NoEntry, Renaming, User
<1>. QED BY <1>2, <1>8, TakesTable

(***************************************************************************)
(* The entry of a new name is always an added one.                         *)
(***************************************************************************)
LEMMA ObjRenameTable ==
  ASSUME Inv, Inv', Table, NEW t \in Threads, ObjRename(t)
  PROVE  Table'
<1>1. PICK m \in Names : /\ use.renames /\ pc[t] = "have" /\ "meta" \in fl[t]
                         /\ Gets(m, {"meta"}, "rename", FALSE)
                         /\ to' = [to EXCEPT ![t] = Got(m)]
                         /\ arg' = [arg EXCEPT ![t].name = m]
                         /\ pc' = [pc EXCEPT ![t] = "rename"]
                         /\ UNCHANGED <<use, po, fl, fh, dir>>
  BY DEF ObjRename, Goto
<1> DEFINE p == Got(m)
<1>2. p \in Pobjs /\ (Joins(p, m, {"meta"}, "rename") \/ Adds(p, m, {"meta"}))
  <2>1. {"meta"} \in Flags
    BY DEF Flags
  <2>. QED BY <1>1, <2>1, GetsIs
<1>3. Adds(p, m, {"meta"})
  BY <1>2 DEF Joins, Conflict
<1> HIDE DEF p
<1>4. /\ pc'[t] = "rename" /\ to'[t] = p /\ arg'[t].name = m /\ arg'[t].op = arg[t].op
      /\ \A u \in Threads \ {t} : pc'[u] = pc[u] /\ to'[u] = to[u] /\ arg'[u] = arg[u]
  BY <1>1 DEF Inv, Shape, p, Arg
<1>5. Others(t)
  BY <1>1, <1>4 DEF Others
<1>6. CallOf(t)'
  BY <1>1, <1>4 DEF CallOf, Table, Calls, Renaming
<1>7. Calls'
  BY <1>1, <1>5, <1>6, CallsKept DEF Table
<1>8. OneName'
  <2>1. ASSUME NEW q \in Pobjs, NEW r \in Pobjs, q # r, pobjs'[q].name # None,
               pobjs'[r].name = pobjs'[q].name
        PROVE  Pair(q, r)'
    <3>1. pobjs[q].name # None /\ pobjs[r].name = pobjs[q].name
      BY <1>3, <2>1, <1>2 DEF Adds, SameEntry
    <3>2. PICK u \in Threads : pc[u] = "renamed" /\ {q, r} = {po[u], to[u]}
      BY <2>1, <3>1 DEF Table, OneName, Pair
    <3>3. u # t
      BY <1>1, <3>2
    <3>. QED BY <1>1, <1>4, <3>2, <3>3 DEF Pair
  <2>. QED BY <2>1 DEF OneName
<1>9. \A u \in Threads : po[u] # p /\ to[u] # p
  BY <1>2, <1>3, Holders, NoneApart DEF Adds
<1>10. Targets'
  <2>1. SUFFICES ASSUME NEW u \in Threads, pc'[u] \in Renaming PROVE TargetOf(u)'
    BY DEF Targets, TargetOf
  <2>2. CASE u = t
    BY <1>1, <1>3, <1>4, <1>9, <2>2 DEF TargetOf, Adds
  <2>3. CASE u # t
    <3>1. pc[u] \in Renaming /\ TargetOf(u) /\ to[u] \in Pobjs
      BY <1>4, <2>1, <2>3, Holders DEF Table, Targets
    <3>2. SameEntry(to[u])
      BY <1>3, <1>9, <3>1 DEF Adds
    <3>. QED BY <1>1, <1>4, <1>9, <2>3, <3>1, <3>2 DEF TargetOf, SameEntry
  <2>. QED BY <2>2, <2>3
<1>11. \A u \in Threads : User(u)' <=> User(u)
  BY <1>4 DEF User
<1>12. Agreed'
  <2>1. \A u \in Threads : User(u) => SameEntry(po[u])
    BY <1>3, <1>9, UserHas DEF Adds
  <2>. QED BY <1>1, <1>11, <2>1 DEF Table, Agreed, SameEntry
<1>13. Alone'
  BY <1>1, <1>11 DEF Table, Alone
<1>. QED BY <1>7, <1>8, <1>10, <1>12, <1>13 DEF Table

LEMMA RenamedTable ==
  ASSUME Inv, Inv', Table, NEW t \in Threads, Renamed(t)
  PROVE  Table'
<1>1. /\ pc[t] = "renamed" /\ pobjs' = Released(to[t])
      /\ to' = [to EXCEPT ![t] = None] /\ pc' = [pc EXCEPT ![t] = "have"]
      /\ UNCHANGED <<use, arg, po, fl, dir>>
  BY DEF Renamed, Goto
<1>2. /\ pc'[t] = "have" /\ to'[t] = None
      /\ \A u \in Threads \ {t} : pc'[u] = pc[u] /\ to'[u] = to[u]
  BY <1>1 DEF Inv, Shape
<1>3. pc[t] \in Renaming /\ TargetOf(t) /\ CallOf(t) /\ to[t] \in Pobjs /\ to[t] # None
  BY <1>1, Holders, NoneApart DEF Table, Targets, Calls, Renaming
<1>4. SoleTo(t)
  BY <1>3 DEF TargetOf, SoleTo
<1>5. /\ \A q \in Pobjs : q # to[t] => SameEntry(q)
      /\ pobjs'[to[t]].name = None
  BY <1>1, <1>3, <1>4, SoleIs, ReleasedIs
<1>6. Others(t)
  BY <1>1, <1>2 DEF Others
<1>7. Calls'
  <2>1. CallOf(t)'
    BY <1>1, <1>2, <1>3 DEF CallOf, Renaming
  <2>. QED BY <1>1, <1>6, <2>1, CallsKept DEF Table
<1>8. OneName'
  <2>1. ASSUME NEW q \in Pobjs, NEW r \in Pobjs, q # r, pobjs'[q].name # None,
               pobjs'[r].name = pobjs'[q].name
        PROVE  Pair(q, r)'
    <3>1. /\ q # to[t] /\ r # to[t]
          /\ pobjs[q].name # None /\ pobjs[r].name = pobjs[q].name
      BY <1>5, <2>1 DEF SameEntry
    <3>2. PICK u \in Threads : pc[u] = "renamed" /\ {q, r} = {po[u], to[u]}
      BY <2>1, <3>1 DEF Table, OneName, Pair
    <3>3. u # t
      BY <3>1, <3>2
    <3>. QED BY <1>1, <1>2, <3>2, <3>3 DEF Pair
  <2>. QED BY <2>1 DEF OneName
<1>9. Targets'
  <2>1. SUFFICES ASSUME NEW u \in Threads, pc'[u] \in Renaming PROVE TargetOf(u)'
    BY DEF Targets, TargetOf
  <2>2. u # t /\ pc[u] \in Renaming
    BY <1>2, <2>1 DEF Renaming
  <2>3. TargetOf(u) /\ to[u] \in Pobjs /\ to[u] # to[t] /\ to[u] # None
    BY <1>4, <2>2, Holders, NoneApart DEF Table, Targets, SoleTo
  <2>4. SameEntry(to[u])
    BY <1>5, <2>3
  <2>. QED BY <1>1, <1>2, <2>2, <2>3, <2>4 DEF TargetOf, SameEntry
<1>10. \A u \in Threads : User(u)' <=> User(u)
  BY <1>1 DEF User
<1>11. Agreed'
  <2>1. \A u \in Threads : User(u) => SameEntry(po[u])
    BY <1>4, <1>5, UserHas DEF SoleTo
  <2>. QED BY <1>1, <1>10, <2>1 DEF Table, Agreed, SameEntry
<1>12. Alone'
  BY <1>1, <1>10 DEF Table, Alone
<1>. QED BY <1>7, <1>8, <1>9, <1>11, <1>12 DEF Table

LEMMA ReleaseTable ==
  ASSUME Inv, Inv', Table, NEW t \in Threads, Release(t)
  PROVE  Table'
<1>1. /\ pc[t] = "release" /\ pobjs' = Released(po[t])
      /\ po' = [po EXCEPT ![t] = None] /\ pc' = [pc EXCEPT ![t] = "idle"]
      /\ fl' = [fl EXCEPT ![t] = {}] /\ arg' = [arg EXCEPT ![t] = NoArg]
      /\ UNCHANGED <<use, to, dir>>
  BY DEF Release, Goto
<1>2. /\ pc'[t] = "idle" /\ po'[t] = None /\ arg'[t] = NoArg
      /\ \A u \in Threads \ {t} : /\ pc'[u] = pc[u] /\ po'[u] = po[u]
                                  /\ fl'[u] = fl[u] /\ arg'[u] = arg[u]
  BY <1>1 DEF Inv, Shape
<1>3. po[t] \in Pobjs /\ CallOf(t)
  BY <1>1, HasEntry DEF NoEntry, Table, Calls
<1>4. /\ \A q \in Pobjs : q # po[t] => SameEntry(q)
      /\ pobjs'[po[t]].name = None \/ (SameEntry(po[t]) /\ ~SolePo(t))
      /\ ~SolePo(t) => SameEntry(po[t])
  BY <1>1, <1>3, SoleIs, ReleasedIs
<1>5. Others(t)
  BY <1>1, <1>2 DEF Others
<1>6. Calls'
  <2>1. CallOf(t)'
    BY <1>1, <1>2, <1>3 DEF CallOf, Renaming, NoArg
  <2>. QED BY <1>1, <1>5, <2>1, CallsKept DEF Table
<1>7. OneName'
  <2>1. ASSUME NEW q \in Pobjs, NEW r \in Pobjs, q # r, pobjs'[q].name # None,
               pobjs'[r].name = pobjs'[q].name
        PROVE  Pair(q, r)'
    <3>1. /\ pobjs[q].name # None /\ pobjs[r].name = pobjs[q].name
      BY <1>4, <2>1 DEF SameEntry
    <3>2. PICK u \in Threads : pc[u] = "renamed" /\ {q, r} = {po[u], to[u]}
      BY <2>1, <3>1 DEF Table, OneName, Pair
    <3>3. u # t
      BY <1>1, <3>2
    <3>. QED BY <1>1, <1>2, <3>2, <3>3 DEF Pair
  <2>. QED BY <2>1 DEF OneName
<1>8. Targets'
  <2>1. SUFFICES ASSUME NEW u \in Threads, pc'[u] \in Renaming PROVE TargetOf(u)'
    BY DEF Targets, TargetOf
  <2>2. u # t /\ pc[u] \in Renaming
    BY <1>2, <2>1 DEF Renaming
  <2>3. TargetOf(u) /\ to[u] \in Pobjs /\ to[u] # None
    BY <2>2, Holders, NoneApart DEF Table, Targets
  <2>4. SameEntry(to[u])
    BY <1>4, <2>2, <2>3 DEF TargetOf
  <2>. QED BY <1>1, <1>2, <2>2, <2>3, <2>4 DEF TargetOf, SameEntry
<1>9. ~User(t)' /\ \A u \in Threads \ {t} : User(u)' <=> User(u)
  BY <1>2 DEF User, NoArg
<1>10. Agreed'
  <2>1. \A u \in Threads \ {t} : User(u) => SameEntry(po[u])
    BY <1>4, UserHas DEF SolePo
  <2>. QED BY <1>2, <1>9, <2>1 DEF Table, Agreed, SameEntry
<1>11. Alone'
  BY <1>2, <1>9 DEF Table, Alone
<1>. QED BY <1>6, <1>7, <1>8, <1>10, <1>11 DEF Table

(***************************************************************************)
(* Nobody else has the entry of the object that is renamed, so that        *)
(* tee_pobj_rename() does not refuse.                                      *)
(***************************************************************************)
LEMMA RenamesAlone ==
  ASSUME Inv, Table, Careful(use), NEW t \in Threads, pc[t] \in Renaming
  PROVE  SolePo(t) /\ po[t] \in Pobjs /\ pobjs[po[t]].refcnt = 1
<1>1. po[t] \in Pobjs /\ User(t) /\ CallOf(t) /\ Exclusive(fl[t]) /\ use.renames
  BY Holders DEF Table, Calls, CallOf, Exclusive, Conflict
<1>2. ASSUME NEW u \in Threads, u # t, po[u] = po[t] PROVE FALSE
  <2>1. pc[u] \notin NoEntry
    BY <1>1, <1>2, NoneApart DEF Inv, Held, HeldBy
  <2>2. arg[u].op \in {"open", "create", "enum"} /\ CallOf(u)
    BY <2>1 DEF Table, Calls, CallOf, NoEntry, Inv, Shape, Arg
  <2>3. arg[u].op # "enum"
    BY <1>1, <2>2 DEF CallOf, Careful
  <2>. QED BY <1>1, <1>2, <2>2, <2>3 DEF Table, Alone, User
<1>3. ASSUME NEW u \in Threads, to[u] = po[t] PROVE FALSE
  <2>1. pc[u] \in Renaming
    BY <1>1, <1>3, Holders, NoneApart
  <2>. QED BY <1>3, <2>1 DEF Table, Targets, TargetOf
<1>4. SolePo(t)
  BY <1>2, <1>3 DEF SolePo
<1>. QED BY <1>1, <1>4, SoleIs

LEMMA RenamePobjTable ==
  ASSUME Inv, Inv', Table, Careful(use), NEW t \in Threads, RenamePobj(t)
  PROVE  Table' /\ NameOf(t)' = arg[t].name
<1>1. /\ pc[t] = "renamePobj" /\ pc' = [pc EXCEPT ![t] = "renamed"]
      /\ UNCHANGED <<use, arg, po, to, fl, dir>>
  BY DEF RenamePobj, Goto, thvars
<1>2. pc'[t] = "renamed" /\ \A u \in Threads \ {t} : pc'[u] = pc[u]
  BY <1>1 DEF Inv, Shape
<1>3. SolePo(t) /\ po[t] \in Pobjs /\ pobjs[po[t]].refcnt = 1
  BY <1>1, RenamesAlone DEF Renaming
<1>4. /\ pobjs'[po[t]].name = arg[t].name /\ pobjs'[po[t]].flags = pobjs[po[t]].flags
      /\ \A q \in Pobjs : q # po[t] => pobjs'[q] = pobjs[q]
  <2>1. pobjs' = [pobjs EXCEPT ![po[t]].name = arg[t].name] /\ pobjs \in [Pobjs -> Pobj]
    BY <1>3 DEF RenamePobj, Inv, Shape
  <2>. QED BY <1>3, <2>1 DEF Pobj
<1>5. Others(t) /\ CallOf(t) /\ TargetOf(t) /\ to[t] \in Pobjs
  BY <1>1, <1>2, Holders DEF Others, Table, Calls, Targets, Renaming
<1>6. Calls'
  <2>1. CallOf(t)'
    BY <1>1, <1>2, <1>5 DEF CallOf, Renaming
  <2>. QED BY <1>1, <1>5, <2>1, CallsKept DEF Table
<1>7. \A u \in Threads : pc'[u] \in Renaming <=> pc[u] \in Renaming
  BY <1>1, <1>2 DEF Renaming
<1>8. OneName'
  <2>1. ASSUME NEW q \in Pobjs, NEW r \in Pobjs, q # r, Pair(q, r)
        PROVE  Pair(q, r)'
    <3>1. PICK u \in Threads : pc[u] = "renamed" /\ {q, r} = {po[u], to[u]}
      BY <2>1 DEF Pair
    <3>. QED BY <1>1, <1>2, <3>1 DEF Pair
  <2>2. ASSUME NEW q \in Pobjs, q # po[t], pobjs[q].name = arg[t].name
        PROVE  q = to[t]
    <3>1. SUFFICES ASSUME q # to[t] PROVE FALSE
      OBVIOUS
    <3>2. pobjs[to[t]].name = pobjs[q].name /\ pobjs[q].name # None
      BY <1>1, <1>5, <2>2, Holders, NoneApart DEF TargetOf, Renaming
    <3>3. PICK u \in Threads : pc[u] = "renamed" /\ {q, to[t]} = {po[u], to[u]}
      BY <1>5, <3>1, <3>2 DEF Table, OneName, Pair
    <3>4. u # t
      BY <1>1, <3>3
    <3>. QED BY <1>1, <1>5, <3>3, <3>4 DEF TargetOf, Renaming
  <2>3. ASSUME NEW q \in Pobjs, NEW r \in Pobjs, {q, r} = {po[t], to[t]}
        PROVE  Pair(q, r)'
    BY <1>1, <1>2, <2>3 DEF Pair
  <2>4. ASSUME NEW q \in Pobjs, NEW r \in Pobjs, q # r, pobjs'[q].name # None,
               pobjs'[r].name = pobjs'[q].name
        PROVE  Pair(q, r)'
    <3>1. CASE q = po[t]
      <4>1. r = to[t]
        BY <1>4, <2>2, <2>4, <3>1
      <4>. QED BY <2>3, <3>1, <4>1
    <3>2. CASE r = po[t]
      <4>1. q = to[t]
        BY <1>4, <2>2, <2>4, <3>2
      <4>. QED BY <2>3, <3>2, <4>1
    <3>3. CASE q # po[t] /\ r # po[t]
      BY <1>4, <2>1, <2>4, <3>3 DEF Table, OneName
    <3>. QED BY <3>1, <3>2, <3>3
  <2>. QED BY <2>4 DEF OneName
<1>9. Targets'
  <2>1. SUFFICES ASSUME NEW u \in Threads, pc[u] \in Renaming PROVE TargetOf(u)'
    BY <1>7 DEF Targets, TargetOf
  <2>2. TargetOf(u) /\ to[u] \in Pobjs /\ to[u] # po[t]
    BY <1>3, <2>1, Holders DEF Table, Targets, SolePo
  <2>. QED BY <1>1, <1>4, <1>7, <2>1, <2>2 DEF TargetOf
<1>10. Agreed'
  <2>1. \A u \in Threads : User(u) => pobjs'[po[u]].flags = pobjs[po[u]].flags
    BY <1>4, UserHas
  <2>. QED BY <1>1, <2>1 DEF Table, Agreed, User
<1>11. Alone'
  BY <1>1 DEF Table, Alone, User
<1>12. NameOf(t)' = arg[t].name
  BY <1>1, <1>4 DEF NameOf
<1>. QED BY <1>6, <1>8, <1>9, <1>10, <1>11, <1>12 DEF Table

(***************************************************************************)
(* The rest of an enumeration leaves the table alone.                      *)
(***************************************************************************)
Enumerates(t) ==
  /\ pc[t] = "idle" /\ pc'[t] \in NoEntry
  /\ Others(t) /\ UNCHANGED <<use, pobjs, po, to, fl>>
  /\ CallOf(t)' /\ arg'[t].op \in {"none", "enum"}

LEMMA EnumeratesTable ==
  ASSUME Inv, Table, NEW t \in Threads, Enumerates(t)
  PROVE  Table'
<1>1. /\ pc[t] = "idle" /\ pc'[t] \in NoEntry /\ UNCHANGED <<use, pobjs, po, to, fl>>
      /\ \A u \in Threads \ {t} : pc'[u] = pc[u] /\ arg'[u] = arg[u]
      /\ CallOf(t)
  BY DEF Enumerates, Others, Table, Calls
<1>2. Calls'
  BY CallsKept DEF Enumerates, Table
<1>3. \A u \in Threads : /\ pc'[u] \in Renaming <=> pc[u] \in Renaming
                         /\ pc'[u] = "renamed" <=> pc[u] = "renamed"
                         /\ pc[u] \in Renaming => arg'[u] = arg[u]
  BY <1>1 DEF NoEntry, Renaming
<1>4. \A u \in Threads : User(u)' <=> User(u)
  BY <1>1 DEF User, Enumerates, CallOf
<1>5. OneName'
  BY <1>1, <1>3 DEF Table, OneName, Pair
<1>6. Targets'
  BY <1>1, <1>3 DEF Table, Targets, TargetOf
<1>7. Agreed' /\ Alone'
  BY <1>1, <1>4 DEF Table, Agreed, Alone
<1>. QED BY <1>2, <1>5, <1>6, <1>7 DEF Table

LEMMA EnumTable ==
  ASSUME Inv, Inv', Table, NEW t \in Threads, StartEnum(t) \/ NextEnum(t) \/ EndEnum(t)
  PROVE  Table'
<1>1. CASE StartEnum(t)
  <2>1. /\ use.enums /\ pc[t] = "idle" /\ UNCHANGED <<use, pobjs, pc, arg, po, to, fl>>
        /\ dir' = [dir EXCEPT ![t] = [idx |-> 0, valid |-> TRUE]] /\ CallOf(t)
    BY <1>1 DEF StartEnum, Table, Calls
  <2>2. Others(t)
    BY <2>1 DEF Others, Inv, Shape
  <2>3. Enumerates(t)
    BY <2>1, <2>2 DEF Enumerates, CallOf, NoEntry
  <2>. QED BY <2>3, EnumeratesTable
<1>2. CASE NextEnum(t)
  <2>1. /\ pc[t] = "idle" /\ dir[t] # None /\ UNCHANGED <<use, pobjs, po, to, fl>>
        /\ pc' = [pc EXCEPT ![t] = "enumGet"] /\ CallOf(t)
        /\ dir' = [dir EXCEPT ![t].idx = Min(Ahead(t))]
        /\ arg' = [arg EXCEPT ![t] = [op |-> "enum", over |-> FALSE,
                                      name |-> dirh.dents[Min(Ahead(t))].name]]
    BY <1>2 DEF NextEnum, Goto, Table, Calls
  <2>2. /\ Others(t) /\ arg'[t].op = "enum" /\ pc'[t] = "enumGet"
    BY <2>1 DEF Others, Inv, Shape
  <2>3. Enumerates(t)
    BY <2>1, <2>2 DEF Enumerates, CallOf, NoEntry, Renaming
  <2>. QED BY <2>3, EnumeratesTable
<1>3. CASE EndEnum(t)
  <2>1. /\ pc[t] = "idle" /\ UNCHANGED <<use, pobjs, pc, arg, po, to, fl>>
        /\ dir' = [Stale(dirh') EXCEPT ![t] = None] /\ CallOf(t)
    BY <1>3 DEF EndEnum, Table, Calls
  <2>2. dir'[t] = None /\ \A u \in Threads \ {t} : dir'[u] = None <=> dir[u] = None
    BY <2>1, EndStaleDoes DEF Inv
  <2>3. Others(t)
    BY <2>1, <2>2 DEF Others
  <2>4. Enumerates(t)
    BY <2>1, <2>2, <2>3 DEF Enumerates, CallOf, NoEntry
  <2>. QED BY <2>4, EnumeratesTable
<1>. QED BY <1>1, <1>2, <1>3

LEMMA StartedTable ==
  ASSUME Started
  PROVE  Table
BY DEF Started, Table, Calls, CallOf, OneName, Targets, TargetOf, Agreed, Alone,
   User, NoArg, NoPobj, Renaming

LEMMA SameTableKept ==
  ASSUME Table, UNCHANGED <<use, pobjs, pc, arg, po, to, fl, dir>>
  PROVE  Table'
BY DEF Table, Calls, CallOf, OneName, Pair, Targets, TargetOf, Agreed, Alone, User

LEMMA StepTable ==
  ASSUME Inv, Inv', Table, Careful(use), NEW t \in Threads, Step(t)
  PROVE  Table'
<1>1. CASE ObjOpen(t)
  <2>1. PICK n \in Names, f \in use.opens : Begin(t, "open", n, f, FALSE)
    BY <1>1 DEF ObjOpen
  <2>. QED BY <2>1, BeginTable
<1>2. CASE ObjCreate(t)
  <2>1. PICK n \in Names, f \in use.creates, over \in use.overs :
           Begin(t, "create", n, f, over)
    BY <1>2 DEF ObjCreate
  <2>2. over \in BOOLEAN
    <3>1. use \in Kinds
      BY DEF Inv, Shape
    <3>2. use.overs \subseteq BOOLEAN
      BY <3>1 DEF Kinds
    <3>. QED BY <3>2
  <2>. QED BY <2>1, <2>2, BeginTable
<1>. QED
  BY <1>1, <1>2, OpenFileTable, CreateFileTable, ObjWriteTable, ObjRenameTable,
     RenameFileTable, RenamePobjTable, RenamedTable, RemoveFileTable,
     CloseFileTable, ReleaseTable, EnumTable, EnumGetTable, QuietTable
     DEF Step

LEMMA NextTable == Inv /\ Inv' /\ Table /\ Careful(use) /\ [Next]_vars => Table'
<1>. SUFFICES ASSUME Inv, Inv', Table, Careful(use), [Next]_vars PROVE Table'
  OBVIOUS
<1>1. CASE Stop
  <2>1. Started'
    BY <1>1 DEF Stop, Started
  <2>. QED BY <2>1, StartedTable, PTL
<1>2. CASE Lose
  BY <1>2, SameTableKept DEF Lose, thvars
<1>3. ASSUME NEW t \in Threads, Step(t) PROVE Table'
  BY <1>3, StepTable
<1>4. CASE UNCHANGED vars
  BY <1>4, SameTableKept DEF vars, thvars
<1>. QED BY <1>1, <1>2, <1>3, <1>4 DEF Next

LEMMA UseKept == [Next]_vars => use' = use
<1>. SUFFICES ASSUME [Next]_vars PROVE use' = use
  OBVIOUS
<1>1. ASSUME NEW t \in Threads, Step(t) PROVE use' = use
  BY <1>1 DEF Step, ObjOpen, OpenFile, ReadHead, ObjCreate, CreateFile, CreateFinal,
     ObjRead, ObjWrite, ObjRename, RenameFile, RenamePobj, Renamed, ObjDel,
     RemoveFile, ObjClose, CloseFile, Release, StartEnum, NextEnum, EnumGet,
     EndEnum, Begin
<1>. QED BY <1>1 DEF Next, Stop, Lose, vars

-----------------------------------------------------------------------------
(***************************************************************************)
(* The name under which the directory file has the object of a thread.     *)
(***************************************************************************)
Disk(t) == IF pc[t] = "renamePobj" THEN arg[t].name ELSE NameOf(t)

Opened(t) == User(t) /\ pc[t] \in HasFile

(***************************************************************************)
(* Nobody but the thread that renames has an entry of the new name.        *)
(***************************************************************************)
LEMMA TargetName ==
  ASSUME Inv, Table, NEW u \in Threads, pc[u] \in {"rename", "renamePobj"},
         NEW q \in Pobjs, pobjs[q].name = arg[u].name
  PROVE  q = to[u]
<1>1. pc[u] \in Renaming /\ TargetOf(u) /\ to[u] \in Pobjs /\ pobjs[to[u]].name # None
  BY Holders, NoneApart DEF Renaming, Table, Targets
<1>2. pobjs[to[u]].name = arg[u].name
  BY <1>1 DEF TargetOf
<1>3. SUFFICES ASSUME q # to[u] PROVE FALSE
  OBVIOUS
<1>4. PICK v \in Threads : pc[v] = "renamed" /\ {q, to[u]} = {po[v], to[v]}
  BY <1>1, <1>2, <1>3 DEF Table, OneName, Pair
<1>5. v # u
  BY <1>4
<1>. QED BY <1>1, <1>4, <1>5 DEF TargetOf

LEMMA DiskApart ==
  ASSUME Inv, Table, NEW t \in Threads, NEW u \in Threads, t # u, User(t), User(u)
  PROVE  /\ Disk(t) = Disk(u) => po[t] = po[u]
         /\ pc[u] = "rename" => Disk(t) # arg[u].name
<1>1. po[t] \in Pobjs /\ po[u] \in Pobjs /\ NameOf(t) # None
  BY UserHas, NoneApart
<1>2. \A v, w \in Threads : pc[v] \in Renaming => po[w] # to[v] /\ (v # w => to[w] # to[v])
  BY DEF Table, Targets, TargetOf
<1>3. \A v \in Threads : pc[v] \in {"rename", "renamePobj"} =>
        pc[v] \in Renaming /\ to[v] \in Pobjs /\ pobjs[to[v]].name = arg[v].name
  BY Holders DEF Renaming, Table, Targets, TargetOf
<1>4. ASSUME NameOf(t) = NameOf(u) PROVE po[t] = po[u]
  <2>1. SUFFICES ASSUME po[t] # po[u] PROVE FALSE
    OBVIOUS
  <2>2. PICK v \in Threads : pc[v] = "renamed" /\ {po[t], po[u]} = {po[v], to[v]}
    BY <1>1, <1>4, <2>1 DEF Table, OneName, Pair, NameOf
  <2>. QED BY <1>2, <2>2 DEF Renaming
<1>5. ASSUME NEW v \in {t, u}, NEW w \in {t, u}, v # w,
             pc[v] \in {"rename", "renamePobj"}, Disk(w) = arg[v].name
      PROVE  FALSE
  <2>1. CASE pc[w] = "renamePobj"
    <3>1. arg[w].name = arg[v].name
      BY <1>5, <2>1 DEF Disk
    <3>2. to[w] = to[v]
      BY <1>3, <1>5, <2>1, <3>1, TargetName
    <3>. QED BY <1>2, <1>3, <1>5, <3>2
  <2>2. CASE pc[w] # "renamePobj"
    <3>1. pobjs[po[w]].name = arg[v].name
      BY <1>5, <2>2 DEF Disk, NameOf
    <3>2. po[w] = to[v]
      BY <1>1, <1>5, <3>1, TargetName
    <3>. QED BY <1>2, <1>3, <1>5, <3>2
  <2>. QED BY <2>1, <2>2
<1>6. ASSUME Disk(t) = Disk(u) PROVE po[t] = po[u]
  <2>1. CASE pc[t] = "renamePobj"
    BY <1>5, <1>6, <2>1 DEF Disk
  <2>2. CASE pc[u] = "renamePobj"
    BY <1>5, <1>6, <2>2 DEF Disk
  <2>. QED BY <1>4, <1>6, <2>1, <2>2 DEF Disk
<1>. QED BY <1>5, <1>6

LEMMA Sharers ==
  ASSUME Inv, Table, NEW t \in Threads, NEW u \in Threads, t # u, User(t), User(u),
         Disk(t) = Disk(u)
  PROVE  ~Conflict(fl[t], fl[u]) /\ ~Exclusive(fl[t]) /\ ~Exclusive(fl[u])
<1>1. po[t] = po[u]
  BY DiskApart
<1>2. ~Exclusive(fl[t]) /\ ~Exclusive(fl[u])
  BY <1>1 DEF Table, Alone
<1>3. AgreesOn(fl[t], pobjs[po[t]].flags) /\ AgreesOn(fl[u], pobjs[po[t]].flags)
  BY <1>1 DEF Table, Agreed
<1>. QED BY <1>2, <1>3 DEF AgreesOn, Exclusive, Conflict, Clash

LEMMA DiskIs ==
  ASSUME Inv, Table, NEW t \in Threads, User(t)
  PROVE  Disk(t) \in Names /\ Disk(t) # None /\ NameOf(t) \in Names
<1>1. NameOf(t) \in Names /\ HeldBy(t) /\ arg[t].name \in Names \cup {None}
  BY UserHas DEF Inv, Held, Shape, Arg
<1>. QED BY <1>1, NoneApart DEF Disk, HeldBy, Renaming

(***************************************************************************)
(* A step of a thread leaves the handles of the others, and the names of   *)
(* their objects, as they are.                                             *)
(***************************************************************************)
Same(u) ==
  /\ pc'[u] = pc[u] /\ arg'[u] = arg[u] /\ po'[u] = po[u] /\ fl'[u] = fl[u]
  /\ fh'[u] = fh[u]

SameName(u) == NameOf(u)' = NameOf(u)

Kept(u) == (User(u)' <=> User(u)) /\ (User(u) => Same(u) /\ SameName(u))

LEMMA StepSame ==
  ASSUME Inv, NEW t \in Threads, Step(t), NEW u \in Threads, u # t
  PROVE  Same(u)
<1>1. Does(t)
  BY StepDoes
<1>2. /\ pc \in [Threads -> Places] /\ arg \in [Threads -> Arg]
      /\ po \in [Threads -> {None} \cup Pobjs] /\ fl \in [Threads -> Flags]
      /\ fh \in [Threads -> {None} \cup Handle]
  BY DEF Inv, Shape
<1>3. CASE ObjOpen(t) \/ ObjCreate(t)
  BY <1>2, <1>3 DEF ObjOpen, ObjCreate, Begin, Goto, Same
<1>4. CASE OpenFile(t)
  BY <1>2, <1>4 DEF OpenFile, Goto, Same, NoDirh
<1>5. CASE ReadHead(t) \/ CreateFinal(t) \/ ObjRead(t) \/ ObjDel(t) \/ ObjClose(t)
           \/ RenamePobj(t)
  BY <1>2, <1>5 DEF ReadHead, CreateFinal, ObjRead, ObjDel, ObjClose, RenamePobj,
     Goto, Same, thvars
<1>6. CASE CreateFile(t)
  BY <1>2, <1>6 DEF CreateFile, CreateFails, CreateLate, CreateDone, Goto, Same, NoDirh
<1>7. CASE ObjWrite(t)
  BY <1>2, <1>7 DEF ObjWrite, Goto, Same, NoDirh
<1>8. CASE ObjRename(t) \/ Renamed(t) \/ Release(t)
  BY <1>2, <1>8 DEF ObjRename, Renamed, Release, Goto, Same
<1>9. CASE RenameFile(t) \/ RemoveFile(t) \/ CloseFile(t)
  BY <1>2, <1>9 DEF RenameFile, RemoveFile, CloseFile, Goto, Same
<1>10. CASE StartEnum(t) \/ NextEnum(t) \/ EnumGet(t) \/ EndEnum(t)
  BY <1>2, <1>10 DEF StartEnum, NextEnum, EnumGet, EndEnum, Goto, Same
<1>. QED BY <1>3, <1>4, <1>5, <1>6, <1>7, <1>8, <1>9, <1>10 DEF Step

(***************************************************************************)
(* The entries of the table that somebody else has.                        *)
(***************************************************************************)
LEMMA StepEntries ==
  ASSUME Inv, Table, Careful(use), NEW t \in Threads, Step(t),
         NEW u \in Threads, u # t, User(u)
  PROVE  pobjs'[po[u]].name = pobjs[po[u]].name
<1>1. po[u] \in Pobjs /\ pobjs[po[u]].name # None
  BY UserHas, NoneApart DEF NameOf
<1>2. \A q \in Pobjs : SameEntry(q) => pobjs'[q].name = pobjs[q].name
  BY DEF SameEntry
<1>3. ASSUME NEW n \in Names, NEW f \in Flags, NEW w, NEW over, Gets(n, f, w, over)
      PROVE  SameEntry(po[u])
  BY <1>1, <1>3, GetsIs DEF Joins, Adds
<1>4. CASE ObjOpen(t) \/ ObjCreate(t)
  <2>1. use.opens \subseteq Flags /\ use.creates \subseteq Flags
    <3>1. use \in Kinds
      BY DEF Inv, Shape
    <3>. QED BY <3>1 DEF Kinds
  <2>2. PICK n \in Names, f \in Flags, w \in {"open", "create"}, over \in BOOLEAN \cup use.overs :
           Gets(n, f, w, over)
    BY <1>4, <2>1 DEF ObjOpen, ObjCreate, Begin
  <2>. QED BY <1>1, <1>2, <1>3, <2>2
<1>5. CASE ObjRename(t)
  <2>1. PICK m \in Names : Gets(m, {"meta"}, "rename", FALSE)
    BY <1>5 DEF ObjRename
  <2>2. {"meta"} \in Flags
    BY DEF Flags
  <2>. QED BY <1>1, <1>2, <1>3, <2>1, <2>2
<1>6. CASE EnumGet(t)
  <2>1. pc[t] = "enumGet" /\ Gets(arg[t].name, {}, "enum", FALSE)
    BY <1>6 DEF EnumGet
  <2>2. arg[t].name \in Names /\ {} \in Flags
    BY <2>1 DEF Inv, Shape, Arg, Held, HeldBy, NoEntry, Flags
  <2>. QED BY <1>1, <1>2, <1>3, <2>1, <2>2
<1>7. CASE Release(t)
  <2>1. pc[t] = "release" /\ pobjs' = Released(po[t])
    BY <1>7 DEF Release
  <2>2. po[t] \in Pobjs
    BY <2>1, HasEntry DEF NoEntry
  <2>3. po[u] = po[t] => pobjs[po[t]].refcnt # 1
    BY <2>2, SoleIs DEF SolePo
  <2>4. SameEntry(po[u])
    BY <1>1, <2>1, <2>2, <2>3, ReleasedIs
  <2>. QED BY <1>1, <1>2, <2>4
<1>8. CASE Renamed(t)
  <2>1. pc[t] \in Renaming /\ pobjs' = Released(to[t])
    BY <1>8 DEF Renamed, Renaming
  <2>2. to[t] \in Pobjs /\ po[u] # to[t]
    BY <2>1, Holders DEF Table, Targets, TargetOf
  <2>3. SameEntry(po[u])
    BY <1>1, <2>1, <2>2, ReleasedIs
  <2>. QED BY <1>1, <1>2, <2>3
<1>9. CASE RenamePobj(t)
  <2>1. pc[t] = "renamePobj" /\ po[t] \in Pobjs /\ SolePo(t)
    BY <1>9, RenamesAlone DEF RenamePobj, Renaming
  <2>2. po[u] # po[t]
    BY <2>1 DEF SolePo
  <2>3. pobjs \in [Pobjs -> Pobj]
    BY DEF Inv, Shape
  <2>4. pobjs'[po[u]] = pobjs[po[u]]
    BY <1>1, <1>9, <2>1, <2>2, <2>3 DEF RenamePobj
  <2>. QED BY <2>4
<1>10. CASE CreateFinal(t)
  <2>1. pc[t] = "final" /\ po[t] \in Pobjs /\ pobjs \in [Pobjs -> Pobj]
    BY <1>10, HasEntry DEF CreateFinal, NoEntry, Inv, Shape
  <2>2. \/ pobjs' = pobjs
        \/ pobjs' = [pobjs EXCEPT ![po[t]].creating = FALSE]
    BY <1>10 DEF CreateFinal
  <2>3. SameEntry(po[u])
    BY <1>1, <2>1, <2>2 DEF SameEntry, Pobj
  <2>. QED BY <1>1, <1>2, <2>3
<1>11. CASE pobjs' = pobjs
  BY <1>11
<1>. QED BY <1>4, <1>5, <1>6, <1>7, <1>8, <1>9, <1>10, <1>11
   DEF Step, OpenFile, ReadHead, CreateFile, ObjRead, ObjWrite, RenameFile, ObjDel,
       RemoveFile, ObjClose, CloseFile, StartEnum, NextEnum, EndEnum

LEMMA OthersKept ==
  ASSUME Inv, Table, Careful(use), NEW t \in Threads, Step(t),
         NEW u \in Threads, u # t
  PROVE  Kept(u)
<1>1. Same(u)
  BY StepSame
<1>2. User(u)' <=> User(u)
  BY <1>1 DEF Same, User
<1>3. User(u) => SameName(u)
  BY <1>1, StepEntries DEF Same, SameName, NameOf
<1>. QED BY <1>1, <1>2, <1>3 DEF Kept

LEMMA KeptDisk ==
  ASSUME NEW u \in Threads, Kept(u)
  PROVE  /\ Opened(u)' <=> Opened(u)
         /\ User(u) => fh'[u] = fh[u] /\ fl'[u] = fl[u] /\ pc'[u] = pc[u] /\ Disk(u)' = Disk(u)
BY DEF Kept, Opened, Same, SameName, Disk, User

-----------------------------------------------------------------------------
(***************************************************************************)
(* The storage: a named entry of the directory file leads to a file that   *)
(* has its contents, unless the normal world lost it.                      *)
(***************************************************************************)
IsDent(i, n, f, v) == dents[i].name = n /\ dents[i].fno = f /\ dents[i].hash = v

Backed(i) ==
  /\ dents[i].fno \in Fnos /\ dents[i].hash \in Vers
  /\ files[dents[i].fno] = Lost \/ Readable(dents[i].fno, dents[i].hash)

NamedOnce ==
  \A i, j \in Idxs : dents[i].name # None /\ dents[j].name = dents[i].name => i = j

Stock ==
  /\ files \in [Fnos -> {None, Lost} \cup Pairs]
  /\ \A t \in Threads : fh[t] # None => fh[t].fno \in Fnos /\ fh[t].ver \in Vers
  /\ \A i \in Idxs : dents[i].name # None => Backed(i)
  /\ NamedOnce

(***************************************************************************)
(* A handle that is not shared has its entry and its file to itself.       *)
(***************************************************************************)
OwnedBy(t) ==
  Opened(t) /\ Exclusive(fl[t]) =>
    /\ IsDent(fh[t].idx, Disk(t), fh[t].fno, fh[t].ver)
    /\ files[fh[t].fno] = Lost \/ Current(fh[t])

(***************************************************************************)
(* A file that a handle can read has no name but that of its object.       *)
(***************************************************************************)
UnderName(t) ==
  Opened(t) /\ Current(fh[t]) =>
    \A i \in Idxs : dents[i].name # None /\ dents[i].fno = fh[t].fno =>
                      dents[i].name = Disk(t)

(***************************************************************************)
(* Handles that read one file were checked against each other.             *)
(***************************************************************************)
Meet(t, u) ==
  /\ t # u /\ Opened(t) /\ Opened(u)
  /\ fh[t].fno = fh[u].fno /\ Current(fh[t]) /\ Current(fh[u])

Sharing == \A t, u \in Threads : Meet(t, u) => ~Conflict(fl[t], fl[u])

Base ==
  /\ Stock /\ Sharing
  /\ \A t \in Threads : OwnedBy(t) /\ UnderName(t)

LEMMA LostApart ==
  /\ Lost # None /\ Lost \notin Pairs /\ None \notin Pairs
  /\ \A x \in Pairs, k \in 0 .. 1 : x[k] \in Vers \cup {None}
  /\ \A v \in Vers : File(v) \in Pairs /\ File(v)[0] = v /\ File(v)[1] = None
  /\ \A x \in Pairs, k \in 0 .. 1, v \in Vers :
       /\ [x EXCEPT ![k] = v] \in Pairs /\ [x EXCEPT ![k] = v][k] = v
       /\ [x EXCEPT ![k] = v][1 - k] = x[1 - k]
  /\ \A k \in 0 .. 1 : 1 - k \in 0 .. 1 /\ 1 - k # k /\ 1 - (1 - k) = k
<1>1. Lost # None /\ Lost \notin Pairs /\ None \notin Pairs
  BY StorageAssumption
<1>2. \A x \in Pairs, k \in 0 .. 1 : x[k] \in Vers \cup {None}
  BY DEF Pairs
<1>3. \A v \in Vers : File(v) \in Pairs /\ File(v)[0] = v /\ File(v)[1] = None
  BY DEF File, Pairs
<1>4. \A k \in 0 .. 1 : 1 - k \in 0 .. 1 /\ 1 - k # k /\ 1 - (1 - k) = k
  OBVIOUS
<1>5. \A x \in Pairs, k \in 0 .. 1, v \in Vers :
       /\ [x EXCEPT ![k] = v] \in Pairs /\ [x EXCEPT ![k] = v][k] = v
       /\ [x EXCEPT ![k] = v][1 - k] = x[1 - k]
  BY <1>4 DEF Pairs
<1>. QED BY <1>1, <1>2, <1>3, <1>4, <1>5

LEMMA OpenedHas ==
  ASSUME Inv, Stock, NEW t \in Threads, pc[t] \in HasFile
  PROVE  /\ fh[t] # None /\ fh[t] \in Handle /\ fh[t].idx \in Idxs
         /\ fh[t].slot \in 0 .. 1 /\ fh[t].fno \in Fnos /\ fh[t].ver \in Vers
<1>1. fh[t] # None /\ fh[t] \in Handle
  BY DEF Inv, Held, HeldBy, Shape
<1>2. fh[t].idx \in Idxs /\ fh[t].slot \in 0 .. 1
  BY <1>1 DEF Handle
<1>. QED BY <1>1, <1>2 DEF Stock

(***************************************************************************)
(* Contents that are new are nobody's yet.                                 *)
(***************************************************************************)
LEMMA NewVerFresh ==
  ASSUME Writable, Stock
  PROVE  /\ NewVer \in Vers /\ NewVer # None
         /\ \A i \in Idxs : dents[i].hash # NewVer
         /\ \A t \in Threads : fh[t] # None => fh[t].ver # NewVer
         /\ \A f \in Fnos, k \in 0 .. 1 :
              files[f] \in Pairs => files[f][k] # NewVer
<1>1. NewVer \in Vers \ Known
  <2>1. IsFiniteSet(Vers \ Known) /\ Vers \ Known \subseteq Nat
    BY NoneApart, FS_Subset
  <2>. QED BY <2>1, MinIsIn DEF Writable, NewVer
<1>2. \A i \in Idxs : dents[i].hash \in Known
  BY DEF Known
<1>3. \A t \in Threads : fh[t] # None => fh[t].ver \in Known
  BY DEF Known
<1>4. \A f \in Fnos : files[f] \in Pairs => files[f][0] \in Known /\ files[f][1] \in Known
  BY LostApart DEF Known
<1>5. \A k \in 0 .. 1 : k = 0 \/ k = 1
  OBVIOUS
<1>. QED BY <1>1, <1>2, <1>3, <1>4, <1>5, NoneApart

(***************************************************************************)
(* What a change of the files does to what can be read of them.            *)
(***************************************************************************)
Untouched(f) == files'[f] = files[f]

LEMMA SameCurrent ==
  ASSUME NEW h, Untouched(h.fno)
  PROVE  (files'[h.fno] \notin {None, Lost} /\ files'[h.fno][h.slot] = h.ver) <=> Current(h)
BY DEF Untouched, Current

LEMMA CurrentIs ==
  ASSUME Stock, NEW h, h.fno \in Fnos
  PROVE  Current(h) <=> files[h.fno] \in Pairs /\ files[h.fno][h.slot] = h.ver
<1>1. files[h.fno] \in {None, Lost} \cup Pairs
  BY DEF Stock
<1>. QED BY <1>1, LostApart DEF Current

(***************************************************************************)
(* A handle that a step leaves as it is.                                   *)
(***************************************************************************)
Stays(u) ==
  Opened(u) /\ fh'[u] = fh[u] /\ fl'[u] = fl[u] /\ Disk(u)' = Disk(u)

StillCurrent(h) ==
  files'[h.fno] \notin {None, Lost} /\ files'[h.fno][h.slot] = h.ver

LEMMA CurrentPrime ==
  ASSUME NEW u, fh'[u] = fh[u]
  PROVE  Current(fh[u])' <=> StillCurrent(fh[u])
BY DEF Current, StillCurrent

FilesTyped == files \in [Fnos -> {None, Lost} \cup Pairs]

LEMMA StillIs ==
  ASSUME FilesTyped', NEW h, h.fno \in Fnos
  PROVE  StillCurrent(h) <=> files'[h.fno] \in Pairs /\ files'[h.fno][h.slot] = h.ver
<1>1. files'[h.fno] \in {None, Lost} \cup Pairs
  BY DEF FilesTyped
<1>. QED BY <1>1, LostApart DEF StillCurrent

(***************************************************************************)
(* What may happen to a file while the directory file stays as it is: it   *)
(* is lost; it has no name; or a write to it, by its only handle, fails.   *)
(***************************************************************************)
Nameless(g) == \A i \in Idxs : dents[i].name # None => dents[i].fno # g

Overwrites(t, g) ==
  /\ Opened(t) /\ Exclusive(fl[t]) /\ g = fh[t].fno
  /\ files[g] \in Pairs /\ Writable
  /\ files'[g] = [files[g] EXCEPT ![1 - fh[t].slot] = NewVer]

Altered(g) ==
  \/ Untouched(g) \/ files'[g] = Lost
  \/ Nameless(g) /\ (files'[g] = None \/ (Writable /\ files'[g] = File(NewVer)))
  \/ \E t \in Threads : ~Opened(t)' /\ Overwrites(t, g)

(***************************************************************************)
(* No handle becomes good again: new contents have a new root hash.        *)
(***************************************************************************)
LEMMA OverwrittenCurrent ==
  ASSUME Inv, Base, FilesTyped', NEW t \in Threads, NEW h, h.fno \in Fnos,
         h.slot \in 0 .. 1, h.ver # NewVer, Overwrites(t, h.fno), StillCurrent(h)
  PROVE  Current(h)
<1> DEFINE g == h.fno
           k == fh[t].slot
<1>1. /\ files[g] \in Pairs /\ Writable /\ k \in 0 .. 1 /\ Stock
      /\ files'[g] = [files[g] EXCEPT ![1 - k] = NewVer]
  BY OpenedHas DEF Overwrites, Opened, Base
<1>2. NewVer \in Vers
  BY <1>1, NewVerFresh
<1>3. files'[g][h.slot] = h.ver
  BY DEF StillCurrent
<1>4. 1 - k \in 0 .. 1 /\ 1 - (1 - k) = k /\ (h.slot = k \/ h.slot = 1 - k)
  BY <1>1
<1>5. files'[g][1 - k] = NewVer /\ files'[g][k] = files[g][k]
  BY <1>1, <1>2, <1>4, LostApart
<1>6. h.slot = k
  BY <1>3, <1>4, <1>5
<1>. QED BY <1>1, <1>3, <1>5, <1>6, CurrentIs

LEMMA OldCurrent ==
  ASSUME Inv, Base, FilesTyped', NEW u \in Threads, pc[u] \in HasFile,
         Altered(fh[u].fno) \/ files'[fh[u].fno] = None, StillCurrent(fh[u])
  PROVE  Current(fh[u])
<1> DEFINE h == fh[u]
<1>1. /\ Stock /\ h # None /\ h.fno \in Fnos /\ h.slot \in 0 .. 1 /\ h.ver \in Vers
  BY OpenedHas DEF Base
<1>2. files'[h.fno] \in Pairs /\ files'[h.fno][h.slot] = h.ver
  BY <1>1, StillIs
<1>3. CASE Untouched(h.fno)
  BY <1>3, SameCurrent DEF StillCurrent
<1>4. CASE files'[h.fno] \in {None, Lost}
  BY <1>2, <1>4, LostApart
<1>5. CASE Writable /\ files'[h.fno] = File(NewVer)
  <2>1. NewVer \in Vers /\ h.ver # NewVer
    BY <1>1, <1>5, NewVerFresh
  <2>2. h.slot = 0 \/ h.slot = 1
    BY <1>1
  <2>3. File(NewVer)[h.slot] # h.ver
    BY <1>1, <2>1, <2>2, LostApart, NoneApart
  <2>. QED BY <1>2, <1>5, <2>3
<1>6. ASSUME NEW t \in Threads, Overwrites(t, h.fno) PROVE Current(h)
  <2>1. h.ver # NewVer
    BY <1>1, <1>6, NewVerFresh DEF Overwrites
  <2>. QED BY <1>1, <1>6, <2>1, OverwrittenCurrent
<1>. QED BY <1>3, <1>4, <1>5, <1>6 DEF Altered

(***************************************************************************)
(* Two handles that are not shared are on different entries and files.     *)
(***************************************************************************)
LEMMA OwnersApart ==
  ASSUME Inv, Table, Base, NEW t \in Threads, Opened(t), Exclusive(fl[t]),
         NEW i \in Idxs, dents[i].name # None, i # fh[t].idx
  PROVE  dents[i].fno # fh[t].fno /\ dents[i].name # Disk(t)
<1>1. /\ IsDent(fh[t].idx, Disk(t), fh[t].fno, fh[t].ver) /\ Disk(t) # None
      /\ fh[t].idx \in Idxs
  BY DiskIs, OpenedHas DEF Base, OwnedBy, Opened
<1>. QED BY <1>1 DEF IsDent, Inv, Numbered, Distinct, Base, Stock, NamedOnce

LEMMA OwnersFile ==
  ASSUME Inv, Table, Base, NEW t \in Threads, Opened(t), Exclusive(fl[t]),
         NEW u \in Threads, u # t, User(u), NEW i \in Idxs, dents[i].name = Disk(u)
  PROVE  i # fh[t].idx /\ dents[i].fno # fh[t].fno
<1>1. Disk(u) # Disk(t) /\ Disk(u) # None
  BY Sharers, DiskIs DEF Opened
<1>2. IsDent(fh[t].idx, Disk(t), fh[t].fno, fh[t].ver)
  BY DEF Base, OwnedBy
<1>3. i # fh[t].idx
  BY <1>1, <1>2 DEF IsDent
<1>. QED BY <1>1, <1>3, OwnersApart

LEMMA BaseSameDents ==
  ASSUME Inv, Table, Base, Inv', dents' = dents, FilesTyped',
         \A u \in Threads : fh'[u] \in {fh[u], None},
         \A u \in Threads : Opened(u)' => Stays(u),
         \A g \in Fnos : Altered(g)
  PROVE  Base'
<1>1. Stock /\ NamedOnce'
  BY DEF Base, Stock, NamedOnce
<1>2. ASSUME NEW i \in Idxs, dents[i].name # None
      PROVE  Backed(i)'
  <2> DEFINE g == dents[i].fno
             v == dents[i].hash
  <2>1. /\ g \in Fnos /\ v \in Vers /\ (files[g] = Lost \/ Readable(g, v))
    BY <1>1, <1>2 DEF Stock, Backed
  <2>2. SUFFICES \/ files'[g] = Lost
                 \/ files'[g] \notin {None, Lost} /\ \E k \in 0 .. 1 : files'[g][k] = v
    BY <2>1 DEF Backed, Readable
  <2>3. CASE Untouched(g)
    BY <2>1, <2>3 DEF Readable, Untouched
  <2>4. CASE files'[g] = Lost
    BY <2>4
  <2>5. CASE Nameless(g)
    BY <1>2, <2>5 DEF Nameless
  <2>6. ASSUME NEW t \in Threads, Overwrites(t, g)
        PROVE  files'[g] \notin {None, Lost} /\ \E k \in 0 .. 1 : files'[g][k] = v
    <3>1. /\ Opened(t) /\ Exclusive(fl[t]) /\ g = fh[t].fno /\ files[g] \in Pairs /\ Writable
          /\ files'[g] = [files[g] EXCEPT ![1 - fh[t].slot] = NewVer]
          /\ fh[t].slot \in 0 .. 1
      BY <1>1, <2>6, OpenedHas DEF Overwrites, Opened
    <3>2. i = fh[t].idx
      BY <1>2, <3>1, OwnersApart
    <3>3. v = fh[t].ver /\ files[g] # Lost /\ (files[g] = Lost \/ Current(fh[t]))
      BY <3>1, <3>2, LostApart DEF Base, OwnedBy, IsDent
    <3>4. files[g][fh[t].slot] = v
      BY <3>1, <3>3 DEF Current
    <3>5. NewVer \in Vers
      BY <1>1, <3>1, NewVerFresh
    <3>6. 1 - fh[t].slot \in 0 .. 1 /\ 1 - (1 - fh[t].slot) = fh[t].slot
      BY <3>1
    <3>7. files'[g] \in Pairs /\ files'[g][fh[t].slot] = files[g][fh[t].slot]
      BY <3>1, <3>5, <3>6, LostApart
    <3>. QED BY <3>1, <3>4, <3>7, LostApart
  <2>. QED BY <2>1, <2>3, <2>4, <2>5, <2>6 DEF Altered
<1>3. Stock'
  <2>1. \A i \in Idxs : dents'[i].name # None => Backed(i)'
    BY <1>2
  <2>2. \A t \in Threads : fh'[t] # None => fh'[t].fno \in Fnos /\ fh'[t].ver \in Vers
    BY <1>1 DEF Stock
  <2>. QED BY <1>1, <2>1, <2>2 DEF Stock, FilesTyped
<1>4. ASSUME NEW u \in Threads, Opened(u)'
      PROVE  /\ Stays(u) /\ Opened(u) /\ pc[u] \in HasFile /\ fh'[u] = fh[u] /\ fl'[u] = fl[u]
             /\ Current(fh[u])' => Current(fh[u])
             /\ Disk(u)' = Disk(u) /\ fh[u].fno \in Fnos
  <2>1. /\ Stays(u) /\ Opened(u) /\ pc[u] \in HasFile /\ fh'[u] = fh[u] /\ fl'[u] = fl[u]
        /\ Disk(u)' = Disk(u)
    BY <1>4 DEF Stays, Opened
  <2>2. fh[u].fno \in Fnos
    BY <1>1, <2>1, OpenedHas
  <2>3. Current(fh[u])' => StillCurrent(fh[u])
    BY <2>1, CurrentPrime
  <2>4. StillCurrent(fh[u]) => Current(fh[u])
    BY <2>1, <2>2, OldCurrent
  <2>. QED BY <2>1, <2>2, <2>3, <2>4
<1>5. ASSUME NEW u \in Threads PROVE OwnedBy(u)'
  <2>1. SUFFICES ASSUME Opened(u)', Exclusive(fl'[u])
                 PROVE  /\ IsDent(fh[u].idx, Disk(u), fh[u].fno, fh[u].ver)'
                        /\ files'[fh'[u].fno] = Lost \/ Current(fh[u])'
    BY DEF OwnedBy
  <2>2. /\ Opened(u) /\ fh'[u] = fh[u] /\ fl'[u] = fl[u] /\ Disk(u)' = Disk(u)
        /\ fh[u].fno \in Fnos
    BY <1>4, <2>1
  <2>3. /\ IsDent(fh[u].idx, Disk(u), fh[u].fno, fh[u].ver)
        /\ files[fh[u].fno] = Lost \/ Current(fh[u])
    BY <2>1, <2>2 DEF Base, OwnedBy
  <2>4. IsDent(fh[u].idx, Disk(u), fh[u].fno, fh[u].ver)'
    BY <2>2, <2>3 DEF IsDent
  <2>5. SUFFICES files'[fh[u].fno] = Lost \/ StillCurrent(fh[u])
    BY <2>2, <2>4, CurrentPrime
  <2>6. CASE Untouched(fh[u].fno)
    BY <2>3, <2>6 DEF Untouched, Current, StillCurrent
  <2>7. ~Nameless(fh[u].fno)
    <3>1. fh[u].idx \in Idxs /\ Disk(u) # None
      BY <1>1, <2>2, OpenedHas, DiskIs DEF Opened
    <3>. QED BY <2>3, <3>1 DEF IsDent, Nameless
  <2>8. ASSUME NEW t \in Threads, ~Opened(t)', Overwrites(t, fh[u].fno) PROVE FALSE
    <3>1. /\ t # u /\ Opened(t) /\ Exclusive(fl[t]) /\ fh[u].fno = fh[t].fno
          /\ User(u) /\ fh[u].idx \in Idxs
      BY <1>1, <2>1, <2>2, <2>8, OpenedHas DEF Overwrites, Opened
    <3>2. dents[fh[u].idx].name = Disk(u) /\ dents[fh[u].idx].fno = fh[u].fno
      BY <2>3 DEF IsDent
    <3>. QED BY <3>1, <3>2, OwnersFile
  <2>. QED BY <2>2, <2>6, <2>7, <2>8 DEF Altered
<1>6. ASSUME NEW u \in Threads PROVE UnderName(u)'
  <2>1. SUFFICES ASSUME Opened(u)', Current(fh[u])', NEW i \in Idxs,
                        dents[i].name # None, dents[i].fno = fh'[u].fno
                 PROVE  dents[i].name = Disk(u)'
    BY DEF UnderName
  <2>2. Opened(u) /\ Current(fh[u]) /\ Disk(u)' = Disk(u) /\ fh'[u] = fh[u]
    BY <1>4, <2>1
  <2>. QED BY <2>1, <2>2 DEF Base, UnderName
<1>7. Sharing'
  <2>1. SUFFICES ASSUME NEW t \in Threads, NEW u \in Threads, Meet(t, u)'
                 PROVE  ~Conflict(fl[t], fl[u])'
    BY DEF Sharing
  <2>2. /\ t # u /\ Opened(t)' /\ Opened(u)' /\ fh'[t].fno = fh'[u].fno
        /\ Current(fh[t])' /\ Current(fh[u])'
    BY <2>1 DEF Meet
  <2>3. Meet(t, u) /\ fl'[t] = fl[t] /\ fl'[u] = fl[u]
    BY <1>4, <2>2 DEF Meet
  <2>. QED BY <2>3 DEF Base, Sharing, Conflict, Clash
<1>. QED BY <1>3, <1>5, <1>6, <1>7 DEF Base

(***************************************************************************)
(* The steps that give a thread a file, or change the directory file.      *)
(***************************************************************************)
Rest(t) == \A u \in Threads \ {t} : Kept(u) /\ fh'[u] = fh[u]

OnlyDent(i) == \A j \in Idxs : j # i => dents'[j] = dents[j]

NewDent(i, n, f, v) == dents'[i].name = n /\ dents'[i].fno = f /\ dents'[i].hash = v

Holds(h, i, f, v) == h.idx = i /\ h.fno = f /\ h.ver = v

LEMMA RestIs ==
  ASSUME NEW t \in Threads, Rest(t), NEW u \in Threads, u # t
  PROVE  /\ Opened(u)' <=> Opened(u)
         /\ fh'[u] = fh[u]
         /\ User(u) => fl'[u] = fl[u] /\ Disk(u)' = Disk(u) /\ User(u)'
         /\ Current(fh[u])' <=> StillCurrent(fh[u])
BY KeptDisk, CurrentPrime DEF Rest, Kept

OpensFile(t, i) ==
  /\ Rest(t) /\ dents' = dents /\ files' = files
  /\ i \in Idxs /\ dents[i].name = NameOf(t)
  /\ Holds(fh'[t], i, dents[i].fno, dents[i].hash) /\ Current(fh[t])'
  /\ fl'[t] = fl[t] /\ (User(t)' <=> User(t)) /\ Disk(t)' = NameOf(t)
  /\ pc[t] \in {"open", "enum"}

LEMMA OpensBase ==
  ASSUME Inv, Table, Base, Inv', NEW t \in Threads, NEW i, OpensFile(t, i)
  PROVE  Base'
<1>1. /\ Stock /\ i \in Idxs /\ dents[i].name = NameOf(t) /\ dents' = dents /\ files' = files
      /\ NameOf(t) # None /\ Backed(i)
      /\ fh'[t].idx = i /\ fh'[t].fno = dents[i].fno /\ fh'[t].ver = dents[i].hash
  <2>1. NameOf(t) # None
    BY HasEntry, NoneApart DEF OpensFile, NoEntry
  <2>. QED BY <2>1 DEF OpensFile, Base, Holds, Stock
<1>2. Stock'
  <2>1. \A u \in Threads : fh'[u] # None => fh'[u].fno \in Fnos /\ fh'[u].ver \in Vers
    BY <1>1 DEF OpensFile, Rest, Stock, Backed
  <2>2. \A j \in Idxs : dents'[j].name # None => Backed(j)'
    BY <1>1 DEF Stock, Backed, Readable
  <2>. QED BY <1>1, <2>1, <2>2 DEF Stock, NamedOnce
<1>3. ASSUME NEW u \in Threads, u # t
      PROVE  /\ Opened(u)' => Opened(u) /\ fl'[u] = fl[u] /\ Disk(u)' = Disk(u)
             /\ fh'[u] = fh[u] /\ (Current(fh[u])' <=> Current(fh[u]))
  <2>1. Rest(t)
    BY DEF OpensFile
  <2>2. /\ Opened(u)' <=> Opened(u)
        /\ fh'[u] = fh[u]
        /\ User(u) => fl'[u] = fl[u] /\ Disk(u)' = Disk(u)
    BY <1>3, <2>1, RestIs
  <2>3. Current(fh[u])' <=> Current(fh[u])
    BY <1>1, <2>2 DEF Current
  <2>. QED BY <2>2, <2>3 DEF Opened
<1>4. ASSUME NEW u \in Threads PROVE OwnedBy(u)' /\ UnderName(u)'
  <2>1. CASE u # t
    BY <1>1, <1>3, <2>1 DEF Base, OwnedBy, UnderName, IsDent
  <2>2. CASE u = t
    <3>1. OwnedBy(t)'
      BY <1>1 DEF OwnedBy, IsDent, OpensFile
    <3>2. UnderName(t)'
      BY <1>1 DEF UnderName, OpensFile, Inv, Numbered, Distinct
    <3>. QED BY <2>2, <3>1, <3>2
  <2>. QED BY <2>1, <2>2
<1>5. ASSUME NEW u \in Threads, u # t, Opened(u)', Opened(t)', Current(fh[u])',
             fh'[u].fno = fh'[t].fno
      PROVE  ~Conflict(fl[t], fl[u])' /\ ~Conflict(fl[u], fl[t])'
  <2>1. Opened(u) /\ fl'[u] = fl[u] /\ fh'[u] = fh[u] /\ Current(fh[u])
    BY <1>3, <1>5
  <2>2. Disk(u) = NameOf(t)
    BY <1>1, <1>5, <2>1 DEF Base, UnderName
  <2>3. User(t) /\ Disk(t) = Disk(u) /\ fl'[t] = fl[t]
    BY <1>5, <2>2 DEF OpensFile, Opened, Disk
  <2>4. ~Conflict(fl[t], fl[u]) /\ ~Conflict(fl[u], fl[t])
    BY <1>5, <2>1, <2>3, Sharers DEF Opened
  <2>. QED BY <2>1, <2>3, <2>4 DEF Conflict, Clash
<1>6. Sharing'
  <2>1. SUFFICES ASSUME NEW u \in Threads, NEW v \in Threads, Meet(u, v)'
                 PROVE  ~Conflict(fl[u], fl[v])'
    BY DEF Sharing
  <2>2. /\ u # v /\ Opened(u)' /\ Opened(v)' /\ fh'[u].fno = fh'[v].fno
        /\ Current(fh[u])' /\ Current(fh[v])'
    BY <2>1 DEF Meet
  <2>3. CASE u = t \/ v = t
    BY <1>5, <2>2, <2>3
  <2>4. CASE u # t /\ v # t
    <3>1. Meet(u, v) /\ fl'[u] = fl[u] /\ fl'[v] = fl[v]
      BY <1>3, <2>2, <2>4 DEF Meet
    <3>. QED BY <3>1 DEF Base, Sharing, Conflict, Clash
  <2>. QED BY <2>3, <2>4
<1>. QED BY <1>2, <1>4, <1>6 DEF Base

-----------------------------------------------------------------------------
CreatesFile(t, i, f) ==
  /\ Rest(t) /\ FilesTyped' /\ Writable /\ pc[t] = "create"
  /\ i \in Idxs /\ f \in Fnos /\ Nameless(f) /\ dents[i].name \in {NameOf(t), None}
  /\ \A j \in Idxs : dents[j].name = NameOf(t) => j = i
  /\ OnlyDent(i) /\ NewDent(i, NameOf(t), f, NewVer)
  /\ files'[f] = File(NewVer)
  /\ \A g \in Fnos \ {f} :
       \/ Untouched(g)
       \/ files'[g] = None /\ dents[i].name = NameOf(t) /\ g = dents[i].fno
  /\ ~use.faults /\ dents[i].name = NameOf(t) => files'[dents[i].fno] = None
  /\ Holds(fh'[t], i, f, NewVer) /\ fh'[t].slot = 0
  /\ User(t)' /\ fl'[t] = fl[t] /\ Disk(t)' = NameOf(t) /\ NameOf(t)' = NameOf(t)

LEMMA CreatesBase ==
  ASSUME Inv, Table, Base, Inv', NEW t \in Threads, NEW i, NEW f, CreatesFile(t, i, f)
  PROVE  Base'
<1> DEFINE n == NameOf(t)
<1>0. /\ User(t) /\ Disk(t) = n /\ n \in Names /\ n # None
      /\ FilesTyped' /\ Rest(t) /\ ~Opened(t)
  <2>1. User(t) /\ pc[t] = "create"
    BY DEF CreatesFile, Table, Calls, CallOf, User
  <2>2. n \in Names
    BY <2>1, UserHas
  <2>. QED BY <2>1, <2>2, NoneApart DEF CreatesFile, Disk, Opened, HasFile, Renaming
<1>1. /\ Stock /\ i \in Idxs /\ f \in Fnos /\ Nameless(f) /\ OnlyDent(i)
      /\ \A j \in Idxs : dents[j].name = n => j = i
      /\ dents[i].name \in {n, None}
      /\ files'[f] = File(NewVer)
      /\ Writable /\ NewVer \in Vers
  BY NewVerFresh DEF CreatesFile, Base
<1>2. NewDent(i, n, f, NewVer)
  BY DEF CreatesFile
<1>3. \A g \in Fnos \ {f} :
       \/ Untouched(g)
       \/ files'[g] = None /\ dents[i].name = n /\ g = dents[i].fno
  BY DEF CreatesFile
<1>4. fh'[t].idx = i /\ fh'[t].fno = f /\ fh'[t].ver = NewVer /\ fh'[t].slot = 0
  BY DEF CreatesFile, Holds
<1>5. Current(fh[t])'
  BY <1>1, <1>4, LostApart DEF Current
<1>6. ASSUME NEW j \in Idxs, j # i, dents[j].name # None
      PROVE  dents[j].fno # f /\ Untouched(dents[j].fno) /\ Backed(j)
  <2>1. dents[j].fno # f /\ Backed(j)
    BY <1>1, <1>6 DEF Nameless, Stock
  <2>2. dents[i].name = n => dents[i].fno # dents[j].fno
    BY <1>0, <1>1, <1>6 DEF Inv, Numbered, Distinct
  <2>. QED BY <1>3, <2>1, <2>2 DEF Backed
<1>7. ASSUME NEW j \in Idxs, dents'[j].name # None PROVE Backed(j)'
  <2>1. CASE j = i
    <3>1. files'[f] \notin {None, Lost} /\ files'[f][0] = NewVer /\ 0 \in 0 .. 1
      BY <1>1, LostApart
    <3>2. \E k \in 0 .. 1 : files'[f][k] = NewVer
      BY <3>1
    <3>. QED BY <1>1, <1>2, <2>1, <3>1, <3>2 DEF Backed, NewDent, Readable
  <2>2. CASE j # i
    <3>1. dents'[j] = dents[j] /\ dents[j].name # None
      BY <1>1, <1>7, <2>2 DEF OnlyDent
    <3>. QED BY <1>6, <2>2, <3>1 DEF Backed, Readable, Untouched
  <2>. QED BY <2>1, <2>2
<1>8. NamedOnce'
  <2>1. ASSUME NEW j \in Idxs, NEW k \in Idxs, dents'[j].name # None,
               dents'[k].name = dents'[j].name, j # k
        PROVE  FALSE
    <3>1. CASE j = i
      BY <1>1, <1>2, <2>1, <3>1 DEF OnlyDent, NewDent
    <3>2. CASE k = i
      BY <1>1, <1>2, <2>1, <3>2 DEF OnlyDent, NewDent
    <3>3. CASE j # i /\ k # i
      BY <1>1, <2>1, <3>3 DEF OnlyDent, Stock, NamedOnce
    <3>. QED BY <3>1, <3>2, <3>3
  <2>. QED BY <2>1 DEF NamedOnce
<1>9. Stock'
  <2>1. \A u \in Threads : fh'[u] # None => fh'[u].fno \in Fnos /\ fh'[u].ver \in Vers
    BY <1>0, <1>1, <1>4 DEF Rest, Stock
  <2>. QED BY <1>0, <1>7, <1>8, <2>1 DEF Stock, FilesTyped
<1>10. ASSUME NEW u \in Threads, u # t, Opened(u)'
       PROVE  /\ Opened(u) /\ fh'[u] = fh[u] /\ fl'[u] = fl[u] /\ Disk(u)' = Disk(u)
              /\ User(u) /\ fh[u].idx \in Idxs /\ fh[u].fno \in Fnos
  BY <1>0, <1>1, <1>10, RestIs, OpenedHas DEF Opened
<1>11. ASSUME NEW u \in Threads, u # t, Opened(u)', Current(fh[u])'
       PROVE  Current(fh[u]) /\ fh[u].fno # f
  <2>1. /\ Opened(u) /\ fh'[u] = fh[u] /\ fh[u].fno \in Fnos
        /\ pc[u] \in HasFile /\ StillCurrent(fh[u])
    BY <1>0, <1>10, <1>11, RestIs DEF Opened
  <2>2. Altered(fh[u].fno) \/ files'[fh[u].fno] = None
    BY <1>1, <1>3, <2>1 DEF Altered
  <2>3. Current(fh[u])
    BY <1>0, <2>1, <2>2, OldCurrent
  <2>4. fh[u].fno # f
    <3>1. SUFFICES ASSUME fh[u].fno = f PROVE FALSE
      OBVIOUS
    <3>2. fh[u].ver \in Vers /\ fh[u].slot \in 0 .. 1 /\ fh[u].ver # NewVer
      BY <1>1, <2>1, OpenedHas, NewVerFresh
    <3>3. File(NewVer)[fh[u].slot] = fh[u].ver
      BY <1>1, <2>1, <3>1 DEF StillCurrent
    <3>4. fh[u].slot = 0 \/ fh[u].slot = 1
      BY <3>2
    <3>. QED BY <1>1, <3>2, <3>3, <3>4, LostApart, NoneApart
  <2>. QED BY <2>3, <2>4
<1>12. ASSUME NEW u \in Threads PROVE OwnedBy(u)'
  <2>1. CASE u = t
    BY <1>2, <1>4, <1>5, <2>1 DEF OwnedBy, IsDent, NewDent, CreatesFile
  <2>2. CASE u # t
    <3>1. SUFFICES ASSUME Opened(u)', Exclusive(fl'[u])
                   PROVE  /\ NewDent(fh[u].idx, Disk(u), fh[u].fno, fh[u].ver)
                          /\ files'[fh[u].fno] = Lost \/ StillCurrent(fh[u])
      BY <1>10, <2>2, CurrentPrime DEF OwnedBy, IsDent, NewDent
    <3>2. /\ Opened(u) /\ User(u) /\ fl'[u] = fl[u] /\ Disk(u) # None
          /\ fh[u].idx \in Idxs
      BY <1>10, <2>2, <3>1, DiskIs
    <3>3. /\ IsDent(fh[u].idx, Disk(u), fh[u].fno, fh[u].ver)
          /\ files[fh[u].fno] = Lost \/ Current(fh[u])
      BY <3>1, <3>2 DEF Base, OwnedBy
    <3>4. Disk(u) # n
      BY <1>0, <2>2, <3>1, <3>2, Sharers
    <3>5. fh[u].idx # i
      BY <1>1, <3>2, <3>3, <3>4 DEF IsDent
    <3>6. Untouched(fh[u].fno)
      BY <1>6, <3>2, <3>3, <3>5 DEF IsDent
    <3>. QED BY <1>1, <3>2, <3>3, <3>5, <3>6
         DEF IsDent, NewDent, OnlyDent, Untouched, Current, StillCurrent
  <2>. QED BY <2>1, <2>2
<1>13. ASSUME NEW u \in Threads PROVE UnderName(u)'
  <2>1. SUFFICES ASSUME Opened(u)', Current(fh[u])', NEW j \in Idxs,
                        dents'[j].name # None, dents'[j].fno = fh'[u].fno
                 PROVE  dents'[j].name = Disk(u)'
    BY DEF UnderName
  <2>2. CASE u = t
    <3>1. j = i
      BY <1>1, <1>4, <2>1, <2>2 DEF OnlyDent, Nameless
    <3>. QED BY <1>2, <2>2, <3>1 DEF NewDent, CreatesFile
  <2>3. CASE u # t
    <3>1. /\ Opened(u) /\ Current(fh[u]) /\ fh'[u] = fh[u] /\ Disk(u)' = Disk(u)
          /\ fh[u].fno # f
      BY <1>10, <1>11, <2>1, <2>3
    <3>2. j # i
      BY <1>2, <2>1, <3>1 DEF NewDent
    <3>. QED BY <1>1, <2>1, <3>1, <3>2 DEF OnlyDent, Base, UnderName
  <2>. QED BY <2>2, <2>3
<1>14. Sharing'
  <2>1. SUFFICES ASSUME NEW u \in Threads, NEW v \in Threads, Meet(u, v)'
                 PROVE  ~Conflict(fl[u], fl[v])'
    BY DEF Sharing
  <2>2. /\ u # v /\ Opened(u)' /\ Opened(v)' /\ fh'[u].fno = fh'[v].fno
        /\ Current(fh[u])' /\ Current(fh[v])'
    BY <2>1 DEF Meet
  <2>3. u # t /\ v # t
    BY <1>4, <1>10, <1>11, <2>2
  <2>4. Meet(u, v) /\ fl'[u] = fl[u] /\ fl'[v] = fl[v]
    BY <1>10, <1>11, <2>2, <2>3 DEF Meet
  <2>. QED BY <2>4 DEF Base, Sharing, Conflict, Clash
<1>. QED BY <1>9, <1>12, <1>13, <1>14 DEF Base

WritesFile(t) ==
  LET h == fh[t]
  IN  /\ Rest(t) /\ FilesTyped' /\ Writable
      /\ Opened(t) /\ Exclusive(fl[t]) /\ OnlyDent(h.idx)
      /\ NewDent(h.idx, Disk(t), h.fno, NewVer)
      /\ \A g \in Fnos \ {h.fno} : Untouched(g)
      /\ (files[h.fno] = Lost /\ Untouched(h.fno)) \/ Overwrites(t, h.fno)
      /\ \/ /\ Holds(fh'[t], h.idx, h.fno, NewVer) /\ fh'[t].slot = 1 - h.slot
            /\ fl'[t] = fl[t] /\ Disk(t)' = Disk(t)
         \/ use.faults /\ fh'[t] = h /\ ~Opened(t)'

LEMMA WritesBase ==
  ASSUME Inv, Table, Base, Inv', NEW t \in Threads, WritesFile(t)
  PROVE  Base'
<1> DEFINE h == fh[t]
           n == Disk(t)
<1>1. /\ Stock /\ FilesTyped' /\ Rest(t) /\ Writable /\ NewVer \in Vers
      /\ Opened(t) /\ User(t) /\ Exclusive(fl[t]) /\ OnlyDent(h.idx)
      /\ NewDent(h.idx, n, h.fno, NewVer)
      /\ \A g \in Fnos \ {h.fno} : Untouched(g)
      /\ (files[h.fno] = Lost /\ Untouched(h.fno)) \/ Overwrites(t, h.fno)
      /\ n # None /\ (Opened(t)' => Disk(t)' = n /\ fl'[t] = fl[t])
  BY NewVerFresh, DiskIs DEF WritesFile, Base, Opened
<1>2. /\ fh'[t].fno = h.fno /\ fh'[t].ver \in {h.ver, NewVer}
      /\ Opened(t)' => /\ fh'[t].idx = h.idx /\ fh'[t].ver = NewVer
                       /\ fh'[t].slot = 1 - h.slot
  BY DEF WritesFile, Holds
<1>3. h # None /\ h.idx \in Idxs /\ h.fno \in Fnos /\ h.slot \in 0 .. 1 /\ h.ver \in Vers
  BY <1>1, OpenedHas DEF Opened
<1>4. IsDent(h.idx, n, h.fno, h.ver) /\ (files[h.fno] = Lost \/ Current(h))
  BY <1>1 DEF Base, OwnedBy
<1>5. \/ files[h.fno] = Lost /\ files'[h.fno] = Lost
      \/ /\ files[h.fno] # Lost /\ Current(h)
         /\ files'[h.fno] \in Pairs /\ files'[h.fno][1 - h.slot] = NewVer
  <2>1. CASE files[h.fno] = Lost /\ Untouched(h.fno)
    BY <2>1 DEF Untouched
  <2>2. CASE Overwrites(t, h.fno)
    <3>1. files[h.fno] \in Pairs /\ files'[h.fno] = [files[h.fno] EXCEPT ![1 - h.slot] = NewVer]
      BY <2>2 DEF Overwrites
    <3>2. 1 - h.slot \in 0 .. 1
      BY <1>3
    <3>3. files'[h.fno] \in Pairs /\ files'[h.fno][1 - h.slot] = NewVer
      BY <1>1, <3>1, <3>2, LostApart
    <3>4. files[h.fno] # Lost
      BY <3>1, LostApart
    <3>. QED BY <1>4, <3>3, <3>4
  <2>. QED BY <1>1, <2>1, <2>2
<1>6. Opened(t)' => files'[h.fno] = Lost \/ Current(fh[t])'
  BY <1>2, <1>5, LostApart DEF Current
<1>7. ASSUME NEW j \in Idxs, j # h.idx, dents[j].name # None
      PROVE  dents[j].fno # h.fno /\ Untouched(dents[j].fno) /\ Backed(j)
  BY <1>1, <1>7, OwnersApart DEF Stock, Backed
<1>8. ASSUME NEW j \in Idxs PROVE dents'[j].name = dents[j].name /\ dents'[j].fno = dents[j].fno
  BY <1>1, <1>4 DEF OnlyDent, NewDent, IsDent
<1>9. ASSUME NEW j \in Idxs, dents'[j].name # None PROVE Backed(j)'
  <2>1. CASE j = h.idx
    <3>1. \/ files'[h.fno] = Lost
          \/ files'[h.fno] \notin {None, Lost} /\ \E k \in 0 .. 1 : files'[h.fno][k] = NewVer
      <4>1. 1 - h.slot \in 0 .. 1
        BY <1>3
      <4>. QED BY <1>5, <4>1, LostApart
    <3>. QED BY <1>1, <1>3, <2>1, <3>1 DEF Backed, NewDent, Readable
  <2>2. CASE j # h.idx
    <3>1. dents'[j] = dents[j] /\ dents[j].name # None
      BY <1>1, <1>9, <2>2 DEF OnlyDent
    <3>. QED BY <1>7, <2>2, <3>1 DEF Backed, Readable, Untouched
  <2>. QED BY <2>1, <2>2
<1>10. Stock'
  <2>1. \A u \in Threads : fh'[u] # None => fh'[u].fno \in Fnos /\ fh'[u].ver \in Vers
    BY <1>1, <1>2, <1>3 DEF Rest, Stock
  <2>2. NamedOnce'
    BY <1>1, <1>8 DEF Stock, NamedOnce
  <2>. QED BY <1>1, <1>9, <2>1, <2>2 DEF Stock, FilesTyped
<1>11. ASSUME NEW u \in Threads, u # t, Opened(u)'
       PROVE  /\ Opened(u) /\ fh'[u] = fh[u] /\ fl'[u] = fl[u] /\ Disk(u)' = Disk(u)
              /\ User(u) /\ fh[u].idx \in Idxs /\ fh[u].fno \in Fnos
  BY <1>1, <1>11, RestIs, OpenedHas DEF Opened
<1>12. ASSUME NEW u \in Threads, u # t, Opened(u)', Current(fh[u])'
       PROVE  Current(fh[u])
  <2>1. /\ Opened(u) /\ pc[u] \in HasFile /\ StillCurrent(fh[u]) /\ fh[u].fno \in Fnos
    BY <1>1, <1>11, <1>12, RestIs DEF Opened
  <2>2. CASE Untouched(fh[u].fno)
    BY <2>1, <2>2, SameCurrent DEF StillCurrent
  <2>3. CASE Overwrites(t, fh[u].fno)
    <3>1. fh[u].ver # NewVer /\ fh[u].slot \in 0 .. 1
      BY <1>1, <2>1, OpenedHas, NewVerFresh
    <3>. QED BY <1>1, <2>1, <2>3, <3>1, OverwrittenCurrent
  <2>. QED BY <1>1, <2>1, <2>2, <2>3
<1>13. ASSUME NEW u \in Threads PROVE OwnedBy(u)'
  <2>1. CASE u = t
    BY <1>1, <1>2, <1>6, <2>1 DEF OwnedBy, IsDent, NewDent
  <2>2. CASE u # t
    <3>1. SUFFICES ASSUME Opened(u)', Exclusive(fl'[u])
                   PROVE  /\ NewDent(fh[u].idx, Disk(u), fh[u].fno, fh[u].ver)
                          /\ files'[fh[u].fno] = Lost \/ StillCurrent(fh[u])
      BY <1>11, <2>2, CurrentPrime DEF OwnedBy, IsDent, NewDent
    <3>2. /\ Opened(u) /\ User(u) /\ fl'[u] = fl[u] /\ fh[u].idx \in Idxs /\ fh[u].fno \in Fnos
      BY <1>11, <2>2, <3>1
    <3>3. /\ IsDent(fh[u].idx, Disk(u), fh[u].fno, fh[u].ver)
          /\ files[fh[u].fno] = Lost \/ Current(fh[u])
      BY <3>1, <3>2 DEF Base, OwnedBy
    <3>4. fh[u].idx # h.idx /\ fh[u].fno # h.fno
      BY <1>1, <2>2, <3>2, <3>3, OwnersFile DEF IsDent
    <3>. QED BY <1>1, <3>2, <3>3, <3>4
         DEF IsDent, NewDent, OnlyDent, Untouched, Current, StillCurrent
  <2>. QED BY <2>1, <2>2
<1>14. ASSUME NEW u \in Threads PROVE UnderName(u)'
  <2>1. SUFFICES ASSUME Opened(u)', Current(fh[u])', NEW j \in Idxs,
                        dents'[j].name # None, dents'[j].fno = fh'[u].fno
                 PROVE  dents'[j].name = Disk(u)'
    BY DEF UnderName
  <2>2. CASE u = t
    <3>1. j = h.idx
      BY <1>1, <1>2, <1>8, <2>1, <2>2, OwnersApart
    <3>. QED BY <1>1, <2>1, <2>2, <3>1 DEF NewDent
  <2>3. CASE u # t
    BY <1>8, <1>11, <1>12, <2>1, <2>3 DEF Base, UnderName
  <2>. QED BY <2>2, <2>3
<1>15. Sharing'
  <2>1. SUFFICES ASSUME NEW u \in Threads, NEW v \in Threads, Meet(u, v)'
                 PROVE  ~Conflict(fl[u], fl[v])'
    BY DEF Sharing
  <2>2. /\ u # v /\ Opened(u)' /\ Opened(v)' /\ fh'[u].fno = fh'[v].fno
        /\ Current(fh[u])' /\ Current(fh[v])'
    BY <2>1 DEF Meet
  <2>3. Opened(t)' /\ Current(fh[t])' => Current(fh[t])
    BY <1>2, <1>5 DEF Current
  <2>4. /\ \A w \in {u, v} : Opened(w) /\ Current(fh[w]) /\ fh[w].fno = fh'[w].fno
        /\ fl'[u] = fl[u] /\ fl'[v] = fl[v]
    <3>1. ASSUME NEW w \in {u, v}
          PROVE  Opened(w) /\ Current(fh[w]) /\ fh[w].fno = fh'[w].fno /\ fl'[w] = fl[w]
      <4>1. CASE w = t
        BY <1>1, <1>2, <2>2, <2>3, <4>1
      <4>2. CASE w # t
        BY <1>11, <1>12, <2>2, <4>2
      <4>. QED BY <4>1, <4>2
    <3>. QED BY <3>1
  <2>5. Meet(u, v)
    BY <2>2, <2>4 DEF Meet
  <2>. QED BY <2>4, <2>5 DEF Base, Sharing, Conflict, Clash
<1>. QED BY <1>10, <1>13, <1>14, <1>15 DEF Base

-----------------------------------------------------------------------------
MovesFile(t, m) ==
  /\ Rest(t) /\ files' = files
  /\ pc[t] = "rename" /\ Opened(t) /\ Exclusive(fl[t]) /\ OnlyDent(fh[t].idx)
  /\ m \in Names /\ m = arg[t].name /\ \A j \in Idxs : dents[j].name # m
  /\ NewDent(fh[t].idx, m, fh[t].fno, fh[t].ver)
  /\ fh'[t] = fh[t] /\ fl'[t] = fl[t] /\ Disk(t)' = m

LEMMA MovesBase ==
  ASSUME Inv, Table, Base, Inv', NEW t \in Threads, NEW m, MovesFile(t, m)
  PROVE  Base'
<1> DEFINE h == fh[t]
<1>1. /\ Stock /\ Rest(t) /\ files' = files
      /\ Opened(t) /\ User(t) /\ Exclusive(fl[t]) /\ OnlyDent(h.idx)
      /\ NewDent(h.idx, m, h.fno, h.ver) /\ fh'[t] = h /\ fl'[t] = fl[t] /\ Disk(t)' = m
      /\ m # None /\ \A j \in Idxs : dents[j].name # m
      /\ h.idx \in Idxs /\ Disk(t) # None
  BY DiskIs, OpenedHas, NoneApart DEF MovesFile, Base, Opened
<1>2. /\ IsDent(h.idx, Disk(t), h.fno, h.ver) /\ (files[h.fno] = Lost \/ Current(h))
  BY <1>1 DEF Base, OwnedBy
<1>3. /\ \A u \in Threads : Current(fh[u])' <=> Current(fh[u])
      /\ \A u \in Threads : fh'[u] = fh[u]
  <2>1. \A u \in Threads : fh'[u] = fh[u]
    BY <1>1 DEF Rest
  <2>. QED BY <1>1, <2>1 DEF Current
<1>4. \A j \in Idxs : dents'[j].fno = dents[j].fno /\ dents'[j].hash = dents[j].hash
        /\ (dents'[j].name = None <=> dents[j].name = None)
  BY <1>1, <1>2 DEF OnlyDent, NewDent, IsDent
<1>5. Stock'
  <2>1. NamedOnce'
    BY <1>1 DEF Stock, NamedOnce, OnlyDent, NewDent
  <2>2. \A j \in Idxs : dents'[j].name # None => Backed(j)'
    BY <1>1, <1>4 DEF Stock, Backed, Readable
  <2>. QED BY <1>1, <1>3, <2>1, <2>2 DEF Stock
<1>6. ASSUME NEW u \in Threads, u # t, Opened(u)'
      PROVE  /\ Opened(u) /\ fl'[u] = fl[u] /\ Disk(u)' = Disk(u) /\ User(u)
             /\ fh[u].idx \in Idxs
  BY <1>1, <1>6, RestIs, OpenedHas DEF Opened
<1>7. ASSUME NEW u \in Threads PROVE OwnedBy(u)'
  <2>1. CASE u = t
    BY <1>1, <1>2, <1>3, <2>1 DEF OwnedBy, IsDent, NewDent
  <2>2. CASE u # t
    <3>1. SUFFICES ASSUME Opened(u)', Exclusive(fl'[u])
                   PROVE  /\ NewDent(fh[u].idx, Disk(u), fh[u].fno, fh[u].ver)
                          /\ files[fh[u].fno] = Lost \/ Current(fh[u])
      BY <1>1, <1>3, <1>6, <2>2 DEF OwnedBy, IsDent, NewDent
    <3>2. /\ Opened(u) /\ User(u) /\ fl'[u] = fl[u] /\ fh[u].idx \in Idxs
      BY <1>6, <2>2, <3>1
    <3>3. /\ IsDent(fh[u].idx, Disk(u), fh[u].fno, fh[u].ver)
          /\ files[fh[u].fno] = Lost \/ Current(fh[u])
      BY <3>1, <3>2 DEF Base, OwnedBy
    <3>4. fh[u].idx # h.idx
      BY <1>1, <2>2, <3>2, <3>3, OwnersFile DEF IsDent
    <3>. QED BY <1>1, <3>2, <3>3, <3>4 DEF IsDent, NewDent, OnlyDent
  <2>. QED BY <2>1, <2>2
<1>8. ASSUME NEW u \in Threads PROVE UnderName(u)'
  <2>1. SUFFICES ASSUME Opened(u)', Current(fh[u]), NEW j \in Idxs,
                        dents'[j].name # None, dents'[j].fno = fh[u].fno
                 PROVE  dents'[j].name = Disk(u)'
    BY <1>3 DEF UnderName
  <2>2. CASE u = t
    <3>1. j = h.idx
      BY <1>1, <1>4, <2>1, <2>2, OwnersApart
    <3>. QED BY <1>1, <2>2, <3>1 DEF NewDent
  <2>3. CASE u # t
    <3>1. Opened(u) /\ User(u) /\ Disk(u)' = Disk(u)
      BY <1>6, <2>1, <2>3
    <3>2. dents[j].name = Disk(u)
      BY <1>4, <2>1, <3>1 DEF Base, UnderName
    <3>3. j # h.idx
      BY <1>1, <2>3, <3>1, <3>2, OwnersFile
    <3>. QED BY <1>1, <3>1, <3>2, <3>3 DEF OnlyDent
  <2>. QED BY <2>2, <2>3
<1>9. Sharing'
  <2>1. SUFFICES ASSUME NEW u \in Threads, NEW v \in Threads, Meet(u, v)'
                 PROVE  ~Conflict(fl[u], fl[v])'
    BY DEF Sharing
  <2>2. /\ u # v /\ Opened(u)' /\ Opened(v)' /\ fh'[u].fno = fh'[v].fno
        /\ Current(fh[u])' /\ Current(fh[v])'
    BY <2>1 DEF Meet
  <2>3. \A w \in Threads : Opened(w)' => Opened(w) /\ fl'[w] = fl[w]
    BY <1>1, <1>6
  <2>4. Meet(u, v) /\ fl'[u] = fl[u] /\ fl'[v] = fl[v]
    BY <1>3, <2>2, <2>3 DEF Meet
  <2>. QED BY <2>4 DEF Base, Sharing, Conflict, Clash
<1>. QED BY <1>5, <1>7, <1>8, <1>9 DEF Base

-----------------------------------------------------------------------------
RemovesFile(t, i) ==
  /\ Rest(t) /\ FilesTyped' /\ User(t) /\ pc[t] = "remove"
  /\ i \in Idxs /\ dents[i].name = NameOf(t)
  /\ OnlyDent(i) /\ dents'[i].name = None
  /\ \A g \in Fnos : Untouched(g) \/ (files'[g] = None /\ g = dents[i].fno)
  /\ ~use.faults => files'[dents[i].fno] = None
  /\ fh'[t] = fh[t] /\ ~Opened(t)'

LEMMA RemovesBase ==
  ASSUME Inv, Table, Base, Inv', NEW t \in Threads, NEW i, RemovesFile(t, i)
  PROVE  Base'
<1>1. /\ Stock /\ Rest(t) /\ FilesTyped' /\ User(t) /\ Disk(t) = NameOf(t) /\ ~Opened(t)'
      /\ i \in Idxs /\ dents[i].name = NameOf(t) /\ NameOf(t) # None
      /\ OnlyDent(i) /\ dents'[i].name = None
      /\ \A g \in Fnos : Untouched(g) \/ (files'[g] = None /\ g = dents[i].fno)
  BY DiskIs DEF RemovesFile, Base, Disk
<1>2. \A u \in Threads : fh'[u] = fh[u]
  BY DEF RemovesFile, Rest
<1>3. ASSUME NEW j \in Idxs, j # i, dents[j].name # None
      PROVE  dents[j].fno # dents[i].fno /\ Untouched(dents[j].fno) /\ Backed(j)
  BY <1>1, <1>3 DEF Stock, Backed, Inv, Numbered, Distinct
<1>4. Stock'
  <2>1. NamedOnce'
    BY <1>1 DEF Stock, NamedOnce, OnlyDent
  <2>2. ASSUME NEW j \in Idxs, dents'[j].name # None PROVE Backed(j)'
    <3>1. j # i /\ dents'[j] = dents[j]
      BY <1>1, <2>2 DEF OnlyDent
    <3>. QED BY <1>3, <2>2, <3>1 DEF Backed, Readable, Untouched
  <2>. QED BY <1>1, <1>2, <2>1, <2>2 DEF Stock, FilesTyped
<1>5. ASSUME NEW u \in Threads, Opened(u)'
      PROVE  /\ u # t /\ Opened(u) /\ fl'[u] = fl[u] /\ Disk(u)' = Disk(u) /\ User(u)
             /\ fh[u].idx \in Idxs /\ fh[u].fno \in Fnos
  BY <1>1, <1>5, RestIs, OpenedHas DEF Opened
<1>6. ASSUME NEW u \in Threads, Opened(u)', Current(fh[u])'
      PROVE  Current(fh[u])
  <2>1. Opened(u) /\ pc[u] \in HasFile /\ StillCurrent(fh[u]) /\ fh[u].fno \in Fnos
    BY <1>2, <1>5, <1>6, CurrentPrime DEF Opened
  <2>2. Altered(fh[u].fno) \/ files'[fh[u].fno] = None
    BY <1>1, <2>1 DEF Altered
  <2>. QED BY <1>1, <2>1, <2>2, OldCurrent
<1>7. ASSUME NEW u \in Threads PROVE OwnedBy(u)'
  <2>1. SUFFICES ASSUME Opened(u)', Exclusive(fl'[u])
                 PROVE  /\ NewDent(fh[u].idx, Disk(u), fh[u].fno, fh[u].ver)
                        /\ files'[fh[u].fno] = Lost \/ StillCurrent(fh[u])
    BY <1>2, <1>5, CurrentPrime DEF OwnedBy, IsDent, NewDent
  <2>2. /\ u # t /\ Opened(u) /\ User(u) /\ fl'[u] = fl[u] /\ fh[u].idx \in Idxs
    BY <1>5, <2>1
  <2>3. /\ IsDent(fh[u].idx, Disk(u), fh[u].fno, fh[u].ver)
        /\ files[fh[u].fno] = Lost \/ Current(fh[u])
    BY <2>1, <2>2 DEF Base, OwnedBy
  <2>4. fh[u].idx # i /\ dents[i].fno # fh[u].fno
    BY <1>1, <2>1, <2>2, OwnersFile
  <2>5. Untouched(fh[u].fno)
    BY <1>1, <1>5, <2>1, <2>4
  <2>. QED BY <1>1, <2>2, <2>3, <2>4, <2>5
       DEF IsDent, NewDent, OnlyDent, Untouched, Current, StillCurrent
<1>8. ASSUME NEW u \in Threads PROVE UnderName(u)'
  <2>1. SUFFICES ASSUME Opened(u)', Current(fh[u])', NEW j \in Idxs,
                        dents'[j].name # None, dents'[j].fno = fh[u].fno
                 PROVE  dents'[j].name = Disk(u)'
    BY <1>2 DEF UnderName
  <2>2. j # i /\ dents'[j] = dents[j]
    BY <1>1, <2>1 DEF OnlyDent
  <2>. QED BY <1>5, <1>6, <2>1, <2>2 DEF Base, UnderName
<1>9. Sharing'
  <2>1. SUFFICES ASSUME NEW u \in Threads, NEW v \in Threads, Meet(u, v)'
                 PROVE  ~Conflict(fl[u], fl[v])'
    BY DEF Sharing
  <2>2. /\ u # v /\ Opened(u)' /\ Opened(v)' /\ fh'[u].fno = fh'[v].fno
        /\ Current(fh[u])' /\ Current(fh[v])'
    BY <2>1 DEF Meet
  <2>3. Meet(u, v) /\ fl'[u] = fl[u] /\ fl'[v] = fl[v]
    BY <1>2, <1>5, <1>6, <2>2 DEF Meet
  <2>. QED BY <2>3 DEF Base, Sharing, Conflict, Clash
<1>. QED BY <1>4, <1>7, <1>8, <1>9 DEF Base

-----------------------------------------------------------------------------
(***************************************************************************)
(* What a step of a thread does to the files and the directory file.       *)
(***************************************************************************)
Quiet(t) ==
  /\ dents' = dents /\ files' = files /\ fh'[t] \in {fh[t], None}
  /\ Opened(t)' => Stays(t)

Spoils(t) ==
  /\ dents' = dents /\ FilesTyped' /\ fh'[t] = fh[t] /\ ~Opened(t)'
  /\ \A g \in Fnos : Altered(g) /\ (files'[g] = Lost => files[g] = Lost)

Effect(t) ==
  \/ Quiet(t) \/ Spoils(t) \/ WritesFile(t)
  \/ \E i \in Idxs : OpensFile(t, i) \/ RemovesFile(t, i)
  \/ \E i \in Idxs, f \in Fnos : CreatesFile(t, i, f)
  \/ \E m \in Names : MovesFile(t, m)

LEMMA EffectBase ==
  ASSUME Inv, Table, Base, Inv', NEW t \in Threads, Rest(t), Effect(t)
  PROVE  Base'
<1>1. ASSUME Quiet(t) \/ Spoils(t) PROVE Base'
  <2>1. /\ dents' = dents /\ fh'[t] \in {fh[t], None} /\ (Opened(t)' => Stays(t))
    BY <1>1 DEF Quiet, Spoils
  <2>2. FilesTyped' /\ \A g \in Fnos : Altered(g)
    BY <1>1 DEF Quiet, Spoils, FilesTyped, Base, Stock, Altered, Untouched
  <2>3. \A u \in Threads : fh'[u] \in {fh[u], None}
    BY <2>1 DEF Rest
  <2>4. \A u \in Threads : Opened(u)' => Stays(u)
    <3>1. ASSUME NEW u \in Threads, u # t, Opened(u)' PROVE Stays(u)
      BY <3>1, RestIs DEF Stays, Opened
    <3>. QED BY <2>1, <3>1
  <2>. QED BY <2>1, <2>2, <2>3, <2>4, BaseSameDents
<1>. QED BY <1>1, WritesBase, OpensBase, RemovesBase, CreatesBase, MovesBase DEF Effect

LEMMA StepRest ==
  ASSUME Inv, Table, Careful(use), NEW t \in Threads, Step(t)
  PROVE  Rest(t)
<1>1. \A u \in Threads \ {t} : Kept(u) /\ Same(u)
  BY OthersKept, StepSame
<1>. QED BY <1>1 DEF Rest, Same

(***************************************************************************)
(* Steps that leave both as they are.                                      *)
(***************************************************************************)
LEMMA LeavesFile ==
  ASSUME Inv, NEW t \in Threads,
         \/ ObjOpen(t) \/ ObjCreate(t) \/ ObjDel(t) \/ ObjClose(t) \/ CloseFile(t)
         \/ Release(t) \/ StartEnum(t) \/ NextEnum(t) \/ EnumGet(t) \/ EndEnum(t)
  PROVE  Quiet(t) /\ pc'[t] \notin HasFile
<1>1. /\ pc \in [Threads -> Places] /\ fh \in [Threads -> {None} \cup Handle]
  BY DEF Inv, Shape
<1>2. pc'[t] \in {"open", "create", "remove", "close", "release", "idle", "enumGet", "enum"}
  BY <1>1 DEF ObjOpen, ObjCreate, ObjDel, ObjClose, CloseFile, Release, StartEnum, NextEnum,
     EnumGet, EndEnum, Begin, Goto
<1>3. dents' = dents /\ files' = files /\ fh'[t] \in {fh[t], None}
  BY <1>1 DEF ObjOpen, ObjCreate, ObjDel, ObjClose, CloseFile, Release, StartEnum, NextEnum,
     EnumGet, EndEnum, Begin, fsvars, thvars
<1>4. pc'[t] \notin HasFile
  BY <1>2 DEF HasFile, Renaming
<1>. QED BY <1>3, <1>4 DEF Quiet, Opened

LEMMA KeepsFile ==
  ASSUME Inv, Table, Careful(use), Inv', NEW t \in Threads,
         \/ ReadHead(t) \/ CreateFinal(t) \/ ObjRead(t) \/ ObjRename(t)
         \/ RenamePobj(t) \/ Renamed(t)
  PROVE  Quiet(t)
<1>1. /\ pc \in [Threads -> Places] /\ arg \in [Threads -> Arg]
      /\ pobjs \in [Pobjs -> Pobj]
  BY DEF Inv, Shape
<1>2. /\ dents' = dents /\ files' = files /\ fh' = fh /\ fl' = fl /\ po' = po
      /\ pc[t] \in HasFile
  BY DEF ReadHead, CreateFinal, ObjRead, ObjRename, RenamePobj, Renamed, fsvars, thvars,
     HasFile, Renaming
<1>3. po[t] \in Pobjs /\ pobjs[po[t]].name # None
  BY <1>2, HasEntry, NoneApart DEF NoEntry, HasFile, Renaming, NameOf
<1>4. User(t)' => User(t)
  <2>1. arg'[t].op = arg[t].op
    BY <1>1 DEF ReadHead, CreateFinal, ObjRead, ObjRename, RenamePobj, Renamed, thvars, Arg
  <2>. QED BY <2>1 DEF User
<1>5. ASSUME pc'[t] \in HasFile PROVE Disk(t)' = Disk(t)
  <2>1. CASE ReadHead(t) \/ ObjRead(t)
    <3>1. pobjs' = pobjs /\ arg' = arg /\ pc[t] # "renamePobj" /\ pc'[t] # "renamePobj"
      BY <1>1, <2>1 DEF ReadHead, ObjRead, Answer, Goto, thvars
    <3>. QED BY <1>2, <3>1 DEF Disk, NameOf
  <2>2. CASE CreateFinal(t)
    <3>1. /\ pc[t] = "final" /\ pc'[t] # "renamePobj" 
          /\ pobjs' = pobjs \/ pobjs' = [pobjs EXCEPT ![po[t]].creating = FALSE]
      BY <1>1, <2>2 DEF CreateFinal, Goto
    <3>2. pobjs'[po[t]].name = pobjs[po[t]].name
      BY <1>1, <1>3, <3>1 DEF Pobj
    <3>. QED BY <1>2, <3>1, <3>2 DEF Disk, NameOf
  <2>3. CASE ObjRename(t)
    <3>1. PICK m \in Names : pc[t] = "have" /\ Gets(m, {"meta"}, "rename", FALSE)
                              /\ pc'[t] = "rename"
      BY <1>1, <2>3 DEF ObjRename, Goto
    <3>2. {"meta"} \in Flags
      BY DEF Flags
    <3>3. SameEntry(po[t])
      BY <1>3, <3>1, <3>2, GetsIs DEF Joins, Adds
    <3>. QED BY <1>2, <3>1, <3>3 DEF Disk, NameOf, SameEntry
  <2>4. CASE RenamePobj(t)
    <3>1. pc[t] = "renamePobj" /\ pc'[t] = "renamed"
      BY <1>1, <2>4 DEF RenamePobj, Goto
    <3>2. NameOf(t)' = arg[t].name
      BY <2>4, RenamePobjTable
    <3>. QED BY <3>1, <3>2 DEF Disk
  <2>5. CASE Renamed(t)
    <3>1. pc[t] = "renamed" /\ pc'[t] = "have" /\ pobjs' = Released(to[t])
      BY <1>1, <2>5 DEF Renamed, Goto
    <3>2. to[t] \in Pobjs /\ po[t] # to[t]
      BY <3>1, Holders DEF Table, Targets, TargetOf, Renaming
    <3>3. SameEntry(po[t])
      BY <1>3, <3>1, <3>2, ReleasedIs
    <3>. QED BY <1>2, <3>1, <3>3 DEF Disk, NameOf, SameEntry
  <2>. QED BY <2>1, <2>2, <2>3, <2>4, <2>5
<1>. QED BY <1>2, <1>4, <1>5 DEF Quiet, Stays, Opened

LEMMA NoDirhQuiet ==
  ASSUME NEW t \in Threads, NoDirh, fh' = fh, ~Opened(t)'
  PROVE  Quiet(t)
BY DEF NoDirh, fsvars, Quiet

LEMMA SlotIs ==
  ASSUME NEW f, NEW v, Readable(f, v)
  PROVE  files[f] \notin {None, Lost} /\ SlotOf(f, v) \in 0 .. 1 /\ files[f][SlotOf(f, v)] = v
BY DEF Readable, SlotOf

LEMMA OpenFileEffect ==
  ASSUME Inv, Table, Base, Careful(use), Inv', NEW t \in Threads, Rest(t), OpenFile(t)
  PROVE  Effect(t)
<1>1. /\ pc[t] \in {"open", "enum"} /\ pc \in [Threads -> Places]
      /\ fh \in [Threads -> {None} \cup Handle] /\ Dirh.dents = dents
      /\ UNCHANGED <<use, pobjs, arg, po, to, fl>>
  BY DirhIs DEF OpenFile, Inv, Shape
<1>2. ASSUME NEW l \in {"close", "remove"}, pc' = [pc EXCEPT ![t] = l],
             dents' = dents, files' = files, fh' = fh
      PROVE  Quiet(t)
  <2>1. pc'[t] \notin HasFile
    BY <1>1, <1>2 DEF HasFile, Renaming
  <2>. QED BY <1>2, <2>1 DEF Quiet, Opened
<1>3. ASSUME NEW i \in Idxs, dents[i].name = NameOf(t),
             Readable(dents[i].fno, dents[i].hash),
             fh' = [fh EXCEPT ![t] =
                      [idx |-> i, fno |-> dents[i].fno, ver |-> dents[i].hash,
                       slot |-> SlotOf(dents[i].fno, dents[i].hash)]],
             pc' = [pc EXCEPT ![t] = "head"], dents' = dents, files' = files
      PROVE  OpensFile(t, i)
  <2>1. /\ fh'[t].idx = i /\ fh'[t].fno = dents[i].fno /\ fh'[t].ver = dents[i].hash
        /\ fh'[t].slot = SlotOf(dents[i].fno, dents[i].hash)
        /\ pc'[t] = "head"
    BY <1>1, <1>3
  <2>2. Current(fh[t])'
    BY <1>3, <2>1, SlotIs DEF Current
  <2>3. Disk(t)' = NameOf(t) /\ (User(t)' <=> User(t))
    BY <1>1, <2>1 DEF Disk, NameOf, User
  <2>. QED BY <1>1, <1>3, <2>1, <2>2, <2>3 DEF OpensFile, Holds
<1>4. \/ Quiet(t)
      \/ \E i \in Idxs : OpensFile(t, i)
  <2>1. CASE NoDirh /\ Goto(t, "close") /\ UNCHANGED fh
    BY <1>2, <2>1 DEF NoDirh, fsvars, Goto
  <2>2. CASE Goto(t, "close") /\ UNCHANGED <<dents, files, fh>>
    BY <1>2, <2>2 DEF Goto
  <2>3. ASSUME NEW i \in Find(Dirh, NameOf(t)), UNCHANGED <<dents, files>>,
               Goto(t, IF pc[t] = "open" THEN "remove" ELSE "close"), UNCHANGED fh
        PROVE  Quiet(t)
    BY <1>2, <2>3 DEF Goto
  <2>4. ASSUME NEW i \in Find(Dirh, NameOf(t)), UNCHANGED <<dents, files>>,
               Readable(Dirh.dents[i].fno, Dirh.dents[i].hash), Goto(t, "head"),
               fh' = [fh EXCEPT ![t] =
                        [idx |-> i, fno |-> Dirh.dents[i].fno, ver |-> Dirh.dents[i].hash,
                         slot |-> SlotOf(Dirh.dents[i].fno, Dirh.dents[i].hash)]]
        PROVE  \E j \in Idxs : OpensFile(t, j)
    <3>1. i \in Idxs /\ dents[i].name = NameOf(t)
      BY <1>1, <2>4 DEF Find
    <3>. QED BY <1>1, <1>3, <2>4, <3>1 DEF Goto
  <2>. QED BY <2>1, <2>2, <2>3, <2>4 DEF OpenFile
<1>. QED BY <1>4 DEF Effect

(***************************************************************************)
(* The number and the entry that ree_fs_create() takes.                    *)
(***************************************************************************)
Takeable(i, n, f) ==
  /\ i \in Idxs /\ f \in Fnos /\ Nameless(f) /\ dents[i].name \in {n, None}
  /\ \A j \in Idxs : dents[j].name = n => j = i

LEMMA RoomFor ==
  ASSUME Inv, Base, NEW n \in Names, Room(Dirh, n)
  PROVE  Takeable(DentFor(Dirh, n), n, Min(FreeFno(Dirh)))
<1> DEFINE i == DentFor(Dirh, n)
           f == Min(FreeFno(Dirh))
<1>1. Good(Dirh) /\ Dirh.dents = dents /\ NamedOnce /\ n # None
  BY DirhIs, NoneApart DEF Inv, Base, Stock
<1>2. f \in Fnos /\ f \notin Dirh.bits
  <2>1. /\ FreeFno(Dirh) # {} /\ FreeFno(Dirh) \subseteq Fnos
        /\ FreeFno(Dirh) \cap Dirh.bits = {}
    BY DEF Room, FreeFno
  <2>2. IsFiniteSet(FreeFno(Dirh)) /\ FreeFno(Dirh) \subseteq Nat
    BY <2>1, NoneApart, FS_Subset
  <2>. QED BY <2>1, <2>2, MinIsIn
<1>3. Nameless(f)
  BY <1>1, <1>2 DEF Good, Nameless
<1>4. \A x : Find(Dirh, x) \subseteq Idxs /\ \A j \in Idxs : j \in Find(Dirh, x) <=> dents[j].name = x
  BY <1>1 DEF Find
<1>5. \A x : Find(Dirh, x) # {} => Min(Find(Dirh, x)) \in Find(Dirh, x)
  <2>1. \A x : IsFiniteSet(Find(Dirh, x)) /\ Find(Dirh, x) \subseteq Nat
    BY <1>4, NoneApart, FS_Subset
  <2>. QED BY <2>1, MinIsIn
<1>6. CASE Find(Dirh, n) # {}
  <2>1. i \in Find(Dirh, n)
    BY <1>5, <1>6 DEF DentFor
  <2>2. i \in Idxs /\ dents[i].name = n
    BY <1>4, <2>1
  <2>. QED BY <1>1, <1>2, <1>3, <2>2 DEF Takeable, NamedOnce
<1>7. CASE Find(Dirh, n) = {}
  <2>1. i \in Find(Dirh, None)
    BY <1>5, <1>7 DEF DentFor, Room
  <2>2. i \in Idxs /\ dents[i].name = None
    BY <1>4, <2>1
  <2>. QED BY <1>2, <1>3, <1>4, <1>7, <2>2 DEF Takeable
<1>. QED BY <1>6, <1>7

LEMMA SetDentIs ==
  ASSUME Inv, NEW i \in Idxs, NEW n, NEW f, NEW v, dents' = SetDent(Dirh, i, n, f, v).dents
  PROVE  OnlyDent(i) /\ NewDent(i, n, f, v)
<1>1. Dirh.dents = dents /\ dents \in [Idxs -> Dent]
  BY DirhIs DEF Inv, Shape
<1>2. dents' = [dents EXCEPT ![i] = [name |-> n, fno |-> f, hash |-> v]]
  BY <1>1 DEF SetDent
<1>. QED BY <1>1, <1>2 DEF OnlyDent, NewDent

LEMMA CreateFileEffect ==
  ASSUME Inv, Table, Base, Careful(use), Inv', NEW t \in Threads, Rest(t), CreateFile(t)
  PROVE  Effect(t)
<1>1. /\ pc[t] = "create" /\ pc \in [Threads -> Places]
      /\ fh \in [Threads -> {None} \cup Handle] /\ Dirh.dents = dents
      /\ UNCHANGED <<use, pobjs, arg, po, to, fl>> /\ Stock
      /\ files \in [Fnos -> {None, Lost} \cup Pairs]
  BY DirhIs DEF CreateFile, Inv, Shape, Base, Stock
<1>2. User(t) /\ NameOf(t) \in Names /\ NameOf(t) # None
  <2>1. User(t)
    BY <1>1 DEF Table, Calls, CallOf, User
  <2>. QED BY <2>1, UserHas, NoneApart
<1>3. CASE NoDirh /\ Goto(t, "close") /\ UNCHANGED fh
  <2>1. ~Opened(t)'
    BY <1>1, <1>3 DEF Goto, Opened, HasFile, Renaming
  <2>2. Quiet(t)
    BY <1>3, <2>1, NoDirhQuiet
  <2>. QED BY <2>2 DEF Effect
<1>4. CASE /\ Room(Dirh, NameOf(t)) /\ Writable
           /\ \/ CreateFails(t, Dirh, Min(FreeFno(Dirh)))
              \/ CreateDone(t, Dirh, Min(FreeFno(Dirh)))
  <2> DEFINE f == Min(FreeFno(Dirh))
             n == NameOf(t)
             i == DentFor(Dirh, n)
             R == Replaced(Dirh, n)
  <2>1. Takeable(i, n, f)
    BY <1>2, <1>4, RoomFor
  <2>2. i \in Idxs /\ f \in Fnos /\ Nameless(f)
    BY <2>1 DEF Takeable
  <2>3. NewVer \in Vers /\ File(NewVer) \in Pairs
    BY <1>1, <1>4, NewVerFresh, LostApart
  <2>4. CASE CreateFails(t, Dirh, f)
    <3>1. /\ pc'[t] \in {"close", "remove"} /\ fh' = fh /\ dents' = dents
          /\ files' = [files EXCEPT ![f] = None] \/ files' = [files EXCEPT ![f] = File(NewVer)]
      BY <1>1, <2>4 DEF CreateFails, Goto
    <3> HIDE DEF f
    <3>2. ~Opened(t)'
      BY <3>1 DEF Opened, HasFile, Renaming
    <3>3. FilesTyped' /\ \A g \in Fnos \ {f} : files'[g] = files[g]
      BY <1>1, <2>2, <2>3, <3>1 DEF FilesTyped
    <3>4. files'[f] = None \/ files'[f] = File(NewVer)
      BY <1>1, <2>2, <3>1
    <3>5. \A g \in Fnos : Altered(g)
      BY <1>4, <2>2, <3>3, <3>4 DEF Altered, Untouched
    <3>6. \A g \in Fnos : files'[g] = Lost => files[g] = Lost
      BY <2>3, <3>3, <3>4, LostApart
    <3>. QED BY <3>1, <3>2, <3>3, <3>5, <3>6 DEF Effect, Spoils
  <2>5. CASE CreateDone(t, Dirh, f)
    <3>1. /\ dents' = SetDent(Dirh, i, n, f, NewVer).dents
          /\ fh' = [fh EXCEPT ![t] = [idx |-> i, fno |-> f, slot |-> 0, ver |-> NewVer]]
          /\ pc'[t] = "final"
      BY <1>1, <2>5 DEF CreateDone, Commit, Named, Goto
    <3>2. PICK left : /\ files' = [Without(files, R, left) EXCEPT ![f] = File(NewVer)]
                      /\ ~use.faults => left = {}
      BY <2>5 DEF CreateDone
    <3>3. /\ R \subseteq {dents[i].fno} /\ (R # {} => dents[i].name = n)
          /\ dents[i].name = n => R = {dents[i].fno}
      BY <1>1, <2>1 DEF Replaced, Find, Takeable
    <3> HIDE DEF f, i, R
    <3>4. OnlyDent(i) /\ NewDent(i, n, f, NewVer)
      BY <2>2, <3>1, SetDentIs
    <3>5. Holds(fh'[t], i, f, NewVer) /\ fh'[t].slot = 0
      BY <1>1, <3>1 DEF Holds
    <3>6. /\ \A g \in Fnos : g # f => files'[g] = IF g \in R \ left THEN None ELSE files[g]
          /\ files'[f] = File(NewVer) /\ DOMAIN files' = Fnos
          /\ files' = [g \in Fnos |-> files'[g]]
      BY <2>2, <3>2 DEF Without
    <3>7. FilesTyped'
      BY <1>1, <2>3, <3>6 DEF FilesTyped
    <3>8. \A g \in Fnos \ {f} :
            \/ Untouched(g)
            \/ files'[g] = None /\ dents[i].name = n /\ g = dents[i].fno
      BY <3>3, <3>6 DEF Untouched
    <3>11. ASSUME ~use.faults, dents[i].name = n PROVE files'[dents[i].fno] = None
      <4>1. dents[i].fno \in Fnos /\ dents[i].fno # f
        BY <1>1, <1>2, <2>2, <3>11 DEF Stock, Backed, Nameless
      <4>. QED BY <3>2, <3>3, <3>6, <3>11, <4>1
    <3>9. User(t)' /\ fl'[t] = fl[t] /\ Disk(t)' = n /\ NameOf(t)' = n
      BY <1>1, <1>2, <3>1 DEF User, Disk, NameOf
    <3>10. CreatesFile(t, i, f)
      BY <1>1, <1>4, <2>1, <3>4, <3>5, <3>6, <3>7, <3>8, <3>9, <3>11
         DEF CreatesFile, Takeable
    <3>. QED BY <2>2, <3>10 DEF Effect
  <2>. QED BY <1>4, <2>4, <2>5
<1>. QED BY <1>3, <1>4 DEF CreateFile, CreateLate, Careful

LEMMA ObjWriteEffect ==
  ASSUME Inv, Table, Base, Careful(use), Inv', NEW t \in Threads, Rest(t), ObjWrite(t)
  PROVE  Effect(t)
<1> DEFINE h == fh[t]
           e == SetDent(Dirh, h.idx, Dirh.dents[h.idx].name, h.fno, NewVer)
<1>1. /\ pc[t] = "have" /\ pc \in [Threads -> Places] /\ "w" \in fl[t]
      /\ fh \in [Threads -> {None} \cup Handle] /\ Dirh.dents = dents
      /\ UNCHANGED <<use, pobjs, arg, po, to, fl>> /\ Stock
      /\ files \in [Fnos -> {None, Lost} \cup Pairs]
  BY DirhIs DEF ObjWrite, Inv, Shape, Base, Stock
<1>2. User(t) /\ Opened(t) /\ Exclusive(fl[t])
  <2>1. User(t) /\ fl[t] \in use.opens \cup use.creates
    BY <1>1 DEF Table, Calls, CallOf, User, Inv, Shape, Arg
  <2>. QED BY <1>1, <2>1 DEF Careful, Opened, HasFile, Exclusive, Conflict, Clash
<1>3. /\ h # None /\ h \in Handle /\ h.idx \in Idxs /\ h.slot \in 0 .. 1 /\ h.fno \in Fnos /\ h.ver \in Vers
  BY <1>1, <1>2, OpenedHas DEF Opened
<1>4. IsDent(h.idx, Disk(t), h.fno, h.ver) /\ (files[h.fno] = Lost \/ Current(h))
  BY <1>2 DEF Base, OwnedBy
<1>5. ASSUME Writable, files' = Written(h)
      PROVE  /\ FilesTyped' /\ \A g \in Fnos \ {h.fno} : Untouched(g)
             /\ (files[h.fno] = Lost /\ Untouched(h.fno)) \/ Overwrites(t, h.fno)
  <2>1. NewVer \in Vers
    BY <1>1, <1>5, NewVerFresh
  <2>2. CASE files[h.fno] = Lost
    BY <1>1, <1>5, <2>2 DEF Written, FilesTyped, Untouched
  <2>3. CASE files[h.fno] # Lost
    <3>1. files[h.fno] \in Pairs
      BY <1>1, <1>3, <1>4, <2>3, CurrentIs
    <3>2. files' = [files EXCEPT ![h.fno] = [files[h.fno] EXCEPT ![1 - h.slot] = NewVer]]
      BY <1>5, <3>1, LostApart DEF Written
    <3>3. [files[h.fno] EXCEPT ![1 - h.slot] = NewVer] \in Pairs
      <4>1. 1 - h.slot \in 0 .. 1
        BY <1>3
      <4>. QED BY <2>1, <3>1, <4>1, LostApart
    <3>4. files'[h.fno] = [files[h.fno] EXCEPT ![1 - h.slot] = NewVer]
      BY <1>1, <1>3, <3>2
    <3>5. FilesTyped'
      BY <1>1, <1>3, <3>2, <3>3 DEF FilesTyped
    <3>6. \A g \in Fnos \ {h.fno} : Untouched(g)
      BY <1>1, <3>2 DEF Untouched
    <3>. QED BY <1>2, <1>5, <3>1, <3>4, <3>5, <3>6 DEF Overwrites
  <2>. QED BY <2>2, <2>3
<1>6. CASE NoDirh /\ Goto(t, "failed") /\ UNCHANGED fh
  <2>1. ~Opened(t)'
    BY <1>1, <1>6 DEF Goto, Opened, HasFile, Renaming
  <2>2. Quiet(t)
    BY <1>6, <2>1, NoDirhQuiet
  <2>. QED BY <2>2 DEF Effect
<1>7. CASE /\ Writable /\ files' \in {files, Written(h)}
           /\ (Goto(t, "failed") \/ Goto(t, "remove")) /\ UNCHANGED <<dents, fh>>
  <2>1. ~Opened(t)'
    BY <1>1, <1>7 DEF Goto, Opened, HasFile, Renaming
  <2>2. CASE files' = files
    BY <1>7, <2>1, <2>2 DEF Quiet, Effect
  <2>3. CASE files' = Written(h)
    <3>1. /\ FilesTyped' /\ \A g \in Fnos \ {h.fno} : Untouched(g)
          /\ (files[h.fno] = Lost /\ Untouched(h.fno)) \/ Overwrites(t, h.fno)
      BY <1>5, <1>7, <2>3
    <3>2. \A g \in Fnos : Altered(g)
      BY <2>1, <3>1 DEF Altered
    <3>3. \A g \in Fnos : files'[g] = Lost => files[g] = Lost
      <4>1. CASE Overwrites(t, h.fno)
        <5>1. /\ files[h.fno] \in Pairs /\ 1 - h.slot \in 0 .. 1 /\ NewVer \in Vers
              /\ files'[h.fno] = [files[h.fno] EXCEPT ![1 - h.slot] = NewVer]
          BY <1>1, <1>3, <1>7, <4>1, NewVerFresh DEF Overwrites
        <5>2. files'[h.fno] \in Pairs
          BY <5>1, LostApart
        <5>. QED BY <3>1, <5>2, LostApart DEF Untouched
      <4>. QED BY <3>1, <4>1 DEF Untouched
    <3>. QED BY <1>7, <2>1, <3>1, <3>2, <3>3 DEF Spoils, Effect
  <2>. QED BY <1>7, <2>2, <2>3
<1>8. CASE /\ SameFile(t) /\ Writable /\ files' = Written(h) /\ Commit(e)
           /\ fh' = [fh EXCEPT ![t].slot = 1 - h.slot, ![t].ver = NewVer]
           /\ UNCHANGED pc
  <2>1. /\ FilesTyped' /\ \A g \in Fnos \ {h.fno} : Untouched(g)
        /\ (files[h.fno] = Lost /\ Untouched(h.fno)) \/ Overwrites(t, h.fno)
    BY <1>5, <1>8
  <2>2. dents' = SetDent(Dirh, h.idx, Disk(t), h.fno, NewVer).dents
    BY <1>1, <1>4, <1>8 DEF Commit, IsDent
  <2>3. OnlyDent(h.idx) /\ NewDent(h.idx, Disk(t), h.fno, NewVer)
    BY <1>3, <2>2, SetDentIs
  <2>4. Holds(fh'[t], h.idx, h.fno, NewVer) /\ fh'[t].slot = 1 - h.slot
    <3>1. fh'[t] = [[h EXCEPT !.slot = 1 - h.slot] EXCEPT !.ver = NewVer]
      BY <1>1, <1>8
    <3>. QED BY <1>3, <3>1 DEF Holds, Handle
  <2>5. fl'[t] = fl[t] /\ Disk(t)' = Disk(t)
    BY <1>1, <1>8 DEF Disk, NameOf
  <2>6. WritesFile(t)
    BY <1>2, <1>8, <2>1, <2>3, <2>4, <2>5 DEF WritesFile
  <2>. QED BY <2>6 DEF Effect
<1>9. CASE /\ use.faults /\ SameFile(t) /\ Writable /\ files' = Written(h) /\ Commit(e)
           /\ (Goto(t, "failed") \/ Goto(t, "remove")) /\ UNCHANGED fh
  <2>1. /\ FilesTyped' /\ \A g \in Fnos \ {h.fno} : Untouched(g)
        /\ (files[h.fno] = Lost /\ Untouched(h.fno)) \/ Overwrites(t, h.fno)
    BY <1>5, <1>9
  <2>2. dents' = SetDent(Dirh, h.idx, Disk(t), h.fno, NewVer).dents
    BY <1>1, <1>4, <1>9 DEF Commit, IsDent
  <2>3. OnlyDent(h.idx) /\ NewDent(h.idx, Disk(t), h.fno, NewVer)
    BY <1>3, <2>2, SetDentIs
  <2>4. fh'[t] = h /\ ~Opened(t)'
    BY <1>1, <1>9 DEF Goto, Opened, HasFile, Renaming
  <2>5. WritesFile(t)
    BY <1>2, <1>9, <2>1, <2>3, <2>4 DEF WritesFile
  <2>. QED BY <2>5 DEF Effect
<1>. QED BY <1>6, <1>7, <1>8, <1>9 DEF ObjWrite

LEMMA RenameFileEffect ==
  ASSUME Inv, Table, Base, Careful(use), Inv', NEW t \in Threads, Rest(t), RenameFile(t)
  PROVE  Effect(t)
<1>1. /\ pc[t] = "rename" /\ pc \in [Threads -> Places] /\ arg[t].name \in Names
      /\ Dirh.dents = dents /\ Stock
      /\ UNCHANGED <<use, pobjs, arg, po, to, fl, fh>>
  BY DirhIs DEF RenameFile, Inv, Shape, Base, Arg, Held, HeldBy, Renaming
<1>2. /\ User(t) /\ Opened(t) /\ Exclusive(fl[t]) /\ Disk(t) = NameOf(t)
      /\ fh[t].idx \in Idxs /\ NameOf(t) # None
  <2>1. User(t) /\ "meta" \in fl[t] /\ pc[t] \in HasFile
    BY <1>1, Holders DEF Table, Calls, CallOf, Renaming, HasFile
  <2>. QED BY <1>1, <2>1, OpenedHas, DiskIs DEF Opened, Exclusive, Conflict, Disk
<1>3. IsDent(fh[t].idx, NameOf(t), fh[t].fno, fh[t].ver)
  BY <1>2 DEF Base, OwnedBy
<1>4. ASSUME dents' = dents, files' = files, Goto(t, "renamed") PROVE Effect(t)
  <2>1. pc'[t] = "renamed" /\ Disk(t)' = Disk(t)
    BY <1>1, <1>4 DEF Goto, Disk, NameOf
  <2>. QED BY <1>1, <1>2, <1>4, <2>1 DEF Effect, Quiet, Stays
<1>5. ASSUME NEW i \in Find(Dirh, NameOf(t)), Find(Dirh, arg[t].name) = {},
             Commit(Moved(Dirh, i, arg[t].name)), Goto(t, "renamePobj"), files' = files
      PROVE  Effect(t)
  <2>1. i = fh[t].idx
    BY <1>1, <1>2, <1>3, <1>5 DEF Find, IsDent, Stock, NamedOnce
  <2>2. dents' = SetDent(Dirh, fh[t].idx, arg[t].name, fh[t].fno, fh[t].ver).dents
    BY <1>1, <1>3, <1>5, <2>1 DEF Commit, Moved, IsDent
  <2>3. OnlyDent(fh[t].idx) /\ NewDent(fh[t].idx, arg[t].name, fh[t].fno, fh[t].ver)
    BY <1>2, <2>2, SetDentIs
  <2>4. Disk(t)' = arg[t].name
    BY <1>1, <1>5 DEF Disk, Goto
  <2>5. \A j \in Idxs : dents[j].name # arg[t].name
    BY <1>1, <1>5 DEF Find
  <2>6. MovesFile(t, arg[t].name)
    BY <1>1, <1>2, <1>5, <2>3, <2>4, <2>5 DEF MovesFile
  <2>. QED BY <1>1, <2>6 DEF Effect
<1>. QED BY <1>4, <1>5 DEF RenameFile, NoDirh, fsvars, Careful

LEMMA RemoveFileEffect ==
  ASSUME Inv, Table, Base, Careful(use), Inv', NEW t \in Threads, Rest(t), RemoveFile(t)
  PROVE  Effect(t)
<1>1. /\ pc[t] = "remove" /\ pc \in [Threads -> Places] /\ pc'[t] = "close"
      /\ Dirh.dents = dents /\ Stock /\ dents \in [Idxs -> Dent]
      /\ UNCHANGED <<use, pobjs, arg, po, to, fl, fh>>
      /\ files \in [Fnos -> {None, Lost} \cup Pairs]
  BY DirhIs DEF RemoveFile, Inv, Shape, Base, Goto, Stock
<1>2. User(t) /\ ~Opened(t)' /\ NameOf(t) # None
  <2>1. User(t)
    BY <1>1 DEF Table, Calls, CallOf, User, Inv, Shape, Arg
  <2>. QED BY <1>1, <2>1, UserHas, NoneApart DEF Opened, HasFile, Renaming
<1>3. ASSUME dents' = dents, files' = files PROVE Effect(t)
  BY <1>1, <1>2, <1>3 DEF Effect, Quiet
<1>4. ASSUME NEW i \in Find(Dirh, NameOf(t)), Commit(ClearDent(Dirh, i)),
             NEW left, ~use.faults => left = {},
             files' = Without(files, {Dirh.dents[i].fno}, left)
      PROVE  Effect(t)
  <2>1. i \in Idxs /\ dents[i].name = NameOf(t)
    BY <1>1, <1>4 DEF Find
  <2>2. dents' = [dents EXCEPT ![i] = NoDent]
    BY <1>1, <1>4 DEF Commit, ClearDent
  <2>3. OnlyDent(i) /\ dents'[i].name = None
    BY <1>1, <2>1, <2>2 DEF OnlyDent, NoDent
  <2>4. dents[i].fno \in Fnos
    BY <1>1, <1>2, <2>1 DEF Stock, Backed
  <2>5. files' = [g \in Fnos |-> IF g \in {dents[i].fno} \ left THEN None ELSE files[g]]
    BY <1>1, <1>4 DEF Without
  <2>6. FilesTyped'
    BY <1>1, <2>5 DEF FilesTyped
  <2>7. /\ \A g \in Fnos : Untouched(g) \/ (files'[g] = None /\ g = dents[i].fno)
        /\ ~use.faults => files'[dents[i].fno] = None
    BY <1>4, <2>4, <2>5 DEF Untouched
  <2>8. RemovesFile(t, i)
    BY <1>1, <1>2, <2>1, <2>3, <2>6, <2>7 DEF RemovesFile
  <2>. QED BY <2>1, <2>8 DEF Effect
<1>5. ASSUME NEW i \in Find(Dirh, NameOf(t)), Commit(ClearDent(Dirh, i)),
             use.faults, files' = files
      PROVE  Effect(t)
  <2>1. files' = Without(files, {Dirh.dents[i].fno}, {Dirh.dents[i].fno})
    BY <1>1, <1>5 DEF Without
  <2>. QED BY <1>4, <1>5, <2>1
<1>. QED BY <1>3, <1>4, <1>5 DEF RemoveFile, NoDirh, fsvars

LEMMA StepEffect ==
  ASSUME Inv, Table, Base, Careful(use), Inv', NEW t \in Threads, Step(t)
  PROVE  Rest(t) /\ Effect(t)
<1>1. Rest(t)
  BY StepRest
<1>2. CASE \/ ObjOpen(t) \/ ObjCreate(t) \/ ObjDel(t) \/ ObjClose(t) \/ CloseFile(t)
           \/ Release(t) \/ StartEnum(t) \/ NextEnum(t) \/ EnumGet(t) \/ EndEnum(t)
  BY <1>1, <1>2, LeavesFile DEF Effect
<1>3. CASE \/ ReadHead(t) \/ CreateFinal(t) \/ ObjRead(t) \/ ObjRename(t)
           \/ RenamePobj(t) \/ Renamed(t)
  BY <1>1, <1>3, KeepsFile DEF Effect
<1>. QED BY <1>1, <1>2, <1>3, OpenFileEffect, CreateFileEffect, ObjWriteEffect,
           RenameFileEffect, RemoveFileEffect DEF Step

Safe == Inv /\ Table /\ Base /\ Careful(use)

LEMMA SameStateBase ==
  ASSUME Inv, Table, Base, Inv', UNCHANGED <<use, dents, pobjs, pc, thvars>>, FilesTyped',
         \A g \in Fnos : Untouched(g) \/ files'[g] = Lost
  PROVE  Base'
<1>1. UNCHANGED <<dents, pobjs, pc, arg, po, fl, fh>>
  BY DEF thvars
<1>2. \A u \in Threads : Opened(u)' => Stays(u)
  BY <1>1 DEF Opened, User, Stays, Disk, NameOf
<1>3. \A g \in Fnos : Altered(g)
  BY DEF Altered
<1>. QED BY <1>1, <1>2, <1>3, BaseSameDents

LEMMA NextBase == Safe /\ Inv' /\ [Next]_vars => Base'
<1>. SUFFICES ASSUME Safe, Inv', [Next]_vars PROVE Base'
  OBVIOUS
<1>0. Inv /\ Table /\ Base /\ Careful(use) /\ FilesTyped
  BY DEF Safe, Base, Stock, FilesTyped
<1>1. CASE Stop
  <2>1. /\ dents' = dents /\ files' = files /\ \A u \in Threads : fh'[u] = None /\ ~Opened(u)'
    BY <1>1 DEF Stop, Opened, User, NoArg
  <2>2. FilesTyped' /\ \A g \in Fnos : Altered(g)
    BY <1>0, <2>1 DEF FilesTyped, Altered, Untouched
  <2>. QED BY <1>0, <2>1, <2>2, BaseSameDents
<1>2. CASE Lose
  <2>1. PICK f \in Fnos : files' = [files EXCEPT ![f] = Lost]
    BY <1>2 DEF Lose
  <2>2. FilesTyped' /\ \A g \in Fnos : Untouched(g) \/ files'[g] = Lost
    BY <1>0, <2>1 DEF FilesTyped, Untouched
  <2>. QED BY <1>0, <1>2, <2>2, SameStateBase DEF Lose
<1>3. ASSUME NEW t \in Threads, Step(t) PROVE Base'
  BY <1>0, <1>3, StepEffect, EffectBase
<1>4. CASE UNCHANGED vars
  <2>1. FilesTyped' /\ \A g \in Fnos : Untouched(g)
    BY <1>0, <1>4 DEF FilesTyped, Untouched, vars, fsvars
  <2>. QED BY <1>0, <1>4, <2>1, SameStateBase DEF vars, fsvars
<1>. QED BY <1>1, <1>2, <1>3, <1>4 DEF Next

LEMMA InitTable == Init => Table /\ Base
<1>. SUFFICES ASSUME Init PROVE Table /\ Base
  OBVIOUS
<1>1. Started
  BY DEF Init, Started
<1>2. Table
  BY <1>1, StartedTable
<1>3. /\ \A i \in Idxs : dents[i].name = None
      /\ files \in [Fnos -> {None, Lost} \cup Pairs]
      /\ \A t \in Threads : fh[t] = None /\ ~Opened(t)
  BY DEF Init, NoDent, Opened, User, NoArg
<1>4. Base
  BY <1>3 DEF Base, Stock, NamedOnce, Sharing, Meet, OwnedBy, UnderName
<1>. QED BY <1>2, <1>4

LEMMA SafeHolds == Spec /\ Careful(use) => []Safe
<1>1. Init /\ Careful(use) => Safe
  BY InitHolds, InitTable DEF Safe
<1>2. Safe /\ [Next]_vars => Safe'
  <2>. SUFFICES ASSUME Safe, [Next]_vars PROVE Safe'
    OBVIOUS
  <2>1. Inv' /\ use' = use
    BY NextKeeps, UseKept DEF Safe
  <2>2. Table'
    BY <2>1, NextTable DEF Safe
  <2>3. Base'
    BY <2>1, NextBase
  <2>4. Careful(use)'
    BY <2>1 DEF Safe, Careful
  <2>. QED BY <2>1, <2>2, <2>3, <2>4 DEF Safe
<1>. QED BY <1>1, <1>2, PTL DEF Spec

(***************************************************************************)
(* Handles that can read one file were checked against each other by       *)
(* tee_pobj_check_access(): they agree about sharing it, whatever names    *)
(* the object had and whoever replaced it.                                 *)
(***************************************************************************)
THEOREM SharersAgree == Spec /\ Careful(use) => []SharingAgreed
<1>1. Safe => SharingAgreed
  <2>. SUFFICES ASSUME Safe, NEW t \in Threads, NEW u \in Threads, OnOneFile(t, u)
                PROVE  /\ "meta" \notin fl[t] \cup fl[u]
                       /\ "r" \in fl[t] \cup fl[u] => "sr" \in fl[t] \cap fl[u]
                       /\ "w" \in fl[t] \cup fl[u] => "sw" \in fl[t] \cap fl[u]
    BY DEF SharingAgreed
  <2>1. \A v \in {t, u} : Opened(v)
    BY DEF OnOneFile, Opened, HasFile, User, Safe, Table, Calls, CallOf, Inv, Shape, Arg
  <2>2. Meet(t, u)
    BY <2>1 DEF Meet, OnOneFile
  <2>3. ~Conflict(fl[t], fl[u])
    BY <2>2 DEF Safe, Base, Sharing
  <2>. QED BY <2>3 DEF Conflict, Clash
<1>. QED BY <1>1, SafeHolds, PTL

-----------------------------------------------------------------------------
(***************************************************************************)
(* The stored objects, as the abstract specification sees them.            *)
(***************************************************************************)
StoredAs ==
  \A n \in Names :
    /\ (\A i \in Idxs : dents[i].name # n) => Stored(n) = None
    /\ \A i \in Idxs : dents[i].name = n => Stored(n) = dents[i].hash

LEMMA StoredIs == Stock /\ ~use.late => StoredAs
<1>. SUFFICES ASSUME Stock, ~use.late, NEW n \in Names
              PROVE  /\ (\A i \in Idxs : dents[i].name # n) => Stored(n) = None
                     /\ \A i \in Idxs : dents[i].name = n => Stored(n) = dents[i].hash
  BY DEF StoredAs
<1> DEFINE I == {i \in Idxs : dents[i].name = n}
<1>1. ASSUME \A i \in Idxs : dents[i].name # n PROVE Stored(n) = None
  <2>1. I = {}
    BY <1>1
  <2>. QED BY <2>1 DEF Stored
<1>2. ASSUME NEW i \in Idxs, dents[i].name = n PROVE Stored(n) = dents[i].hash
  <2>1. n # None /\ Backed(i)
    BY <1>2, NoneApart DEF Stock
  <2>2. I = {i}
    BY <1>2, <2>1 DEF Stock, NamedOnce
  <2>3. Cardinality(I) = 1 /\ IsFiniteSet(I)
    BY <2>2, FS_Singleton
  <2>4. Min(I) \in I
    BY <2>2, <2>3, NoneApart, MinIsIn
  <2>5. Min(I) = i /\ I # {}
    BY <2>2, <2>4
  <2> HIDE DEF I
  <2>6. Stored(n) = IF I = {} THEN None
                    ELSE IF Cardinality(I) = 1 /\ (files[dents[Min(I)].fno] = Lost
                                                   \/ Readable(dents[Min(I)].fno, dents[Min(I)].hash))
                    THEN dents[Min(I)].hash ELSE Lost
    BY DEF Stored, I
  <2>. QED BY <2>1, <2>3, <2>5, <2>6 DEF Backed
<1>. QED BY <1>1, <1>2

StoredNow == [n \in Names |-> Stored(n)]

LEMMA StoredKept ==
  ASSUME StoredAs, StoredAs', NEW i \in Idxs, OnlyDent(i), NEW n \in Names,
         dents[i].name # n, dents'[i].name # n
  PROVE  Stored(n)' = Stored(n)
<1>1. CASE \A j \in Idxs : dents[j].name # n
  <2>1. \A j \in Idxs : dents'[j].name # n
    BY <1>1 DEF OnlyDent
  <2>. QED BY <1>1, <2>1 DEF StoredAs
<1>2. ASSUME NEW j \in Idxs, dents[j].name = n PROVE Stored(n)' = Stored(n)
  <2>1. dents'[j] = dents[j]
    BY <1>2 DEF OnlyDent
  <2>. QED BY <1>2, <2>1 DEF StoredAs
<1>. QED BY <1>1, <1>2

LEMMA SameDentsStored ==
  ASSUME StoredAs, StoredAs', dents' = dents
  PROVE  StoredNow' = StoredNow
<1>1. ASSUME NEW n \in Names PROVE Stored(n)' = Stored(n)
  <2>1. CASE \A i \in Idxs : dents[i].name # n
    BY <2>1 DEF StoredAs
  <2>2. ASSUME NEW i \in Idxs, dents[i].name = n PROVE Stored(n)' = Stored(n)
    BY <2>2 DEF StoredAs
  <2>. QED BY <2>1, <2>2
<1>. QED BY <1>1 DEF StoredNow

LEMMA PutStored ==
  ASSUME StoredAs, StoredAs', NEW i \in Idxs, NEW n \in Names, NEW f, NEW v,
         OnlyDent(i), NewDent(i, n, f, v), dents[i].name \in {n, None}
  PROVE  StoredNow' = [StoredNow EXCEPT ![n] = v]
<1>1. Stored(n)' = v
  BY DEF NewDent, StoredAs
<1>2. ASSUME NEW m \in Names, m # n PROVE Stored(m)' = Stored(m)
  BY <1>2, StoredKept, NoneApart DEF NewDent
<1>. QED BY <1>1, <1>2 DEF StoredNow

LEMMA RemoveStored ==
  ASSUME StoredAs, StoredAs', NamedOnce, NEW i \in Idxs, NEW n \in Names,
         OnlyDent(i), dents[i].name = n, dents'[i].name = None
  PROVE  StoredNow' = [StoredNow EXCEPT ![n] = None]
<1>1. Stored(n)' = None
  <2>1. \A j \in Idxs : dents'[j].name # n
    BY NoneApart DEF OnlyDent, NamedOnce
  <2>. QED BY <2>1 DEF StoredAs
<1>2. ASSUME NEW m \in Names, m # n PROVE Stored(m)' = Stored(m)
  BY <1>2, StoredKept, NoneApart
<1>. QED BY <1>1, <1>2 DEF StoredNow

LEMMA MoveStored ==
  ASSUME StoredAs, StoredAs', NamedOnce, NEW i \in Idxs, NEW n \in Names, NEW m \in Names,
         OnlyDent(i), dents[i].name = n, NEW f, NewDent(i, m, f, dents[i].hash), m # n
  PROVE  StoredNow' = [StoredNow EXCEPT ![m] = StoredNow[n], ![n] = None]
<1>1. Stored(m)' = Stored(n)
  BY DEF NewDent, StoredAs
<1>2. Stored(n)' = None
  <2>1. \A j \in Idxs : dents'[j].name # n
    BY NoneApart DEF OnlyDent, NamedOnce, NewDent
  <2>. QED BY <2>1 DEF StoredAs
<1>3. ASSUME NEW k \in Names, k # n, k # m PROVE Stored(k)' = Stored(k)
  BY <1>3, StoredKept DEF NewDent
<1>. QED BY <1>1, <1>2, <1>3 DEF StoredNow

LEMMA EffectStored ==
  ASSUME Safe, StoredAs, StoredAs', NEW t \in Threads, Effect(t)
  PROVE  Objects!Next \/ StoredNow' = StoredNow
<1>0. Inv /\ Table /\ Base /\ Stock /\ NamedOnce
  BY DEF Safe, Base, Stock
<1>1. CASE Quiet(t) \/ Spoils(t)
  BY <1>1, SameDentsStored DEF Quiet, Spoils
<1>2. ASSUME NEW i \in Idxs, OpensFile(t, i) PROVE StoredNow' = StoredNow
  BY <1>2, SameDentsStored DEF OpensFile
<1>3. ASSUME NEW i \in Idxs, NEW f \in Fnos, CreatesFile(t, i, f) PROVE Objects!Next
  <2>1. /\ OnlyDent(i) /\ NewDent(i, NameOf(t), f, NewVer) /\ dents[i].name \in {NameOf(t), None}
        /\ pc[t] = "create" /\ Writable
    BY <1>3 DEF CreatesFile
  <2>2. NameOf(t) \in Names /\ NewVer \in Vers
    BY <1>0, <2>1, HasEntry, NewVerFresh DEF NoEntry
  <2>3. StoredNow' = [StoredNow EXCEPT ![NameOf(t)] = NewVer]
    BY <2>1, <2>2, PutStored
  <2>. QED BY <2>2, <2>3 DEF Objects!Next, Objects!Put, StoredNow
<1>4. CASE WritesFile(t)
  <2> DEFINE i == fh[t].idx
  <2>1. /\ OnlyDent(i) /\ NewDent(i, Disk(t), fh[t].fno, NewVer) /\ Opened(t)
        /\ Exclusive(fl[t]) /\ Writable
    BY <1>4 DEF WritesFile
  <2>2. /\ Disk(t) \in Names /\ NewVer \in Vers /\ i \in Idxs /\ dents[i].name = Disk(t)
    BY <1>0, <2>1, DiskIs, NewVerFresh, OpenedHas DEF Opened, Base, OwnedBy, IsDent
  <2>3. StoredNow' = [StoredNow EXCEPT ![Disk(t)] = NewVer]
    BY <2>1, <2>2, PutStored
  <2>. QED BY <2>2, <2>3 DEF Objects!Next, Objects!Put, StoredNow
<1>5. ASSUME NEW i \in Idxs, RemovesFile(t, i) PROVE Objects!Next
  <2>1. /\ OnlyDent(i) /\ dents[i].name = NameOf(t) /\ dents'[i].name = None /\ User(t)
    BY <1>5 DEF RemovesFile
  <2>2. NameOf(t) \in Names
    BY <1>0, <2>1, UserHas
  <2>3. StoredNow' = [StoredNow EXCEPT ![NameOf(t)] = None]
    BY <1>0, <2>1, <2>2, RemoveStored
  <2>4. StoredNow[NameOf(t)] # None
    <3>1. Backed(i)
      BY <1>0, <2>1, <2>2, NoneApart DEF Stock
    <3>2. Stored(NameOf(t)) # None
      BY <2>1, <2>2, <3>1, NoneApart DEF StoredAs, Backed
    <3>. QED BY <2>2, <3>2 DEF StoredNow
  <2>. QED BY <2>2, <2>3, <2>4 DEF Objects!Next, Objects!Remove, StoredNow
<1>6. ASSUME NEW m \in Names, MovesFile(t, m) PROVE Objects!Next
  <2> DEFINE i == fh[t].idx
             n == Disk(t)
  <2>1. /\ OnlyDent(i) /\ NewDent(i, m, fh[t].fno, fh[t].ver) /\ Opened(t)
        /\ Exclusive(fl[t]) /\ \A j \in Idxs : dents[j].name # m
    BY <1>6 DEF MovesFile
  <2>2. n \in Names /\ n # None /\ i \in Idxs /\ IsDent(i, n, fh[t].fno, fh[t].ver)
    BY <1>0, <2>1, DiskIs, OpenedHas DEF Opened, Base, OwnedBy
  <2>3. dents[i].name = n /\ dents[i].hash = fh[t].ver
    BY <2>2 DEF IsDent
  <2>4. StoredNow' = [StoredNow EXCEPT ![m] = StoredNow[n], ![n] = None]
    BY <1>0, <2>1, <2>2, <2>3, MoveStored
  <2>5. StoredNow[n] # None /\ StoredNow[m] = None
    <3>1. Backed(i)
      BY <1>0, <2>2, <2>3 DEF Stock
    <3>2. Stored(n) # None
      BY <2>2, <2>3, <3>1, NoneApart DEF StoredAs, Backed
    <3>3. Stored(m) = None
      BY <2>1 DEF StoredAs
    <3>. QED BY <2>2, <3>2, <3>3 DEF StoredNow
  <2>. QED BY <2>2, <2>4, <2>5 DEF Objects!Next, Objects!Rename, StoredNow
<1>. QED BY <1>1, <1>2, <1>3, <1>4, <1>5, <1>6 DEF Effect

(***************************************************************************)
(* Every change of the stored objects is one of ObjectStore: creating,     *)
(* replacing, writing, renaming and deleting an object each take effect in *)
(* one step, the commit of the directory file, and no stop of the device   *)
(* and no failure leaves anything in between, unless it is the commit of a *)
(* create or of a rename that took effect and is reported as failed.       *)
(***************************************************************************)
THEOREM StorageImplements == Spec /\ Careful(use) => ImplementsObjectStore
<1>1. Init => Objects!Init
  <2>. SUFFICES ASSUME Init PROVE Objects!Init
    OBVIOUS
  <2>1. \A i \in Idxs : dents[i].name = None
    BY DEF Init, NoDent
  <2>2. \A n \in Names : Stored(n) = None
    <3>1. ~use.late => StoredAs
      BY InitTable, StoredIs DEF Base
    <3>2. CASE use.late
      BY <3>2 DEF Stored
    <3>. QED BY <2>1, <3>1, <3>2, NoneApart DEF StoredAs
  <2>. QED BY <2>2 DEF Objects!Init
<1>2. Safe /\ Safe' /\ [Next]_vars => [Objects!Next]_StoredNow
  <2>. SUFFICES ASSUME Safe, Safe', [Next]_vars
                PROVE  Objects!Next \/ StoredNow' = StoredNow
    OBVIOUS
  <2>1. StoredAs
    BY StoredIs DEF Safe, Base, Careful
  <2>2. StoredAs'
    <3>1. (Stock /\ ~use.late)'
      BY DEF Safe, Base, Careful
    <3>. QED BY <3>1, StoredIs, PTL
  <2>3. ASSUME NEW t \in Threads, Step(t) PROVE Objects!Next \/ StoredNow' = StoredNow
    BY <2>1, <2>2, <2>3, StepEffect, EffectStored DEF Safe
  <2>4. CASE Stop \/ Lose \/ UNCHANGED vars
    BY <2>1, <2>2, <2>4, SameDentsStored DEF Stop, Lose, vars, fsvars
  <2>. QED BY <2>3, <2>4 DEF Next
<1>3. StoredNow = [n \in Names |-> Stored(n)]
  BY DEF StoredNow
<1>. QED BY <1>1, <1>2, SafeHolds, PTL
    DEF Spec, ImplementsObjectStore, Objects!Spec, StoredNow

-----------------------------------------------------------------------------
(***************************************************************************)
(* Objects that are created are not shared, at least where what they       *)
(* replace may be left behind by a storage that fails; and a good file is  *)
(* not taken for corrupt.                                                  *)
(***************************************************************************)
CreatesAlone(u) == \A f \in u.creates : Exclusive(f)

Tidy(u) == ~u.misread /\ (u.faults => CreatesAlone(u))

(***************************************************************************)
(* A handle that can read its file reads the object of its entry.          *)
(***************************************************************************)
Meant(t) ==
  Opened(t) /\ Current(fh[t]) => IsDent(fh[t].idx, Disk(t), fh[t].fno, fh[t].ver)

(***************************************************************************)
(* A shared handle that cannot, or is about to remove its object, has one  *)
(* whose file is lost.                                                     *)
(***************************************************************************)
Sick(t) == pc[t] = "remove" \/ (pc[t] \in HasFile /\ ~Current(fh[t]))

LostName(n) == \A i \in Idxs : dents[i].name = n => files[dents[i].fno] = Lost

Corrupt(t) == User(t) /\ ~Exclusive(fl[t]) /\ Sick(t) => LostName(Disk(t))

Sound ==
  /\ \A t \in Threads : Meant(t)
  /\ use.faults => \A t \in Threads : Corrupt(t)

Sane == Safe /\ Tidy(use) /\ Sound

(***************************************************************************)
(* Those that a step leaves alone.                                         *)
(***************************************************************************)
Spared(u) == Kept(u) /\ fh'[u] = fh[u]

LEMMA SparedIs ==
  ASSUME Safe, NEW u \in Threads, Spared(u)
  PROVE  /\ User(u)' <=> User(u)
         /\ Opened(u)' <=> Opened(u)
         /\ fh'[u] = fh[u]
         /\ User(u) => fl'[u] = fl[u] /\ Disk(u)' = Disk(u) /\ pc'[u] = pc[u]
         /\ Current(fh[u])' <=> StillCurrent(fh[u])
         /\ Opened(u) => /\ User(u) /\ pc[u] \in HasFile /\ fh[u].idx \in Idxs
                         /\ fh[u].fno \in Fnos /\ Disk(u) # None
BY KeptDisk, CurrentPrime, OpenedHas, DiskIs DEF Spared, Kept, Safe, Base, Opened

(***************************************************************************)
(* A handle that was good, of an object whose entry and file a step leaves *)
(* alone, stays so; one of a lost object still is.                         *)
(***************************************************************************)
LEMMA StaysMeant ==
  ASSUME Safe, NEW u \in Threads, Spared(u),
         Opened(u) /\ StillCurrent(fh[u]) =>
           /\ Current(fh[u]) /\ Meant(u) /\ dents'[fh[u].idx] = dents[fh[u].idx]
  PROVE  Meant(u)'
<1>. SUFFICES ASSUME Opened(u)', Current(fh[u])'
              PROVE  IsDent(fh[u].idx, Disk(u), fh[u].fno, fh[u].ver)'
  BY DEF Meant
<1>1. Opened(u) /\ StillCurrent(fh[u]) /\ fh'[u] = fh[u] /\ Disk(u)' = Disk(u)
  BY SparedIs
<1>2. IsDent(fh[u].idx, Disk(u), fh[u].fno, fh[u].ver)
  BY <1>1 DEF Meant
<1>. QED BY <1>1, <1>2 DEF IsDent

LEMMA StaysCorrupt ==
  ASSUME Safe, NEW u \in Threads, Spared(u), Corrupt(u),
         ASSUME User(u), ~Exclusive(fl[u]), LostName(Disk(u))
         PROVE  \A i \in Idxs : dents'[i].name = Disk(u) => files'[dents'[i].fno] = Lost,
         ASSUME Opened(u), ~Exclusive(fl[u]), Current(fh[u]), ~StillCurrent(fh[u])
         PROVE  \A i \in Idxs : dents'[i].name = Disk(u) => files'[dents'[i].fno] = Lost
  PROVE  Corrupt(u)'
<1>. SUFFICES ASSUME User(u)', ~Exclusive(fl[u])', Sick(u)'
              PROVE  LostName(Disk(u))'
  BY DEF Corrupt
<1>1. /\ User(u) /\ fl'[u] = fl[u] /\ Disk(u)' = Disk(u) /\ pc'[u] = pc[u]
      /\ Current(fh[u])' <=> StillCurrent(fh[u])
  BY SparedIs
<1>2. ~Exclusive(fl[u])
  BY <1>1 DEF Exclusive, Conflict, Clash
<1>3. pc[u] = "remove" \/ (pc[u] \in HasFile /\ ~StillCurrent(fh[u]))
  BY <1>1 DEF Sick
<1>4. \A i \in Idxs : dents'[i].name = Disk(u) => files'[dents'[i].fno] = Lost
  <2>1. CASE Sick(u)
    BY <1>1, <1>2, <2>1 DEF Corrupt
  <2>2. CASE ~Sick(u)
    BY <1>1, <1>2, <1>3, <2>2 DEF Sick, Opened
  <2>. QED BY <2>1, <2>2
<1>. QED BY <1>1, <1>4 DEF LostName

-----------------------------------------------------------------------------
(***************************************************************************)
(* Steps that leave the directory file as it is.                           *)
(***************************************************************************)
LEMMA SameDentsSound ==
  ASSUME Safe, Sound, NEW u \in Threads, Spared(u), dents' = dents, FilesTyped',
         \A g \in Fnos : Altered(g)
  PROVE  Meant(u)' /\ (Corrupt(u) => Corrupt(u)')
<1>1. Inv /\ Table /\ Base /\ Stock
  BY DEF Safe, Base
<1>2. ASSUME Opened(u), StillCurrent(fh[u]) PROVE Current(fh[u])
  BY <1>1, <1>2, SparedIs, OldCurrent
<1>3. Meant(u)'
  BY <1>2, StaysMeant DEF Sound
<1>4. ASSUME User(u), ~Exclusive(fl[u]), LostName(Disk(u)), NEW i \in Idxs,
             dents[i].name = Disk(u)
      PROVE  files'[dents[i].fno] = Lost
  <2> DEFINE g == dents[i].fno
  <2>1. files[g] = Lost /\ dents[i].name # None /\ g \in Fnos
    BY <1>1, <1>4, DiskIs DEF LostName, Stock, Backed
  <2>2. ~Nameless(g) /\ \A t \in Threads : ~Overwrites(t, g)
    BY <2>1, LostApart DEF Nameless, Overwrites
  <2>. QED BY <2>1, <2>2 DEF Altered, Untouched
<1>5. ASSUME Opened(u), ~Exclusive(fl[u]), Current(fh[u]), ~StillCurrent(fh[u]),
             NEW i \in Idxs, dents[i].name = Disk(u)
      PROVE  files'[dents[i].fno] = Lost
  <2> DEFINE g == fh[u].fno
  <2>1. User(u) /\ fh[u].idx \in Idxs /\ g \in Fnos /\ Disk(u) # None
    BY <1>5, SparedIs
  <2>2. IsDent(fh[u].idx, Disk(u), fh[u].fno, fh[u].ver)
    BY <1>5 DEF Sound, Meant
  <2>3. dents[fh[u].idx].name = Disk(u) /\ dents[fh[u].idx].fno = g
    BY <2>2 DEF IsDent
  <2>4. i = fh[u].idx
    BY <1>1, <1>5, <2>1, <2>3 DEF Stock, NamedOnce
  <2>5. ~Untouched(g) /\ ~Nameless(g)
    BY <1>5, <2>1, <2>3 DEF Untouched, Current, StillCurrent, Nameless
  <2>6. ASSUME NEW t \in Threads, Overwrites(t, g) PROVE FALSE
    <3>1. Opened(t) /\ Exclusive(fl[t]) /\ g = fh[t].fno /\ t # u
      BY <1>5, <2>6 DEF Overwrites
    <3>. QED BY <1>1, <2>1, <2>3, <3>1, OwnersFile
  <2>. QED BY <2>1, <2>3, <2>4, <2>5, <2>6 DEF Altered
<1>6. ASSUME Corrupt(u) PROVE Corrupt(u)'
  BY <1>4, <1>5, <1>6, StaysCorrupt
<1>. QED BY <1>3, <1>6

(***************************************************************************)
(* Steps that change it, and the others.                                   *)
(***************************************************************************)
LEMMA CreatesSound ==
  ASSUME Sane, NEW t \in Threads, NEW i, NEW f, CreatesFile(t, i, f),
         NEW u \in Threads, u # t
  PROVE  Meant(u)' /\ (use.faults => Corrupt(u)')
<1>1. /\ Inv /\ Table /\ Base /\ Stock /\ Safe /\ Sound /\ Tidy(use) /\ Spared(u)
      /\ FilesTyped' /\ Writable /\ Meant(u) /\ (use.faults => Corrupt(u))
  BY DEF Sane, Safe, Base, CreatesFile, Rest, Spared, Sound
<1>2. /\ User(t) /\ Disk(t) = NameOf(t) /\ (use.faults => Exclusive(fl[t]))
  BY DEF CreatesFile, Sane, Safe, Table, Calls, CallOf, User, Disk, Tidy, CreatesAlone
<1>3. /\ i \in Idxs /\ f \in Fnos /\ Nameless(f) /\ dents[i].name \in {Disk(t), None}
      /\ OnlyDent(i) /\ NewDent(i, Disk(t), f, NewVer) /\ files'[f] = File(NewVer)
      /\ ~use.faults /\ dents[i].name = Disk(t) => files'[dents[i].fno] = None
  <2>1. /\ i \in Idxs /\ f \in Fnos /\ Nameless(f) /\ dents[i].name \in {NameOf(t), None}
        /\ OnlyDent(i) /\ NewDent(i, NameOf(t), f, NewVer) /\ files'[f] = File(NewVer)
        /\ ~use.faults /\ dents[i].name = NameOf(t) => files'[dents[i].fno] = None
    BY DEF CreatesFile
  <2>. QED BY <1>2, <2>1
<1>4. \A g \in Fnos \ {f} :
        \/ Untouched(g)
        \/ files'[g] = None /\ dents[i].name = Disk(t) /\ g = dents[i].fno
  BY <1>2 DEF CreatesFile
<1>5. use.faults /\ User(u) => Disk(u) # Disk(t)
  BY <1>1, <1>2, Sharers
<1>6. ASSUME NEW j \in Idxs, j # i, dents[j].name # None
      PROVE  dents'[j] = dents[j] /\ Untouched(dents[j].fno)
  <2>1. dents[j].fno # f /\ dents[j].fno \in Fnos
    BY <1>1, <1>3, <1>6 DEF Nameless, Stock, Backed
  <2>2. dents[i].name = Disk(t) => dents[i].fno # dents[j].fno
    BY <1>1, <1>2, <1>3, <1>6, DiskIs DEF Inv, Numbered, Distinct
  <2>. QED BY <1>3, <1>4, <1>6, <2>1, <2>2 DEF OnlyDent
<1>7. ASSUME Opened(u), StillCurrent(fh[u])
      PROVE  Current(fh[u]) /\ dents'[fh[u].idx] = dents[fh[u].idx]
  <2>1. User(u) /\ fh[u].idx \in Idxs /\ fh[u].fno \in Fnos /\ Disk(u) # None /\ pc[u] \in HasFile
    BY <1>1, <1>7, SparedIs
  <2>2. Altered(fh[u].fno) \/ files'[fh[u].fno] = None
    BY <1>1, <1>3, <1>4, <2>1 DEF Altered
  <2>3. Current(fh[u])
    BY <1>1, <1>7, <2>1, <2>2, OldCurrent
  <2>4. IsDent(fh[u].idx, Disk(u), fh[u].fno, fh[u].ver)
    BY <1>1, <1>7, <2>3 DEF Meant
  <2>5. fh[u].idx # i
    <3>1. SUFFICES ASSUME fh[u].idx = i PROVE FALSE
      OBVIOUS
    <3>2. dents[i].name = Disk(u) /\ dents[i].fno = fh[u].fno
      BY <2>4, <3>1 DEF IsDent
    <3>3. Disk(u) = Disk(t) /\ ~use.faults
      BY <1>3, <1>5, <2>1, <3>2
    <3>4. files'[fh[u].fno] = None
      BY <1>3, <3>2, <3>3
    <3>. QED BY <1>7, <3>4 DEF StillCurrent
  <2>. QED BY <1>3, <2>1, <2>3, <2>5 DEF OnlyDent
<1>8. Meant(u)'
  BY <1>1, <1>7, StaysMeant
<1>9. ASSUME use.faults, User(u), NEW j \in Idxs, dents'[j].name = Disk(u)
      PROVE  j # i /\ dents'[j] = dents[j] /\ dents[j].name # None /\ Untouched(dents[j].fno)
  <2>1. j # i /\ Disk(u) # None
    BY <1>1, <1>3, <1>5, <1>9, DiskIs DEF NewDent
  <2>2. dents[j].name # None
    BY <1>3, <1>9, <2>1 DEF OnlyDent
  <2>. QED BY <1>6, <2>1, <2>2
<1>10. ASSUME use.faults, User(u), LostName(Disk(u)), NEW j \in Idxs, dents'[j].name = Disk(u)
       PROVE  files'[dents'[j].fno] = Lost
  BY <1>9, <1>10 DEF LostName, Untouched
<1>11. ASSUME use.faults, Opened(u), Current(fh[u]), ~StillCurrent(fh[u]) PROVE FALSE
  <2>1. User(u) /\ fh[u].idx \in Idxs /\ Disk(u) # None
    BY <1>1, <1>11, SparedIs
  <2>2. IsDent(fh[u].idx, Disk(u), fh[u].fno, fh[u].ver)
    BY <1>1, <1>11 DEF Meant
  <2>3. fh[u].idx # i
    BY <1>3, <1>5, <1>11, <2>1, <2>2 DEF IsDent
  <2>4. Untouched(fh[u].fno)
    BY <1>6, <2>1, <2>2, <2>3 DEF IsDent
  <2>. QED BY <1>11, <2>4, SameCurrent DEF StillCurrent
<1>12. use.faults => Corrupt(u)'
  BY <1>1, <1>10, <1>11, StaysCorrupt
<1>. QED BY <1>8, <1>12

LEMMA WritesSound ==
  ASSUME Sane, NEW t \in Threads, WritesFile(t), NEW u \in Threads, u # t
  PROVE  Meant(u)' /\ (use.faults => Corrupt(u)')
<1> DEFINE h == fh[t]
<1>1. /\ Inv /\ Table /\ Base /\ Stock /\ Safe /\ Sound /\ Spared(u)
      /\ FilesTyped' /\ Writable /\ Meant(u) /\ (use.faults => Corrupt(u))
  BY DEF Sane, Safe, Base, WritesFile, Rest, Spared, Sound
<1>2. /\ Opened(t) /\ Exclusive(fl[t]) /\ OnlyDent(h.idx) /\ User(t)
      /\ NewDent(h.idx, Disk(t), h.fno, NewVer)
      /\ \A g \in Fnos \ {h.fno} : Untouched(g)
      /\ (files[h.fno] = Lost /\ Untouched(h.fno)) \/ Overwrites(t, h.fno)
  BY DEF WritesFile, Opened
<1>3. ASSUME User(u), NEW j \in Idxs, dents[j].name = Disk(u)
      PROVE  j # h.idx /\ dents[j].fno # h.fno
  BY <1>1, <1>2, <1>3, OwnersFile
<1>4. ASSUME Opened(u), Current(fh[u])
      PROVE  Untouched(fh[u].fno) /\ dents'[fh[u].idx] = dents[fh[u].idx]
  <2>1. User(u) /\ fh[u].idx \in Idxs /\ fh[u].fno \in Fnos
    BY <1>1, <1>4, SparedIs
  <2>2. IsDent(fh[u].idx, Disk(u), fh[u].fno, fh[u].ver)
    BY <1>1, <1>4 DEF Meant
  <2>3. fh[u].idx # h.idx /\ fh[u].fno # h.fno
    BY <1>3, <2>1, <2>2 DEF IsDent
  <2>. QED BY <1>2, <2>1, <2>3 DEF OnlyDent
<1>5. ASSUME Opened(u), StillCurrent(fh[u]) PROVE Current(fh[u])
  <2>1. pc[u] \in HasFile /\ fh[u].fno \in Fnos
    BY <1>1, <1>5, SparedIs
  <2>2. CASE Untouched(fh[u].fno)
    BY <1>5, <2>2, SameCurrent DEF StillCurrent
  <2>3. CASE Overwrites(t, fh[u].fno)
    <3>1. fh[u].ver # NewVer /\ fh[u].slot \in 0 .. 1
      BY <1>1, <2>1, OpenedHas, NewVerFresh
    <3>. QED BY <1>1, <1>5, <2>1, <2>3, <3>1, OverwrittenCurrent
  <2>. QED BY <1>2, <2>1, <2>2, <2>3
<1>6. Meant(u)'
  BY <1>1, <1>4, <1>5, StaysMeant
<1>7. ASSUME User(u), LostName(Disk(u)), NEW j \in Idxs, dents'[j].name = Disk(u)
      PROVE  files'[dents'[j].fno] = Lost
  <2>1. Disk(u) # Disk(t) /\ Disk(u) # None
    BY <1>1, <1>2, <1>7, Sharers, DiskIs
  <2>2. j # h.idx
    BY <1>2, <1>7, <2>1 DEF NewDent
  <2>3. dents'[j] = dents[j] /\ dents[j].name = Disk(u)
    BY <1>2, <1>7, <2>2 DEF OnlyDent
  <2>4. dents[j].fno \in Fnos /\ dents[j].fno # h.fno
    BY <1>1, <1>3, <1>7, <2>1, <2>3 DEF Stock, Backed
  <2>. QED BY <1>2, <1>7, <2>3, <2>4 DEF LostName, Untouched
<1>8. ASSUME Opened(u), Current(fh[u]), ~StillCurrent(fh[u]) PROVE FALSE
  BY <1>4, <1>8, SameCurrent DEF StillCurrent
<1>9. use.faults => Corrupt(u)'
  BY <1>1, <1>7, <1>8, StaysCorrupt
<1>. QED BY <1>6, <1>9

LEMMA MovesSound ==
  ASSUME Sane, NEW t \in Threads, NEW m, MovesFile(t, m), NEW u \in Threads, u # t
  PROVE  Meant(u)' /\ (use.faults => Corrupt(u)')
<1> DEFINE h == fh[t]
<1>1. /\ Inv /\ Table /\ Base /\ Stock /\ Safe /\ Sound /\ Spared(u)
      /\ Meant(u) /\ (use.faults => Corrupt(u))
  BY DEF Sane, Safe, Base, MovesFile, Rest, Spared, Sound
<1>2. /\ Opened(t) /\ Exclusive(fl[t]) /\ OnlyDent(h.idx) /\ User(t) /\ files' = files
      /\ NewDent(h.idx, m, h.fno, h.ver) /\ pc[t] = "rename" /\ m = arg[t].name
  BY DEF MovesFile, Opened
<1>3. ASSUME Opened(u), Current(fh[u])
      PROVE  dents'[fh[u].idx] = dents[fh[u].idx]
  <2>1. User(u) /\ fh[u].idx \in Idxs
    BY <1>1, <1>3, SparedIs
  <2>2. IsDent(fh[u].idx, Disk(u), fh[u].fno, fh[u].ver)
    BY <1>1, <1>3 DEF Meant
  <2>3. fh[u].idx # h.idx
    BY <1>1, <1>2, <2>1, <2>2, OwnersFile DEF IsDent
  <2>. QED BY <1>2, <2>1, <2>3 DEF OnlyDent
<1>4. StillCurrent(fh[u]) <=> Current(fh[u])
  BY <1>2 DEF StillCurrent, Current
<1>5. Meant(u)'
  BY <1>1, <1>3, <1>4, StaysMeant
<1>6. ASSUME User(u), LostName(Disk(u)), NEW j \in Idxs, dents'[j].name = Disk(u)
      PROVE  files'[dents'[j].fno] = Lost
  <2>1. Disk(u) # m
    BY <1>1, <1>2, <1>6, DiskApart
  <2>2. j # h.idx
    BY <1>2, <1>6, <2>1 DEF NewDent
  <2>3. dents'[j] = dents[j]
    BY <1>2, <2>2 DEF OnlyDent
  <2>. QED BY <1>2, <1>6, <2>3 DEF LostName
<1>7. use.faults => Corrupt(u)'
  BY <1>1, <1>4, <1>6, StaysCorrupt
<1>. QED BY <1>5, <1>7

LEMMA RemovesSound ==
  ASSUME Sane, NEW t \in Threads, NEW i, RemovesFile(t, i), NEW u \in Threads, u # t
  PROVE  Meant(u)' /\ (use.faults => Corrupt(u)')
<1>1. /\ Inv /\ Table /\ Base /\ Stock /\ Safe /\ Sound /\ Spared(u) /\ FilesTyped'
      /\ Meant(u) /\ (use.faults => Corrupt(u) /\ Corrupt(t))
  BY DEF Sane, Safe, Base, RemovesFile, Rest, Spared, Sound
<1>2. /\ User(t) /\ pc[t] = "remove" /\ Disk(t) = NameOf(t) /\ Disk(t) # None
      /\ i \in Idxs /\ dents[i].name = Disk(t) /\ OnlyDent(i) /\ dents'[i].name = None
      /\ \A g \in Fnos : Untouched(g) \/ (files'[g] = None /\ g = dents[i].fno)
      /\ ~use.faults => files'[dents[i].fno] = None
  BY <1>1, DiskIs DEF RemovesFile, Disk
<1>3. ASSUME Opened(u), Current(fh[u]), fh[u].fno = dents[i].fno
      PROVE  ~use.faults
  <2>1. User(u) /\ fh[u].idx \in Idxs /\ Disk(u) # None
    BY <1>1, <1>3, SparedIs
  <2>2. IsDent(fh[u].idx, Disk(u), fh[u].fno, fh[u].ver)
    BY <1>1, <1>3 DEF Meant
  <2>3. fh[u].idx = i
    BY <1>1, <1>2, <1>3, <2>1, <2>2 DEF IsDent, Inv, Numbered, Distinct
  <2>4. Disk(u) = Disk(t)
    BY <1>2, <2>2, <2>3 DEF IsDent
  <2>5. ~Exclusive(fl[t])
    BY <1>1, <1>2, <2>1, <2>4, Sharers
  <2>6. use.faults => files[dents[i].fno] = Lost
    BY <1>1, <1>2, <2>5 DEF Corrupt, Sick, LostName
  <2>. QED BY <1>3, <2>6 DEF Current
<1>4. ASSUME Opened(u), StillCurrent(fh[u])
      PROVE  Current(fh[u]) /\ dents'[fh[u].idx] = dents[fh[u].idx]
  <2>1. User(u) /\ fh[u].idx \in Idxs /\ fh[u].fno \in Fnos /\ pc[u] \in HasFile
    BY <1>1, <1>4, SparedIs
  <2>2. Altered(fh[u].fno) \/ files'[fh[u].fno] = None
    BY <1>2, <2>1 DEF Altered
  <2>3. Current(fh[u])
    BY <1>1, <1>4, <2>1, <2>2, OldCurrent
  <2>4. IsDent(fh[u].idx, Disk(u), fh[u].fno, fh[u].ver)
    BY <1>1, <1>4, <2>3 DEF Meant
  <2>5. fh[u].fno # dents[i].fno
    BY <1>2, <1>3, <1>4, <2>3 DEF StillCurrent
  <2>6. fh[u].idx # i
    BY <2>4, <2>5 DEF IsDent
  <2>. QED BY <1>2, <2>1, <2>3, <2>6 DEF OnlyDent
<1>5. Meant(u)'
  BY <1>1, <1>4, StaysMeant
<1>6. ASSUME User(u), LostName(Disk(u)), NEW j \in Idxs, dents'[j].name = Disk(u)
      PROVE  files'[dents'[j].fno] = Lost
  <2>1. Disk(u) # None
    BY <1>1, <1>6, DiskIs
  <2>2. j # i
    BY <1>2, <1>6, <2>1
  <2>3. dents'[j] = dents[j] /\ dents[j].name # None
    BY <1>2, <1>6, <2>1, <2>2 DEF OnlyDent
  <2>4. dents[j].fno \in Fnos /\ dents[j].fno # dents[i].fno
    BY <1>1, <1>2, <2>2, <2>3 DEF Stock, Backed, Inv, Numbered, Distinct
  <2>. QED BY <1>2, <1>6, <2>3, <2>4 DEF LostName, Untouched
<1>7. ASSUME use.faults, Opened(u), Current(fh[u]), ~StillCurrent(fh[u]) PROVE FALSE
  <2>1. fh[u].fno \in Fnos /\ fh[u].fno # dents[i].fno
    BY <1>1, <1>3, <1>7, SparedIs
  <2>2. Untouched(fh[u].fno)
    BY <1>2, <2>1
  <2>. QED BY <1>7, <2>2, SameCurrent DEF StillCurrent
<1>8. use.faults => Corrupt(u)'
  BY <1>1, <1>6, <1>7, StaysCorrupt
<1>. QED BY <1>5, <1>8

LEMMA OthersSound ==
  ASSUME Sane, NEW t \in Threads, Rest(t), Effect(t), NEW u \in Threads, u # t
  PROVE  Meant(u)' /\ (use.faults => Corrupt(u)')
<1>1. Safe /\ Sound /\ Spared(u) /\ FilesTyped /\ (use.faults => Corrupt(u))
  BY DEF Sane, Safe, Base, Stock, FilesTyped, Rest, Spared, Sound
<1>2. ASSUME dents' = dents, FilesTyped', \A g \in Fnos : Altered(g)
      PROVE  Meant(u)' /\ (use.faults => Corrupt(u)')
  BY <1>1, <1>2, SameDentsSound
<1>3. ASSUME dents' = dents, files' = files
      PROVE  Meant(u)' /\ (use.faults => Corrupt(u)')
  BY <1>1, <1>2, <1>3 DEF FilesTyped, Altered, Untouched
<1>4. CASE Quiet(t) \/ Spoils(t) \/ \E i \in Idxs : OpensFile(t, i)
  BY <1>2, <1>3, <1>4 DEF Quiet, Spoils, OpensFile
<1>. QED BY <1>4, WritesSound, RemovesSound, CreatesSound, MovesSound DEF Effect

(***************************************************************************)
(* The thread that takes the step.                                         *)
(***************************************************************************)
LEMMA OwnMeant ==
  ASSUME Sane, Base', NEW t \in Threads, Effect(t)
  PROVE  Meant(t)'
<1>. SUFFICES ASSUME Opened(t)', Current(fh[t])'
              PROVE  IsDent(fh[t].idx, Disk(t), fh[t].fno, fh[t].ver)'
  BY DEF Meant
<1>1. CASE Exclusive(fl'[t])
  BY <1>1 DEF Base, OwnedBy
<1>2. CASE Quiet(t)
  <2>1. /\ dents' = dents /\ files' = files /\ Opened(t) /\ fh'[t] = fh[t] /\ Disk(t)' = Disk(t)
    BY <1>2 DEF Quiet, Stays
  <2>2. Current(fh[t])
    BY <2>1 DEF Current
  <2>3. IsDent(fh[t].idx, Disk(t), fh[t].fno, fh[t].ver)
    BY <2>1, <2>2 DEF Sane, Sound, Meant
  <2>. QED BY <2>1, <2>3 DEF IsDent
<1>3. CASE Spoils(t) \/ \E i \in Idxs : RemovesFile(t, i)
  BY <1>3 DEF Spoils, RemovesFile
<1>4. CASE WritesFile(t) \/ \E m \in Names : MovesFile(t, m)
  BY <1>1, <1>4 DEF WritesFile, MovesFile
<1>5. ASSUME NEW i \in Idxs, OpensFile(t, i)
      PROVE  IsDent(fh[t].idx, Disk(t), fh[t].fno, fh[t].ver)'
  BY <1>5 DEF OpensFile, Holds, IsDent
<1>6. ASSUME NEW i \in Idxs, NEW f \in Fnos, CreatesFile(t, i, f)
      PROVE  IsDent(fh[t].idx, Disk(t), fh[t].fno, fh[t].ver)'
  <2>1. /\ fh'[t].idx = i /\ fh'[t].fno = f /\ fh'[t].ver = NewVer
        /\ Disk(t)' = NameOf(t) /\ NewDent(i, NameOf(t), f, NewVer)
    BY <1>6 DEF CreatesFile, Holds
  <2>. QED BY <2>1 DEF NewDent, IsDent
<1>. QED BY <1>2, <1>3, <1>4, <1>5, <1>6 DEF Effect

(***************************************************************************)
(* How a shared handle comes to remove its object: its file could not be   *)
(* read before, or an open finds it lost.                                  *)
(***************************************************************************)
Ailing(t) ==
  /\ dents' = dents /\ files' = files /\ User(t) /\ Disk(t)' = Disk(t)
  /\ (~Exclusive(fl[t]) /\ Sick(t)) \/ LostName(Disk(t))

LEMMA OpenAiling ==
  ASSUME Sane, NEW t \in Threads, OpenFile(t), User(t)', Sick(t)'
  PROVE  Ailing(t)
<1>1. /\ pc[t] \in {"open", "enum"} /\ pc \in [Threads -> Places] /\ Dirh.dents = dents
      /\ fh \in [Threads -> {None} \cup Handle] /\ Stock /\ Inv
      /\ UNCHANGED <<use, pobjs, arg, po, to, fl>>
  BY DirhIs DEF OpenFile, Sane, Safe, Inv, Shape, Base
<1>2. User(t) /\ pc[t] = "open" /\ Disk(t) = NameOf(t) /\ NameOf(t) # None
  <2>1. User(t)
    BY <1>1 DEF User
  <2>2. pc[t] = "open"
    BY <1>1, <2>1 DEF User, Sane, Safe, Table, Calls, CallOf
  <2>. QED BY <2>1, <2>2, DiskIs DEF Disk, Sane, Safe
<1>3. ASSUME pc' = [pc EXCEPT ![t] = "close"] PROVE FALSE
  BY <1>1, <1>3 DEF Sick, HasFile, Renaming
<1>4. ASSUME NEW i \in Find(Dirh, NameOf(t)), UNCHANGED <<dents, files>>,
             Readable(Dirh.dents[i].fno, Dirh.dents[i].hash), Goto(t, "head"),
             fh' = [fh EXCEPT ![t] =
                      [idx |-> i, fno |-> Dirh.dents[i].fno, ver |-> Dirh.dents[i].hash,
                       slot |-> SlotOf(Dirh.dents[i].fno, Dirh.dents[i].hash)]]
      PROVE  FALSE
  <2>1. /\ fh'[t].fno = dents[i].fno /\ fh'[t].ver = dents[i].hash
        /\ fh'[t].slot = SlotOf(dents[i].fno, dents[i].hash)
        /\ pc'[t] = "head"
    BY <1>1, <1>4 DEF Goto
  <2>2. Current(fh[t])'
    BY <1>1, <1>4, <2>1, SlotIs DEF Current
  <2>. QED BY <2>1, <2>2 DEF Sick
<1>5. ASSUME NEW i \in Find(Dirh, NameOf(t)), UNCHANGED <<dents, files>>,
             ~Readable(Dirh.dents[i].fno, Dirh.dents[i].hash), Goto(t, "remove")
      PROVE  Ailing(t)
  <2>1. i \in Idxs /\ dents[i].name = NameOf(t)
    BY <1>1, <1>5 DEF Find
  <2>2. files[dents[i].fno] = Lost
    BY <1>1, <1>2, <1>5, <2>1 DEF Stock, Backed
  <2>3. LostName(Disk(t))
    BY <1>1, <1>2, <2>1, <2>2 DEF Stock, NamedOnce, LostName
  <2>4. Disk(t)' = Disk(t)
    BY <1>1, <1>2, <1>5 DEF Disk, NameOf, Goto
  <2>. QED BY <1>2, <1>5, <2>3, <2>4 DEF Ailing
<1>. QED BY <1>2, <1>3, <1>4, <1>5 DEF OpenFile, Goto, Sane, Tidy

LEMMA ReadAiling ==
  ASSUME Sane, NEW t \in Threads, ReadHead(t) \/ ObjRead(t) \/ CreateFinal(t),
         User(t)', ~Exclusive(fl'[t]), Sick(t)'
  PROVE  Ailing(t)
<1>1. /\ pc \in [Threads -> Places] /\ pobjs \in [Pobjs -> Pobj] /\ Inv
      /\ dents' = dents /\ files' = files /\ fh' = fh /\ fl' = fl /\ po' = po /\ arg' = arg
      /\ pc[t] \in {"head", "have", "final"}
      /\ pc'[t] \in {"have", "remove", "close"} /\ ~use.misread
      /\ pc'[t] = "have" \/ pc'[t] = "remove" => pc[t] = "final" \/ (pc'[t] = "have" <=> Current(fh[t]))
      /\ pc[t] = "final" => pc'[t] # "remove"
  BY DEF ReadHead, ObjRead, CreateFinal, Answer, Goto, Sane, Tidy, Safe, Inv, Shape,
     fsvars, thvars
<1>2. Current(fh[t])' <=> Current(fh[t])
  BY <1>1 DEF Current
<1>3. User(t)
  BY <1>1 DEF User
<1>4. ~Exclusive(fl[t]) /\ pc[t] \in HasFile
  BY <1>1 DEF HasFile
<1>5. ~Current(fh[t])
  BY <1>1, <1>2 DEF Sick, HasFile, Renaming
<1>6. Disk(t)' = Disk(t)
  <2>1. pobjs'[po[t]].name = pobjs[po[t]].name
    <3>1. po[t] \in Pobjs
      BY <1>1, HasEntry DEF NoEntry
    <3>2. \/ pobjs' = pobjs
          \/ pobjs' = [pobjs EXCEPT ![po[t]].creating = FALSE]
      BY DEF ReadHead, ObjRead, CreateFinal
    <3>. QED BY <1>1, <3>1, <3>2 DEF Pobj
  <2>. QED BY <1>1, <2>1 DEF Disk, NameOf
<1>. QED BY <1>1, <1>3, <1>4, <1>5, <1>6 DEF Ailing, Sick

LEMMA MetaExclusive == \A f : "meta" \in f => Exclusive(f)
BY DEF Exclusive, Conflict

LEMMA WriterExclusive ==
  ASSUME Safe, NEW t \in Threads, pc[t] = "have", "w" \in fl[t]
  PROVE  Exclusive(fl[t])
<1>1. User(t)
  BY DEF Safe, Table, Calls, CallOf, User, Inv, Shape, Arg
<1>2. fl[t] \in use.opens \cup use.creates
  BY <1>1 DEF User, Safe, Table, Calls, CallOf
<1>. QED BY <1>2 DEF Safe, Careful, Exclusive, Conflict, Clash

LEMMA StepAiling ==
  ASSUME Sane, NEW t \in Threads, Step(t), use.faults,
         User(t)', ~Exclusive(fl'[t]), Sick(t)'
  PROVE  Ailing(t)
<1>1. /\ pc \in [Threads -> Places] /\ Inv /\ Safe
  BY DEF Sane, Safe, Inv, Shape
<1>2. CASE OpenFile(t)
  BY <1>2, OpenAiling
<1>3. CASE ReadHead(t) \/ ObjRead(t) \/ CreateFinal(t)
  BY <1>3, ReadAiling
<1>4. CASE ObjDel(t)
  BY <1>4, MetaExclusive DEF ObjDel, thvars
<1>5. CASE \/ ObjOpen(t) \/ ObjCreate(t) \/ ObjClose(t) \/ CloseFile(t)
           \/ Release(t) \/ StartEnum(t) \/ NextEnum(t) \/ EnumGet(t) \/ EndEnum(t)
  <2>1. pc'[t] \notin HasFile
    BY <1>1, <1>5, LeavesFile
  <2>2. pc'[t] # "remove"
    BY <1>1, <1>5 DEF ObjOpen, ObjCreate, ObjClose, CloseFile, Release, StartEnum, NextEnum,
       EnumGet, EndEnum, Begin, Goto
  <2>. QED BY <2>1, <2>2 DEF Sick
<1>6. CASE CreateFile(t)
  <2>1. pc[t] = "create" /\ fl' = fl
    BY <1>6 DEF CreateFile
  <2>2. fl[t] \in use.creates
    BY <2>1 DEF Sane, Safe, Table, Calls, CallOf
  <2>. QED BY <2>1, <2>2 DEF Sane, Tidy, CreatesAlone
<1>7. CASE ObjWrite(t)
  <2>1. pc[t] = "have" /\ "w" \in fl[t] /\ fl' = fl
    BY <1>7 DEF ObjWrite
  <2>. QED BY <1>1, <2>1, WriterExclusive
<1>8. CASE ObjRename(t) \/ RenameFile(t) \/ RenamePobj(t) \/ Renamed(t)
  <2>1. fl' = fl /\ (pc[t] \in Renaming \/ "meta" \in fl[t])
    BY <1>8 DEF ObjRename, RenameFile, RenamePobj, Renamed, Renaming, thvars
  <2>2. "meta" \in fl[t]
    BY <2>1 DEF Sane, Safe, Table, Calls, CallOf
  <2>. QED BY <2>1, <2>2, MetaExclusive
<1>9. CASE RemoveFile(t)
  <2>1. pc'[t] = "close"
    BY <1>1, <1>9 DEF RemoveFile, Goto
  <2>. QED BY <2>1 DEF Sick, HasFile, Renaming
<1>. QED BY <1>2, <1>3, <1>4, <1>5, <1>6, <1>7, <1>8, <1>9 DEF Step

LEMMA OwnCorrupt ==
  ASSUME Sane, NEW t \in Threads, Step(t), use.faults
  PROVE  Corrupt(t)'
<1>. SUFFICES ASSUME User(t)', ~Exclusive(fl[t])', Sick(t)' PROVE LostName(Disk(t))'
  BY DEF Corrupt
<1>1. ~Exclusive(fl'[t])
  BY DEF Exclusive, Conflict, Clash
<1>2. Ailing(t)
  BY <1>1, StepAiling
<1>3. LostName(Disk(t))
  BY <1>2 DEF Ailing, Sane, Sound, Corrupt
<1>. QED BY <1>2, <1>3 DEF Ailing, LostName

LEMMA NextSound == Sane /\ Safe' /\ use' = use /\ [Next]_vars => Sound'
<1>. SUFFICES ASSUME Sane, Safe', use' = use, [Next]_vars PROVE Sound'
  OBVIOUS
<1>0. /\ Inv /\ Table /\ Base /\ Careful(use) /\ Inv' /\ Base' /\ Safe /\ Sound /\ FilesTyped
      /\ \A u \in Threads : use.faults => Corrupt(u)
  BY DEF Sane, Safe, Sound, Base, Stock, FilesTyped
<1>1. CASE Stop
  <2>1. \A u \in Threads : ~User(u)' /\ ~Opened(u)'
    BY <1>1 DEF Stop, Opened, User, NoArg
  <2>. QED BY <2>1 DEF Sound, Meant, Corrupt
<1>2. ASSUME UNCHANGED <<dents, pobjs, pc, thvars>>, FilesTyped',
             \A g \in Fnos : Untouched(g) \/ files'[g] = Lost
      PROVE  Sound'
  <2>1. \A g \in Fnos : Altered(g)
    BY <1>2 DEF Altered
  <2>2. \A u \in Threads : Spared(u)
    BY <1>2 DEF thvars, Spared, Kept, User, Same, SameName, NameOf
  <2>3. \A u \in Threads : Meant(u)' /\ (Corrupt(u) => Corrupt(u)')
    BY <1>0, <1>2, <2>1, <2>2, SameDentsSound
  <2>. QED BY <1>0, <2>3 DEF Sound
<1>3. CASE Lose
  <2>1. PICK f \in Fnos : files' = [files EXCEPT ![f] = Lost]
    BY <1>3 DEF Lose
  <2>2. FilesTyped' /\ \A g \in Fnos : Untouched(g) \/ files'[g] = Lost
    BY <1>0, <2>1 DEF FilesTyped, Untouched
  <2>. QED BY <1>2, <1>3, <2>2 DEF Lose
<1>4. CASE UNCHANGED vars
  <2>1. FilesTyped' /\ \A g \in Fnos : Untouched(g)
    BY <1>0, <1>4 DEF FilesTyped, Untouched, vars, fsvars
  <2>. QED BY <1>2, <1>4, <2>1 DEF vars, fsvars
<1>5. ASSUME NEW t \in Threads, Step(t) PROVE Sound'
  <2>1. Rest(t) /\ Effect(t)
    BY <1>0, <1>5, StepEffect
  <2>2. Meant(t)' /\ (use.faults => Corrupt(t)')
    BY <1>0, <1>5, <2>1, OwnMeant, OwnCorrupt
  <2>3. \A u \in Threads : u # t => Meant(u)' /\ (use.faults => Corrupt(u)')
    BY <2>1, OthersSound
  <2>. QED BY <2>2, <2>3 DEF Sound
<1>. QED BY <1>1, <1>3, <1>4, <1>5 DEF Next

LEMMA SaneHolds == Spec /\ Careful(use) /\ Tidy(use) => []Sane
<1>1. Init => Sound
  BY DEF Init, Sound, Meant, Corrupt, Opened, User, NoArg
<1>2. Sane /\ Safe' /\ [Next]_vars => Sound' /\ Tidy(use)'
  <2>. SUFFICES ASSUME Sane, Safe', [Next]_vars PROVE Sound' /\ Tidy(use)'
    OBVIOUS
  <2>1. use' = use
    BY UseKept DEF Sane, Safe
  <2>2. Sound'
    BY <2>1, NextSound
  <2>3. Tidy(use)'
    BY <2>1 DEF Sane, Tidy, CreatesAlone
  <2>. QED BY <2>2, <2>3
<1>3. Sane <=> Safe /\ Tidy(use) /\ Sound
  BY DEF Sane
<1>. QED BY <1>1, <1>2, <1>3, SafeHolds, PTL DEF Spec

(***************************************************************************)
(* What a handle reads is its object, and what it writes is its entry,     *)
(* whatever the other instances do and whatever fails before it took       *)
(* effect.                                                                 *)
(***************************************************************************)
THEOREM HandlesMean == Spec /\ Careful(use) /\ Tidy(use) => []HandleIsObject
<1>1. Sane => HandleIsObject
  <2>. SUFFICES ASSUME Sane, NEW t \in Threads, pc[t] = "have"
                PROVE  /\ Current(fh[t]) => dents[fh[t].idx] = [name |-> NameOf(t),
                                               fno |-> fh[t].fno, hash |-> fh[t].ver]
                       /\ "w" \in fl[t] => SameFile(t)
    BY DEF HandleIsObject
  <2>1. Opened(t) /\ Disk(t) = NameOf(t) /\ Safe /\ Inv /\ Base
    BY DEF Opened, Disk, HasFile, User, Sane, Safe, Table, Calls, CallOf, Inv, Shape, Arg
  <2>2. fh[t].idx \in Idxs /\ dents \in [Idxs -> Dent] /\ Dirh.dents = dents
    BY <2>1, OpenedHas, DirhIs DEF Opened, Base, Inv, Shape
  <2>3. ASSUME Current(fh[t])
        PROVE  dents[fh[t].idx] = [name |-> NameOf(t), fno |-> fh[t].fno, hash |-> fh[t].ver]
    <3>1. IsDent(fh[t].idx, NameOf(t), fh[t].fno, fh[t].ver)
      BY <2>1, <2>3 DEF Sane, Sound, Meant
    <3>2. dents[fh[t].idx] \in Dent
      BY <2>2
    <3>. QED BY <3>1, <3>2 DEF IsDent, Dent
  <2>4. ASSUME "w" \in fl[t] PROVE SameFile(t)
    <3>1. Exclusive(fl[t])
      BY <2>1, <2>4, WriterExclusive
    <3>. QED BY <2>1, <2>2, <3>1 DEF Base, OwnedBy, IsDent, SameFile
  <2>. QED BY <2>3, <2>4
<1>. QED BY <1>1, SaneHolds, PTL

-----------------------------------------------------------------------------
(***************************************************************************)
(* Storage that works, for a TA that creates objects for itself alone:     *)
(* every handle can read its file, and only what is there is removed, by   *)
(* those who may.                                                          *)
(***************************************************************************)
Reliable(u) == ~u.faults /\ ~u.misread /\ CreatesAlone(u)

LossFree == \A f \in Fnos : files[f] # Lost

Reads(t) == Opened(t) => Current(fh[t])

Present(n) == \E i \in Idxs : dents[i].name = n

Deletes(t) == pc[t] = "remove" => "meta" \in fl[t] /\ Present(NameOf(t))

Works == LossFree /\ \A t \in Threads : Reads(t) /\ Deletes(t)

Intact == Sane /\ Reliable(use) /\ Works

(***************************************************************************)
(* What changes the directory file is the work of a thread that shares its *)
(* object with nobody, on its own entry.                                   *)
(***************************************************************************)
Touches(t, i) ==
  /\ User(t) /\ Exclusive(fl[t]) /\ Rest(t)
  /\ i \in Idxs /\ OnlyDent(i) /\ dents[i].name \in {Disk(t), None}
  /\ \A g \in Fnos :
       Untouched(g) \/ Nameless(g) \/ (g = dents[i].fno /\ dents[i].name = Disk(t))
  /\ LossFree'

LEMMA CreatesTouch ==
  ASSUME Intact, NEW t \in Threads, NEW i, NEW f, CreatesFile(t, i, f)
  PROVE  Touches(t, i)
<1>1. /\ User(t) /\ Disk(t) = NameOf(t) /\ Exclusive(fl[t]) /\ Stock /\ Writable
  BY DEF CreatesFile, Intact, Reliable, CreatesAlone, Sane, Safe, Table, Calls, CallOf,
     User, Disk, Base
<1>2. /\ i \in Idxs /\ f \in Fnos /\ Nameless(f) /\ dents[i].name \in {NameOf(t), None}
      /\ OnlyDent(i) /\ files'[f] = File(NewVer) /\ Rest(t)
  BY DEF CreatesFile
<1>3. \A g \in Fnos \ {f} :
        \/ Untouched(g)
        \/ files'[g] = None /\ dents[i].name = NameOf(t) /\ g = dents[i].fno
  BY DEF CreatesFile
<1>4. File(NewVer) # Lost
  BY <1>1, NewVerFresh, LostApart
<1>5. LossFree'
  <2>1. ASSUME NEW g \in Fnos PROVE files'[g] # Lost
    <3>1. files[g] # Lost
      BY DEF Intact, Works, LossFree
    <3>. QED BY <1>2, <1>3, <1>4, <3>1, LostApart DEF Untouched
  <2>. QED BY <2>1 DEF LossFree
<1>6. \A g \in Fnos :
       Untouched(g) \/ Nameless(g) \/ (g = dents[i].fno /\ dents[i].name = Disk(t))
  BY <1>1, <1>2, <1>3
<1>. QED BY <1>1, <1>2, <1>5, <1>6 DEF Touches

LEMMA WritesTouch ==
  ASSUME Intact, NEW t \in Threads, WritesFile(t)
  PROVE  Touches(t, fh[t].idx)
<1> DEFINE h == fh[t]
<1>1. /\ Opened(t) /\ User(t) /\ Exclusive(fl[t]) /\ OnlyDent(h.idx) /\ Rest(t) /\ Writable
      /\ \A g \in Fnos \ {h.fno} : Untouched(g)
      /\ (files[h.fno] = Lost /\ Untouched(h.fno)) \/ Overwrites(t, h.fno)
  BY DEF WritesFile, Opened
<1>2. /\ Stock /\ LossFree /\ h.fno \in Fnos /\ h.idx \in Idxs /\ h.slot \in 0 .. 1
      /\ NewVer \in Vers
  BY <1>1, OpenedHas, NewVerFresh DEF Opened, Intact, Works, Sane, Safe, Base
<1>3. IsDent(h.idx, Disk(t), h.fno, h.ver)
  BY <1>1 DEF Intact, Sane, Safe, Base, OwnedBy
<1>4. dents[h.idx].name = Disk(t) /\ dents[h.idx].fno = h.fno
  BY <1>3 DEF IsDent
<1>5. files'[h.fno] # Lost
  <2>1. Overwrites(t, h.fno)
    BY <1>1, <1>2 DEF LossFree
  <2>2. files[h.fno] \in Pairs /\ files'[h.fno] = [files[h.fno] EXCEPT ![1 - h.slot] = NewVer]
    BY <2>1 DEF Overwrites
  <2>3. 1 - h.slot \in 0 .. 1
    BY <1>2
  <2>. QED BY <1>2, <2>2, <2>3, LostApart
<1>6. LossFree'
  BY <1>1, <1>2, <1>5 DEF LossFree, Untouched
<1>. QED BY <1>1, <1>2, <1>4, <1>6 DEF Touches

LEMMA MovesTouch ==
  ASSUME Intact, NEW t \in Threads, NEW m, MovesFile(t, m)
  PROVE  Touches(t, fh[t].idx)
<1>1. /\ Opened(t) /\ User(t) /\ Exclusive(fl[t]) /\ OnlyDent(fh[t].idx) /\ Rest(t)
      /\ files' = files
  BY DEF MovesFile, Opened
<1>2. fh[t].idx \in Idxs /\ LossFree
  BY <1>1, OpenedHas DEF Opened, Intact, Works, Sane, Safe, Base
<1>3. IsDent(fh[t].idx, Disk(t), fh[t].fno, fh[t].ver)
  BY <1>1 DEF Intact, Sane, Safe, Base, OwnedBy
<1>. QED BY <1>1, <1>2, <1>3 DEF Touches, IsDent, Untouched, LossFree

LEMMA RemovesTouch ==
  ASSUME Intact, NEW t \in Threads, NEW i, RemovesFile(t, i)
  PROVE  Touches(t, i)
<1>1. /\ User(t) /\ pc[t] = "remove" /\ Disk(t) = NameOf(t) /\ Rest(t)
      /\ i \in Idxs /\ dents[i].name = Disk(t) /\ OnlyDent(i)
      /\ \A g \in Fnos : Untouched(g) \/ (files'[g] = None /\ g = dents[i].fno)
  BY DEF RemovesFile, Disk
<1>2. Exclusive(fl[t]) /\ LossFree
  BY <1>1, MetaExclusive DEF Intact, Works, Deletes
<1>3. LossFree'
  BY <1>1, <1>2, LostApart DEF LossFree, Untouched
<1>. QED BY <1>1, <1>2, <1>3 DEF Touches

LEMMA TouchedWork ==
  ASSUME Intact, Safe', NEW t \in Threads, NEW i, Touches(t, i), NEW u \in Threads, u # t
  PROVE  Reads(u)' /\ Deletes(u)'
<1>1. /\ Inv /\ Table /\ Base /\ Stock /\ Safe /\ Spared(u) /\ Reads(u) /\ Deletes(u)
      /\ Sound
  BY DEF Intact, Works, Sane, Safe, Base, Touches, Rest, Spared
<1>2. ASSUME User(u), NEW j \in Idxs, dents[j].name = Disk(u)
      PROVE  dents'[j] = dents[j] /\ Untouched(dents[j].fno)
  <2>1. Disk(u) # Disk(t) /\ Disk(u) # None /\ Disk(t) # None
    BY <1>1, <1>2, Sharers, DiskIs DEF Touches
  <2>2. j # i
    BY <1>2, <2>1 DEF Touches
  <2>3. dents[j].fno \in Fnos /\ ~Nameless(dents[j].fno)
    BY <1>1, <1>2, <2>1 DEF Stock, Backed, Nameless
  <2>4. dents[i].name = Disk(t) => dents[j].fno # dents[i].fno
    BY <1>1, <1>2, <2>1, <2>2 DEF Touches, Inv, Numbered, Distinct
  <2>. QED BY <2>2, <2>3, <2>4 DEF Touches, OnlyDent
<1>3. Reads(u)'
  <2>1. SUFFICES ASSUME Opened(u)' PROVE Current(fh[u])'
    BY DEF Reads
  <2>2. Opened(u) /\ User(u) /\ fh[u].idx \in Idxs /\ Current(fh[u])
    BY <1>1, <2>1, SparedIs DEF Reads
  <2>3. IsDent(fh[u].idx, Disk(u), fh[u].fno, fh[u].ver)
    BY <1>1, <2>2 DEF Sound, Meant
  <2>4. Untouched(fh[u].fno)
    BY <1>2, <2>2, <2>3 DEF IsDent
  <2>5. StillCurrent(fh[u])
    BY <2>2, <2>4, SameCurrent DEF StillCurrent
  <2>. QED BY <1>1, <2>5, SparedIs
<1>4. Deletes(u)'
  <2>1. SUFFICES ASSUME pc'[u] = "remove" PROVE "meta" \in fl'[u] /\ Present(NameOf(u))'
    BY DEF Deletes
  <2>2. User(u) /\ pc[u] = "remove" /\ fl'[u] = fl[u] /\ Disk(u)' = Disk(u)
    <3>1. User(u)'
      BY <2>1 DEF Safe, Table, Calls, CallOf, User, Inv, Shape, Arg
    <3>. QED BY <1>1, <2>1, <3>1, SparedIs
  <2>3. Disk(u) = NameOf(u) /\ NameOf(u)' = NameOf(u)
    BY <2>1, <2>2 DEF Disk
  <2>4. "meta" \in fl[u] /\ Present(Disk(u))
    BY <1>1, <2>2, <2>3 DEF Deletes
  <2>5. PICK j \in Idxs : dents[j].name = Disk(u)
    BY <2>4 DEF Present
  <2>6. dents'[j].name = NameOf(u)
    BY <1>2, <2>2, <2>3, <2>5
  <2>. QED BY <2>2, <2>3, <2>4, <2>6 DEF Present
<1>. QED BY <1>3, <1>4

LEMMA UntouchedWork ==
  ASSUME Intact, Safe', NEW u \in Threads, Spared(u), dents' = dents,
         \A g \in Fnos : Altered(g) /\ (files'[g] = Lost => files[g] = Lost)
  PROVE  Reads(u)' /\ Deletes(u)'
<1>1. /\ Inv /\ Table /\ Base /\ Safe /\ Sound /\ Reads(u) /\ Deletes(u) /\ LossFree
  BY DEF Intact, Works, Sane, Safe
<1>2. Reads(u)'
  <2>1. SUFFICES ASSUME Opened(u)' PROVE Current(fh[u])'
    BY DEF Reads
  <2>2. /\ Opened(u) /\ User(u) /\ fh[u].idx \in Idxs /\ Current(fh[u])
        /\ fh[u].fno \in Fnos /\ Disk(u) # None
    BY <1>1, <2>1, SparedIs DEF Reads
  <2>3. IsDent(fh[u].idx, Disk(u), fh[u].fno, fh[u].ver)
    BY <1>1, <2>2 DEF Sound, Meant
  <2>4. dents[fh[u].idx].name = Disk(u) /\ dents[fh[u].idx].fno = fh[u].fno
    BY <2>3 DEF IsDent
  <2>5. ~Nameless(fh[u].fno) /\ files'[fh[u].fno] # Lost
    BY <1>1, <2>2, <2>4 DEF Nameless, LossFree
  <2>6. ASSUME NEW t \in Threads, ~Opened(t)', Overwrites(t, fh[u].fno) PROVE FALSE
    <3>1. Opened(t) /\ Exclusive(fl[t]) /\ fh[u].fno = fh[t].fno /\ t # u
      BY <2>1, <2>6 DEF Overwrites
    <3>. QED BY <1>1, <2>2, <2>4, <3>1, OwnersFile
  <2>7. Untouched(fh[u].fno)
    BY <2>2, <2>5, <2>6 DEF Altered
  <2>8. StillCurrent(fh[u])
    BY <2>2, <2>7, SameCurrent DEF StillCurrent
  <2>. QED BY <1>1, <2>8, SparedIs
<1>3. Deletes(u)'
  <2>1. SUFFICES ASSUME pc'[u] = "remove" PROVE "meta" \in fl'[u] /\ Present(NameOf(u))'
    BY DEF Deletes
  <2>2. User(u) /\ pc[u] = "remove" /\ fl'[u] = fl[u] /\ Disk(u)' = Disk(u)
    <3>1. User(u)'
      BY <2>1 DEF Safe, Table, Calls, CallOf, User, Inv, Shape, Arg
    <3>. QED BY <1>1, <2>1, <3>1, SparedIs
  <2>3. NameOf(u)' = NameOf(u)
    BY <2>1, <2>2 DEF Disk
  <2>4. "meta" \in fl[u] /\ Present(NameOf(u))
    BY <1>1, <2>2 DEF Deletes
  <2>. QED BY <2>2, <2>3, <2>4 DEF Present
<1>. QED BY <1>2, <1>3

LEMMA OthersWork ==
  ASSUME Intact, Safe', NEW t \in Threads, Rest(t), Effect(t)
  PROVE  LossFree' /\ \A u \in Threads : u # t => Reads(u)' /\ Deletes(u)'
<1>1. LossFree /\ Safe
  BY DEF Intact, Works, Sane
<1>2. CASE Quiet(t) \/ Spoils(t) \/ \E i \in Idxs : OpensFile(t, i)
  <2>1. dents' = dents /\ \A g \in Fnos : Altered(g) /\ (files'[g] = Lost => files[g] = Lost)
    BY <1>2 DEF Quiet, Spoils, OpensFile, Altered, Untouched
  <2>2. \A u \in Threads : u # t => Spared(u)
    BY DEF Rest, Spared
  <2>3. LossFree'
    BY <1>1, <2>1 DEF LossFree
  <2>. QED BY <2>1, <2>2, <2>3, UntouchedWork
<1>3. ASSUME NEW i, Touches(t, i)
      PROVE  LossFree' /\ \A u \in Threads : u # t => Reads(u)' /\ Deletes(u)'
  <2>1. LossFree'
    BY <1>3 DEF Touches
  <2>. QED BY <1>3, <2>1, TouchedWork
<1>4. CASE WritesFile(t)
  BY <1>3, <1>4, WritesTouch
<1>5. CASE \E m \in Names : MovesFile(t, m)
  BY <1>3, <1>5, MovesTouch
<1>6. CASE \E i \in Idxs : RemovesFile(t, i)
  BY <1>3, <1>6, RemovesTouch
<1>7. CASE \E i \in Idxs, f \in Fnos : CreatesFile(t, i, f)
  BY <1>3, <1>7, CreatesTouch
<1>. QED BY <1>2, <1>4, <1>5, <1>6, <1>7 DEF Effect

LEMMA OwnReads ==
  ASSUME Intact, Safe', LossFree', NEW t \in Threads, Effect(t)
  PROVE  Reads(t)'
<1>. SUFFICES ASSUME Opened(t)' PROVE Current(fh[t])'
  BY DEF Reads
<1>1. ASSUME Exclusive(fl'[t]) PROVE Current(fh[t])'
  <2>1. fh'[t] # None /\ fh'[t].fno \in Fnos
    BY DEF Opened, Safe, Inv, Held, HeldBy, Base, Stock
  <2>2. files'[fh'[t].fno] # Lost
    BY <2>1 DEF LossFree
  <2>. QED BY <1>1, <2>2 DEF Safe, Base, OwnedBy
<1>2. CASE Quiet(t)
  <2>1. Opened(t) /\ fh'[t] = fh[t] /\ files' = files
    BY <1>2 DEF Quiet, Stays
  <2>2. Current(fh[t])
    BY <2>1 DEF Intact, Works, Reads
  <2>. QED BY <2>1, <2>2 DEF Current
<1>3. CASE Spoils(t) \/ \E i \in Idxs : RemovesFile(t, i)
  BY <1>3 DEF Spoils, RemovesFile
<1>4. CASE WritesFile(t) \/ \E m \in Names : MovesFile(t, m)
  BY <1>1, <1>4 DEF WritesFile, MovesFile
<1>5. CASE \E i \in Idxs : OpensFile(t, i)
  BY <1>5 DEF OpensFile
<1>6. ASSUME NEW i \in Idxs, NEW f \in Fnos, CreatesFile(t, i, f) PROVE Current(fh[t])'
  <2>1. Exclusive(fl[t]) /\ fl'[t] = fl[t]
    BY <1>6, CreatesTouch DEF Touches, CreatesFile
  <2>. QED BY <1>1, <2>1
<1>. QED BY <1>2, <1>3, <1>4, <1>5, <1>6 DEF Effect

(***************************************************************************)
(* Only syscall_storage_obj_del() comes to remove.                         *)
(***************************************************************************)
LEMMA OwnDeletes ==
  ASSUME Intact, NEW t \in Threads, Step(t)
  PROVE  Deletes(t)'
<1>. SUFFICES ASSUME pc'[t] = "remove" PROVE "meta" \in fl'[t] /\ Present(NameOf(t))'
  BY DEF Deletes
<1>1. /\ pc \in [Threads -> Places] /\ Inv /\ Safe /\ ~use.faults /\ Stock /\ LossFree
      /\ Dirh.dents = dents /\ ~use.misread /\ ~use.late
  BY DirhIs DEF Intact, Works, Reliable, Careful, Sane, Safe, Inv, Shape, Base
<1>2. CASE OpenFile(t)
  <2>1. PICK i \in Find(Dirh, NameOf(t)) :
           pc[t] = "open" /\ ~Readable(Dirh.dents[i].fno, Dirh.dents[i].hash)
    BY <1>1, <1>2 DEF OpenFile, Goto
  <2>2. i \in Idxs /\ dents[i].name = NameOf(t) /\ NameOf(t) # None
    BY <1>1, <2>1, HasEntry, NoneApart DEF Find, NoEntry
  <2>3. Backed(i)
    BY <1>1, <2>2 DEF Stock
  <2>. QED BY <1>1, <2>1, <2>3 DEF Backed, LossFree
<1>3. CASE ReadHead(t) \/ ObjRead(t)
  <2>1. /\ pc[t] \in {"head", "have"} /\ ~Current(fh[t])
        /\ pc[t] = "head" => arg[t].op = "open"
    BY <1>1, <1>3 DEF ReadHead, ObjRead, Answer, Goto
  <2>2. Opened(t)
    BY <1>1, <2>1 DEF Opened, HasFile, User, Safe, Table, Calls, CallOf, Inv, Shape, Arg
  <2>. QED BY <2>1, <2>2 DEF Intact, Works, Reads
<1>4. CASE ObjDel(t)
  <2>1. /\ pc[t] = "have" /\ "meta" \in fl[t] /\ UNCHANGED <<dents, pobjs, po, fl>>
    BY <1>4 DEF ObjDel, fsvars, thvars
  <2>2. Opened(t) /\ Exclusive(fl[t]) /\ Disk(t) = NameOf(t)
    BY <1>1, <2>1, MetaExclusive
       DEF Opened, HasFile, User, Disk, Safe, Table, Calls, CallOf, Inv, Shape, Arg
  <2>3. fh[t].idx \in Idxs /\ IsDent(fh[t].idx, NameOf(t), fh[t].fno, fh[t].ver)
    BY <1>1, <2>2, OpenedHas DEF Opened, Safe, Base, OwnedBy
  <2>4. Present(NameOf(t))
    BY <2>3 DEF Present, IsDent
  <2>. QED BY <2>1, <2>4 DEF Present, NameOf
<1>5. CASE CreateFile(t) \/ ObjWrite(t)
  BY <1>1, <1>5 DEF CreateFile, CreateFails, CreateLate, CreateDone, ObjWrite, Goto, NoDirh
<1>6. CASE ObjRename(t) \/ RenameFile(t) \/ RenamePobj(t) \/ Renamed(t) \/ RemoveFile(t) \/ CreateFinal(t)
  BY <1>1, <1>6 DEF ObjRename, RenameFile, RenamePobj, Renamed, RemoveFile, CreateFinal, Goto
<1>7. CASE \/ ObjOpen(t) \/ ObjCreate(t) \/ ObjClose(t) \/ CloseFile(t)
           \/ Release(t) \/ NextEnum(t) \/ EnumGet(t)
  BY <1>1, <1>7 DEF ObjOpen, ObjCreate, ObjClose, CloseFile, Release, NextEnum,
     EnumGet, Begin, Goto
<1>8. CASE StartEnum(t) \/ EndEnum(t)
  BY <1>8 DEF StartEnum, EndEnum
<1>. QED BY <1>2, <1>3, <1>4, <1>5, <1>6, <1>7, <1>8 DEF Step

LEMMA NextWorks == Intact /\ Safe' /\ [Next]_vars => Works'
<1>. SUFFICES ASSUME Intact, Safe', [Next]_vars PROVE Works'
  OBVIOUS
<1>1. /\ Inv /\ Table /\ Base /\ Careful(use) /\ Inv' /\ LossFree /\ ~use.faults
      /\ \A u \in Threads : Reads(u) /\ Deletes(u)
  BY DEF Intact, Sane, Safe, Works, Reliable
<1>2. CASE Stop
  BY <1>1, <1>2 DEF Stop, Works, LossFree, Reads, Deletes, Opened, User, NoArg
<1>3. CASE Lose
  BY <1>1, <1>3 DEF Lose
<1>4. CASE UNCHANGED vars
  <2>1. UNCHANGED <<dents, files, pobjs, pc, arg, po, fl, fh>>
    BY <1>4 DEF vars, fsvars, thvars
  <2>2. LossFree'
    BY <1>1, <2>1 DEF LossFree
  <2>3. \A u \in Threads : Reads(u)' /\ Deletes(u)'
    BY <1>1, <2>1 DEF Reads, Opened, User, Current, Deletes, Present, NameOf
  <2>. QED BY <2>2, <2>3 DEF Works
<1>5. ASSUME NEW t \in Threads, Step(t) PROVE Works'
  <2>1. Rest(t) /\ Effect(t)
    BY <1>1, <1>5, StepEffect
  <2>2. LossFree' /\ \A u \in Threads : u # t => Reads(u)' /\ Deletes(u)'
    BY <2>1, OthersWork
  <2>3. Reads(t)' /\ Deletes(t)'
    BY <1>5, <2>1, <2>2, OwnReads, OwnDeletes
  <2>. QED BY <2>2, <2>3 DEF Works
<1>. QED BY <1>2, <1>3, <1>4, <1>5 DEF Next

LEMMA IntactHolds == Spec /\ Careful(use) /\ Reliable(use) => []Intact
<1>1. Init => Works
  BY LostApart DEF Init, Works, LossFree, Reads, Deletes, Opened, User, NoArg
<1>2. Intact /\ Safe' /\ [Next]_vars => Works' /\ Reliable(use)'
  <2>. SUFFICES ASSUME Intact, Safe', [Next]_vars PROVE Works' /\ Reliable(use)'
    OBVIOUS
  <2>1. use' = use
    BY UseKept DEF Intact, Sane, Safe
  <2>2. Works'
    BY NextWorks
  <2>3. Reliable(use)'
    BY <2>1 DEF Intact, Reliable, CreatesAlone
  <2>. QED BY <2>2, <2>3
<1>3. Intact <=> Sane /\ Reliable(use) /\ Works
  BY DEF Intact
<1>4. Sane => Safe
  BY DEF Sane
<1>5. Reliable(use) => Tidy(use)
  BY DEF Reliable, Tidy
<1>. QED BY <1>1, <1>2, <1>3, <1>4, <1>5, SaneHolds, PTL DEF Spec

(***************************************************************************)
(* On storage that works, only syscall_storage_obj_del() removes an object *)
(* and it finds the object there; no open or read takes one for corrupt.   *)
(***************************************************************************)
THEOREM SoundObjectsStay ==
  Spec /\ Careful(use) /\ Reliable(use) =>
    [](OnlyCorruptRemoved /\ \A t \in Threads : Deletes(t))
<1>1. Intact => OnlyCorruptRemoved /\ \A t \in Threads : Deletes(t)
  BY DEF Intact, Works, Deletes, OnlyCorruptRemoved
<1>. QED BY <1>1, IntactHolds, PTL

-----------------------------------------------------------------------------
(***************************************************************************)
(* Enumerations.  The uses under which no operation fails: on storage that *)
(* works, no create is refused and nothing is renamed.                     *)
(***************************************************************************)
Unfailing(u) == Reliable(u) /\ ~u.renames /\ u.overs \subseteq {TRUE}

Overs == \A t \in Threads : arg[t].op = "create" => arg[t].over \in use.overs

Listing == Intact /\ Unfailing(use) /\ Overs /\ EnumDirhValid

LEMMA RefsTwo ==
  ASSUME Inv, NEW t \in Threads, NEW u \in Threads, dir[u] # None,
         fh[t] # None \/ (t # u /\ dir[t] # None)
  PROVE  refs # 1
<1> DEFINE O == {v \in Threads : fh[v] # None}
           E == {v \in Threads : dir[v] # None}
<1>1. /\ refs = Cardinality(O) + Cardinality(E)
      /\ Cardinality(O) \in Nat /\ Cardinality(E) \in Nat
      /\ \A v \in O : Cardinality(O) >= 1
      /\ \A v \in E : Cardinality(E) >= 1 /\ Cardinality(E \ {v}) = Cardinality(E) - 1
      /\ \A v \in E \ {u} : Cardinality(E \ {u}) >= 1
  BY Counts DEF Inv, DirhRefs
<1>2. u \in E /\ (t \in O \/ t \in E \ {u})
  OBVIOUS
<1> HIDE DEF O, E
<1>. QED BY <1>1, <1>2

LEMMA FreshKept ==
  ASSUME Inv, EnumDirhValid, NEW u \in Threads, dir'[u] = Stale(dirh')[u],
         dir[u] # None => dirh' # None
  PROVE  dir'[u] # None => dir'[u].valid
<1>1. dir[u] = None \/ dirh' # None
  OBVIOUS
<1>2. Stale(dirh')[u] = dir[u]
  BY <1>1 DEF Stale
<1>. QED BY <1>2 DEF EnumDirhValid

LEMMA LeaveKept ==
  ASSUME Inv, EnumDirhValid, NEW d \in DirFile, NEW n \in {0, 1}, Leave(d, n, FALSE)
  PROVE  EnumDirhValid'
<1>1. dir' = Stale(dirh') /\ dirh' = IF refs + n = 0 THEN None ELSE d
  BY DEF Leave
<1>2. ASSUME NEW u \in Threads, dir[u] # None PROVE dirh' # None
  <2>1. refs >= 1 /\ refs \in Nat
    BY <1>2, RefsCover DEF Inv, Shape
  <2>2. refs + n # 0
    BY <2>1
  <2>. QED BY <1>1, <2>2, NoneApart
<1>3. ASSUME NEW u \in Threads PROVE dir'[u] # None => dir'[u].valid
  BY <1>1, <1>2, FreshKept
<1>. QED BY <1>3 DEF EnumDirhValid

LEMMA DirFiles ==
  ASSUME Inv
  PROVE  /\ Dirh \in DirFile
         /\ \A i \in Idxs, n \in Names \cup {None}, f \in Nat, v \in Vers \cup {None} :
              SetDent(Dirh, i, n, f, v) \in DirFile
         /\ \A i \in Idxs : ClearDent(Dirh, i) \in DirFile
<1>1. Dirh \in DirFile
  BY DirhIs DEF Inv, Good
<1> DEFINE D == Dirh
<1>2. D \in DirFile /\ D.dents \in [Idxs -> Dent] /\ D.bits \subseteq Nat
  BY <1>1 DEF DirFile
<1> HIDE DEF D
<1>3. ASSUME NEW i \in Idxs, NEW n \in Names \cup {None}, NEW f \in Nat, NEW v \in Vers \cup {None}
      PROVE  SetDent(D, i, n, f, v) \in DirFile
  <2>1. [name |-> n, fno |-> f, hash |-> v] \in Dent
    BY DEF Dent
  <2>2. [D.dents EXCEPT ![i] = [name |-> n, fno |-> f, hash |-> v]] \in [Idxs -> Dent]
    BY <1>2, <2>1
  <2>3. D.bits \cup {f} \in SUBSET Nat
    BY <1>2
  <2>. QED BY <2>2, <2>3 DEF SetDent, DirFile
<1>4. ASSUME NEW i \in Idxs PROVE ClearDent(D, i) \in DirFile
  <2>1. [D.dents EXCEPT ![i] = NoDent] \in [Idxs -> Dent]
    BY <1>2 DEF NoDent, Dent
  <2>2. D.bits \ {D.dents[i].fno} \in SUBSET Nat
    BY <1>2
  <2>. QED BY <2>1, <2>2 DEF ClearDent, DirFile
<1>. QED BY <1>1, <1>3, <1>4 DEF D

LEMMA StepListing ==
  ASSUME Listing, NEW t \in Threads, Step(t)
  PROVE  EnumDirhValid'
<1>1. /\ Inv /\ Table /\ Base /\ Stock /\ Safe /\ ~use.faults /\ EnumDirhValid
      /\ Dirh.dents = dents /\ dir \in [Threads -> {None} \cup Enumeration]
      /\ ~use.renames /\ use.overs \subseteq {TRUE} /\ Overs /\ Dirh \in DirFile
  BY DirhIs, DirFiles DEF Listing, Intact, Sane, Safe, Base, Unfailing, Reliable, Inv, Shape
<1>2. CASE OpenFile(t)
  <2>1. Leave(Dirh, 0, FALSE) \/ Leave(Dirh, 1, FALSE)
    BY <1>1, <1>2 DEF OpenFile, NoDirh
  <2>. QED BY <1>1, <2>1, LeaveKept
<1>3. CASE CreateFile(t)
  <2> DEFINE f == Min(FreeFno(Dirh))
             i == DentFor(Dirh, NameOf(t))
  <2>1. /\ pc[t] = "create" /\ Room(Dirh, NameOf(t)) /\ Writable
        /\ CreateFails(t, Dirh, f) \/ CreateDone(t, Dirh, f)
    BY <1>1, <1>3 DEF CreateFile, CreateLate, NoDirh, Safe, Careful
  <2>2. arg[t].over = TRUE
    BY <1>1, <2>1 DEF Overs, Safe, Table, Calls, CallOf
  <2>3. CreateDone(t, Dirh, f)
    BY <1>1, <2>1, <2>2 DEF CreateFails
  <2>4. NameOf(t) \in Names
    BY <1>1, <2>1, HasEntry DEF NoEntry
  <2>5. Takeable(i, NameOf(t), f)
    BY <1>1, <2>1, <2>4, RoomFor
  <2>6. i \in Idxs /\ f \in Nat /\ NewVer \in Vers
    BY <2>1, <2>5, NewVerIs, NoneApart DEF Takeable
  <2>7. Leave(SetDent(Dirh, i, NameOf(t), f, NewVer), 1, FALSE)
    BY <2>3 DEF CreateDone, Named
  <2>8. SetDent(Dirh, i, NameOf(t), f, NewVer) \in DirFile
    BY <1>1, <2>4, <2>6, DirFiles
  <2>. QED BY <1>1, <2>7, <2>8, LeaveKept
<1>4. CASE ObjWrite(t)
  <2> DEFINE h == fh[t]
             e == SetDent(Dirh, h.idx, Dirh.dents[h.idx].name, h.fno, NewVer)
  <2>1. pc[t] = "have" /\ Writable /\ Leave(e, 0, FALSE)
    BY <1>1, <1>4 DEF ObjWrite, NoDirh
  <2>2. h.idx \in Idxs /\ h.fno \in Nat /\ NewVer \in Vers
    <3>1. pc[t] \in HasFile
      BY <2>1 DEF HasFile
    <3>. QED BY <1>1, <2>1, <3>1, OpenedHas, NewVerIs, NoneApart
  <2>3. Dirh.dents[h.idx].name \in Names \cup {None}
    BY <1>1, <2>2 DEF Inv, Shape, Dent
  <2>4. e \in DirFile
    BY <1>1, <2>2, <2>3, DirFiles
  <2>. QED BY <1>1, <2>1, <2>4, LeaveKept
<1>5. CASE ObjRename(t) \/ RenameFile(t) \/ RenamePobj(t) \/ Renamed(t)
  <2>1. use.renames \/ pc[t] \in Renaming
    BY <1>5 DEF ObjRename, RenameFile, RenamePobj, Renamed, Renaming
  <2>. QED BY <1>1, <2>1 DEF Safe, Table, Calls, CallOf
<1>6. CASE RemoveFile(t)
  <2>1. pc[t] = "remove" /\ Present(NameOf(t))
    BY <1>6 DEF RemoveFile, Listing, Intact, Works, Deletes
  <2>2. Find(Dirh, NameOf(t)) # {}
    BY <1>1, <2>1 DEF Find, Present
  <2>3. PICK i \in Find(Dirh, NameOf(t)) : Leave(ClearDent(Dirh, i), 0, FALSE)
    BY <1>1, <1>6, <2>2 DEF RemoveFile, NoDirh
  <2>4. ClearDent(Dirh, i) \in DirFile
    BY <1>1, DirFiles DEF Find
  <2>. QED BY <1>1, <2>3, <2>4, LeaveKept
<1>7. CASE CloseFile(t)
  <2>1. CASE fh[t] = None
    BY <1>1, <1>7, <2>1 DEF CloseFile, EnumDirhValid
  <2>2. CASE fh[t] # None
    <3>1. dir' = Stale(dirh') /\ dirh' = IF refs = 1 THEN None ELSE dirh
      BY <1>7, <2>2 DEF CloseFile
    <3>2. ASSUME NEW u \in Threads, dir[u] # None PROVE dirh' # None
      BY <1>1, <2>2, <3>1, <3>2, RefsTwo DEF Inv, EnumKept, EnumDirhValid
    <3>3. ASSUME NEW u \in Threads PROVE dir'[u] # None => dir'[u].valid
      BY <1>1, <3>1, <3>2, FreshKept
    <3>. QED BY <3>3 DEF EnumDirhValid
  <2>. QED BY <2>1, <2>2
<1>8. CASE EndEnum(t)
  <2>1. /\ dir' = [Stale(dirh') EXCEPT ![t] = None] /\ dir[t] # None
        /\ dirh' = IF refs = 1 THEN None ELSE dirh
    BY <1>8 DEF EndEnum
  <2>2. dir'[t] = None
    BY <1>1, <2>1, EndStaleDoes DEF Inv
  <2>3. ASSUME NEW u \in Threads, u # t PROVE dir'[u] # None => dir'[u].valid
    <3>1. dir'[u] = Stale(dirh')[u]
      BY <2>1, <2>3 DEF Stale
    <3>2. dir[u] # None => dirh' # None
      BY <1>1, <2>1, <2>3, RefsTwo DEF Inv, EnumKept, EnumDirhValid
    <3>. QED BY <1>1, <3>1, <3>2, FreshKept
  <2>. QED BY <2>2, <2>3 DEF EnumDirhValid
<1>9. CASE StartEnum(t)
  BY <1>1, <1>9 DEF StartEnum, EnumDirhValid
<1>10. CASE NextEnum(t)
  <2>1. dir[t] \in Enumeration /\ dir[t].valid /\ dir' = [dir EXCEPT ![t].idx = Min(Ahead(t))]
    BY <1>1, <1>10 DEF NextEnum
  <2>2. dir'[t] = [dir[t] EXCEPT !.idx = Min(Ahead(t))]
    BY <1>1, <2>1
  <2>3. dir'[t].valid = dir[t].valid
    BY <2>1, <2>2 DEF Enumeration
  <2>4. \A u \in Threads \ {t} : dir'[u] = dir[u]
    BY <1>1, <2>1
  <2>. QED BY <1>1, <2>1, <2>3, <2>4 DEF EnumDirhValid
<1>11. CASE dir' = dir
  BY <1>1, <1>11 DEF EnumDirhValid
<1>. QED BY <1>2, <1>3, <1>4, <1>5, <1>6, <1>7, <1>8, <1>9, <1>10, <1>11
   DEF Step, ObjOpen, ObjCreate, Begin, ReadHead, CreateFinal, ObjRead, ObjDel, ObjClose,
       Release, EnumGet, thvars

LEMMA NextOvers ==
  ASSUME Safe, Overs, use' = use, [Next]_vars
  PROVE  Overs'
<1>1. arg \in [Threads -> Arg]
  BY DEF Safe, Inv, Shape
<1>2. ASSUME NEW t \in Threads,
             \A u \in Threads \ {t} : arg'[u] = arg[u],
             arg'[t].op = "create" => arg'[t].over \in use.overs
      PROVE  Overs'
  BY <1>2 DEF Overs
<1>3. ASSUME NEW t \in Threads, Step(t) PROVE Overs'
  <2>1. \A u \in Threads \ {t} : arg'[u] = arg[u]
    BY <1>3, StepSame DEF Same, Safe
  <2>2. CASE ObjOpen(t)
    <3>1. arg'[t].op = "open"
      BY <1>1, <2>2 DEF ObjOpen, Begin
    <3>. QED BY <1>2, <2>1, <3>1
  <2>3. CASE ObjCreate(t)
    <3>1. PICK n \in Names, over \in use.overs :
             arg' = [arg EXCEPT ![t] = [op |-> "create", name |-> n, over |-> over]]
      BY <2>3 DEF ObjCreate, Begin
    <3>2. arg'[t].over = over
      BY <1>1, <3>1
    <3>. QED BY <1>2, <2>1, <3>2
  <2>4. CASE NextEnum(t)
    <3>1. arg'[t].op = "enum"
      BY <1>1, <2>4 DEF NextEnum
    <3>. QED BY <1>2, <2>1, <3>1
  <2>5. CASE Release(t)
    <3>1. arg'[t].op = "none"
      BY <1>1, <2>5 DEF Release, NoArg
    <3>. QED BY <1>2, <2>1, <3>1
  <2>6. CASE ObjRename(t)
    <3>1. PICK m \in Names : arg' = [arg EXCEPT ![t].name = m]
      BY <2>6 DEF ObjRename
    <3>2. arg'[t].op = arg[t].op /\ arg'[t].over = arg[t].over
      BY <1>1, <3>1 DEF Arg
    <3>. QED BY <1>2, <2>1, <3>2 DEF Overs
  <2>7. CASE arg' = arg
    BY <2>7 DEF Overs
  <2>. QED BY <1>3, <2>2, <2>3, <2>4, <2>5, <2>6, <2>7
     DEF Step, OpenFile, ReadHead, CreateFile, CreateFinal, ObjRead, ObjWrite, RenameFile,
         RenamePobj, Renamed, ObjDel, RemoveFile, ObjClose, CloseFile, StartEnum, EnumGet,
         EndEnum, thvars
<1>4. CASE Stop
  BY <1>4 DEF Stop, Overs, NoArg
<1>5. CASE Lose \/ UNCHANGED vars
  BY <1>5 DEF Lose, vars, thvars, Overs
<1>. QED BY <1>3, <1>4, <1>5 DEF Next

(***************************************************************************)
(* On storage that works, and with no create that is refused and no        *)
(* rename, the directory file of an enumeration is never closed under it:  *)
(* readdir has a valid pointer, and closedir's assertion holds.            *)
(***************************************************************************)
THEOREM EnumerationsLast == Spec /\ Careful(use) /\ Unfailing(use) => []EnumDirhValid
<1>1. Init => Overs /\ EnumDirhValid
  BY DEF Init, Overs, EnumDirhValid, NoArg
<1>2. Intact /\ Unfailing(use) /\ Overs /\ EnumDirhValid /\ [Next]_vars
        => Unfailing(use)' /\ Overs' /\ EnumDirhValid'
  <2>. SUFFICES ASSUME Intact, Unfailing(use), Overs, EnumDirhValid, [Next]_vars
                PROVE  Unfailing(use)' /\ Overs' /\ EnumDirhValid'
    OBVIOUS
  <2>1. use' = use /\ Safe
    BY UseKept DEF Intact, Sane
  <2>2. Unfailing(use)'
    BY <2>1 DEF Unfailing, Reliable, CreatesAlone
  <2>3. Overs'
    BY <2>1, NextOvers
  <2>4. EnumDirhValid'
    <3>1. CASE Stop
      BY <3>1 DEF Stop, EnumDirhValid
    <3>2. CASE Lose \/ UNCHANGED vars
      BY <3>2 DEF Lose, vars, thvars, EnumDirhValid
    <3>3. ASSUME NEW t \in Threads, Step(t) PROVE EnumDirhValid'
      BY <3>3, StepListing DEF Listing
    <3>. QED BY <3>1, <3>2, <3>3 DEF Next
  <2>. QED BY <2>2, <2>3, <2>4
<1>3. Unfailing(use) => Reliable(use)
  BY DEF Unfailing
<1>. QED BY <1>1, <1>2, <1>3, IntactHolds, PTL DEF Spec
=============================================================================
