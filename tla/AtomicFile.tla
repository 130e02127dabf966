---------------------------- MODULE AtomicFile -----------------------------
(***************************************************************************)
(* What secure storage promises of a file: readers and writers work on a   *)
(* copy of its own, a commit makes that copy the file in one step, and a   *)
(* crash at any time leaves the file as of the last commit.  This is the   *)
(* abstract specification that module FsHtree implements.                  *)
(***************************************************************************)
EXTENDS Integers, Sequences

CONSTANTS Data,         \* what a block may hold
          None          \* "no file" or "not open"

VARIABLES file,         \* the committed file: a sequence of blocks, or None
          copy          \* the working copy of the opened file, or None

vars == <<file, copy>>

Init == file = None /\ copy = << >>

(***************************************************************************)
(* A block inside the file is replaced, or a block is added at its end.    *)
(***************************************************************************)
Write(b, d) ==
  /\ copy # None
  /\ b \in 1 .. Len(copy) + 1
  /\ copy' = [i \in 1 .. (IF b > Len(copy) THEN b ELSE Len(copy))
                |-> IF i = b THEN d ELSE copy[i]]
  /\ UNCHANGED file

Truncate(l) ==
  /\ copy # None
  /\ l \in 0 .. Len(copy)
  /\ copy' = SubSeq(copy, 1, l)
  /\ UNCHANGED file

Commit ==
  /\ copy # None
  /\ file' = copy
  /\ UNCHANGED copy

(***************************************************************************)
(* Closing the file or losing it to an error or a crash drops the copy.    *)
(***************************************************************************)
Drop ==
  /\ copy # None
  /\ copy' = None
  /\ UNCHANGED file

Open ==
  /\ copy = None
  /\ file # None
  /\ copy' = file
  /\ UNCHANGED file

Next ==
  \/ \E b \in 1 .. (IF copy = None THEN 0 ELSE Len(copy) + 1) :
       \E d \in Data : Write(b, d)
  \/ \E l \in 0 .. (IF copy = None THEN 0 ELSE Len(copy)) : Truncate(l)
  \/ Commit
  \/ Drop
  \/ Open

Spec == Init /\ [][Next]_vars
=============================================================================
