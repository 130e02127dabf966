----------------------------- MODULE FileStore ------------------------------
(***************************************************************************)
(* What a secure storage file system promises: a set of files by name that *)
(* change in whole operations, whenever the device stops; or that are all  *)
(* lost at once and for good.                                              *)
(***************************************************************************)
EXTENDS Naturals, Sequences

CONSTANTS Files, Bufs, MaxLen, Zero, Absent

VARIABLES usable,   \* the files have not been lost
          files     \* the contents of each file, or Absent

vars == <<usable, files>>

Empty == [f \in Files |-> Absent]

Init == usable = TRUE /\ files = Empty

Size(f) == Len(files[f])

Present(f) == files[f] # Absent

(***************************************************************************)
(* Contents x with buf written at pos, what lies between filled with 0.    *)
(***************************************************************************)
Overlay(x, pos, buf) ==
  [i \in 1 .. IF pos + Len(buf) > Len(x) THEN pos + Len(buf) ELSE Len(x) |->
     IF i > pos /\ i <= pos + Len(buf) THEN buf[i - pos]
     ELSE IF i <= Len(x) THEN x[i] ELSE Zero]

Create(f) == ~Present(f) /\ files' = [files EXCEPT ![f] = <<>>]

Write(f, pos, buf) ==
  Present(f) /\ files' = [files EXCEPT ![f] = Overlay(@, pos, buf)]

Truncate(f, n) ==
  /\ Present(f)
  /\ files' = [files EXCEPT ![f] =
                 [i \in 1 .. n |-> IF i <= Size(f) THEN files[f][i] ELSE Zero]]

Remove(f) == Present(f) /\ files' = [files EXCEPT ![f] = Absent]

Rename(f, g) ==
  /\ Present(f) /\ ~Present(g)
  /\ files' = [files EXCEPT ![g] = files[f], ![f] = Absent]

Change ==
  \E f \in Files :
    \/ Create(f) \/ Remove(f)
    \/ \E pos \in 0 .. MaxLen, buf \in Bufs : Write(f, pos, buf)
    \/ \E n \in 0 .. MaxLen : Truncate(f, n)
    \/ \E g \in Files : Rename(f, g)

Lose == usable' = FALSE /\ files' = Empty

Next == usable /\ ((Change /\ UNCHANGED usable) \/ Lose)

Spec == Init /\ [][Next]_vars
=============================================================================
