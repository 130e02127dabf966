----------------------------- MODULE BlockStore -----------------------------
(***************************************************************************)
(* What the lower half of core/tee/tee_rpmb_fs.c promises to the file      *)
(* system above it: blocks that are written one at a time.  A write in     *)
(* progress may become doubtful, that is, it may take effect at any later  *)
(* time; but once the store has been opened no write that has returned is  *)
(* in doubt: an acknowledged one is there to stay, a refused one will      *)
(* never show up.  Losing contact closes the store, with what is in doubt  *)
(* left so, and opening it again settles all doubts first.                 *)
(***************************************************************************)
EXTENDS Naturals

CONSTANTS Blocks, Vals, None

VARIABLES mem,      \* the contents of the blocks
          doubt,    \* the writes, block and value, that may still take effect
          op,       \* the write in progress, or None
          open      \* the store is in use

vars == <<mem, doubt, op, open>>

Writes == Blocks \X Vals

Init ==
  /\ mem \in [Blocks -> Vals]
  /\ doubt = {}
  /\ op = None
  /\ open = FALSE

Put(w) == mem' = [mem EXCEPT ![w[1]] = w[2]] /\ doubt' = {}

Start == op = None /\ op' \in Writes /\ UNCHANGED <<mem, doubt, open>>

(***************************************************************************)
(* The write is acknowledged; another one may follow at once.  As long as  *)
(* the store is not open it may be one in doubt, of the same block, that   *)
(* has taken effect instead: who opens the store has to read again.        *)
(***************************************************************************)
Complete ==
  /\ op # None
  /\ \/ Put(op)
     \/ ~open /\ \E w \in doubt : w[1] = op[1] /\ Put(w)
  /\ op' \in Writes \cup {None}
  /\ open' \in {open, TRUE}

Hesitate == op # None /\ doubt' = doubt \cup {op} /\ UNCHANGED <<mem, op, open>>

LateEffect == \E w \in doubt : Put(w) /\ UNCHANGED <<op, open>>

(***************************************************************************)
(* An error that leaves the store in use leaves nothing in doubt.          *)
(***************************************************************************)
Refuse ==
  /\ op # None
  /\ open => doubt = {}
  /\ op' = None
  /\ UNCHANGED <<mem, doubt, open>>

(***************************************************************************)
(* Contact is lost: the last request may be one more in doubt.             *)
(***************************************************************************)
Lose ==
  /\ doubt' \in {doubt} \cup (IF op = None THEN {} ELSE {doubt \cup {op}})
  /\ op' = None
  /\ open' = FALSE
  /\ UNCHANGED mem

Recover ==
  /\ ~open
  /\ doubt = {}
  /\ op' = None
  /\ open' = TRUE
  /\ UNCHANGED <<mem, doubt>>

Next == Start \/ Complete \/ Hesitate \/ LateEffect \/ Refuse \/ Lose \/ Recover

Spec == Init /\ [][Next]_vars
=============================================================================
