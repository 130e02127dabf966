---------------------------- MODULE ObjectStore -----------------------------
(***************************************************************************)
(* What the storage of persistent objects promises: each change of an      *)
(* object (its creation, replacement or update, its removal, its renaming) *)
(* is one step, and nothing else, no failure and no stop, changes any.     *)
(***************************************************************************)
CONSTANTS Names, Contents, Absent

VARIABLE store      \* the contents of each object, or Absent

Init == store = [n \in Names |-> Absent]

Put(n) == \E x \in Contents : store' = [store EXCEPT ![n] = x]

Remove(n) == store[n] # Absent /\ store' = [store EXCEPT ![n] = Absent]

Rename(n, m) ==
  /\ store[n] # Absent /\ store[m] = Absent
  /\ store' = [store EXCEPT ![m] = store[n], ![n] = Absent]

Next ==
  \E n \in Names : Put(n) \/ Remove(n) \/ \E m \in Names : Rename(n, m)

Spec == Init /\ [][Next]_store
=============================================================================
