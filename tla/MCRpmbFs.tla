------------------------------ MODULE MCRpmbFs ------------------------------
(***************************************************************************)
(* RpmbFs for TLC: what is written, and a view without the blocks that no  *)
(* operation reads again before it writes them: those that are neither in  *)
(* the table, nor of a file, nor part of the operation in progress; and    *)
(* without the arguments of an operation that are of no use any more.      *)
(***************************************************************************)
EXTENDS RpmbFs, TLC

CONSTANTS v1, v2

MCVals == {v1, v2}

MCContents == {<<v1>>, <<v1, v1>>}

MCBufs == {<<v2>>, <<v2, v2>>}

Symmetry == Permutations(Names)

Reached ==
  LET end == LastAddr(mem)
      next == {todo[i] : i \in 1 .. Len(todo)}
  IN  IF ~TableEnds THEN Addrs
      ELSE 1 .. end
        \cup (IF todo = <<>> THEN {} ELSE {end + 1})
        \cup UNION {Region(mem[a]) : a \in 1 .. end}
        \cup UNION {Region(w[2]) : w \in {p \in next : IsEntry(p[2])}}

Doing ==
  IF op = None THEN op
  ELSE IF stage \in {"only", "undo"} \/ op.kind \notin {"create", "raw"}
    THEN "ends"
  ELSE IF stage \in {"fail", "full"} THEN <<op.file, op.slot>>
  ELSE op

View ==
  IF Cut THEN << op, cache # <<>> >> ELSE
  << [a \in Reached \cap Addrs |-> mem[a]],
     [a \in Reached \cap DOMAIN cache |-> cache[a]], Len(cache), Doing,
     stage, todo >>
=============================================================================
