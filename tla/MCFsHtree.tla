----------------------------- MODULE MCFsHtree ------------------------------
(***************************************************************************)
(* FsHtree for TLC: the uses of a file.                                    *)
(***************************************************************************)
EXTENDS FsHtree

GrowingUses ==
  [caller : {"user"}, truncates : {FALSE}, nodes : {5}, writes : {6}]
    \cup [caller : {"dir"}, truncates : {FALSE}, nodes : {3}, writes : {6}]

ShrinkingUses ==
  [caller : {"user", "dir"}, truncates : {TRUE}, nodes : {3}, writes : {5}]

AllUses == GrowingUses \cup ShrinkingUses

DeepUses ==
  [caller : {"user"}, truncates : {TRUE}, nodes : {4}, writes : {5}]
=============================================================================
