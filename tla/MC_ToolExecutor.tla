-------------------------- MODULE MC_ToolExecutor --------------------------
(* Instance for TLC: a directory "r" with a file "a" written in two cases. *)
EXTENDS ToolExecutor

MCSegment == {"r", "a", "A"}
MCFold == [s \in MCSegment |-> IF s = "A" THEN "a" ELSE s]
MCFiles == {<<"r">>, <<"r", "a">>, <<"r", "A">>}

File(op, path, rec) == [kind |-> "file", operation |-> op, path |-> path, recursive |-> rec]

(* A search of the tree, a write of the file, and a read of the same file   *)
(* under its other spelling: the write conflicts with each of the others.   *)
MCAccessLists ==
  { {File("search", <<"r">>, TRUE)},
    {File("write", <<"r", "a">>, FALSE)},
    {File("read", <<"r", "A">>, FALSE)} }

=============================================================================
