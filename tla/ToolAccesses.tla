---------------------------- MODULE ToolAccesses ----------------------------
(***************************************************************************)
(* The resource accesses a tool call declares and the test that decides    *)
(* whether two calls of one model step may overlap: ToolAccesses.conflict  *)
(* (agent-core-v2, tool/toolContract.ts).                                  *)
(*                                                                         *)
(* A path is the sequence of its segments; Fold is the case folding that   *)
(* normalizePath applies.  Separators ("\", "//", a trailing "/") only     *)
(* delimit segments, so they vanish in this representation.                *)
(***************************************************************************)
EXTENDS Naturals, Sequences

CONSTANTS
  Segment,  \* path segments as written by the model
  Fold,     \* [Segment -> Segment]: what toLowerCase makes of a segment
  Files     \* the paths that exist for the reference definition (a set of sequences)

ASSUME FilesAssumption ==
  /\ Files \subseteq Seq(Segment)
  /\ Files # {}
  /\ Fold \in [Segment -> Segment]

Operation == {"read", "write", "readwrite", "search"}

FileAccess == [kind: {"file"}, operation: Operation, path: Files, recursive: BOOLEAN]
AllAccess  == [kind |-> "all"]
Access     == FileAccess \cup {AllAccess}

-----------------------------------------------------------------------------
(* The code's test. *)

normalizePath(path) == [i \in DOMAIN path |-> Fold[path[i]]]

fileOperationWrites(operation) == operation \in {"write", "readwrite"}

(* `long` starts with `short` followed by a separator, or is `short`. *)
Under(short, long) ==
  /\ Len(short) <= Len(long)
  /\ \A i \in 1..Len(short) : short[i] = long[i]

(* Mutant: only the left access is taken to be recursive. *)
OverlapsOneWay(left, right) ==
  \/ normalizePath(left.path) = normalizePath(right.path)
  \/ left.recursive /\ Under(normalizePath(left.path), normalizePath(right.path))

fileAccessesOverlap(left, right) ==
  LET leftPath  == normalizePath(left.path)
      rightPath == normalizePath(right.path)
  IN  \/ leftPath = rightPath
      \/ left.recursive  /\ Under(leftPath, rightPath)
      \/ right.recursive /\ Under(rightPath, leftPath)

(* Mutant: two reads of one file conflict. *)
ConflictsOnOverlap(left, right) ==
  left.kind = "all" \/ right.kind = "all" \/ fileAccessesOverlap(left, right)

resourceAccessesConflict(left, right) ==
  \/ left.kind = "all"
  \/ right.kind = "all"
  \/ /\ fileOperationWrites(left.operation) \/ fileOperationWrites(right.operation)
     /\ fileAccessesOverlap(left, right)

conflict(left, right) ==
  \E l \in left, r \in right : resourceAccessesConflict(l, r)

-----------------------------------------------------------------------------
(* What the test has to decide, stated on files instead of on paths: some   *)
(* file is touched by both accesses and one of them may change it.          *)

SameFile(p, q) == normalizePath(p) = normalizePath(q)

Touches(access, file) ==
  \/ access.kind = "all"
  \/ /\ access.kind = "file"
     /\ \/ SameFile(access.path, file)
        \/ access.recursive /\ Under(normalizePath(access.path), normalizePath(file))

MayChange(access) ==
  access.kind = "all" \/ (access.kind = "file" /\ fileOperationWrites(access.operation))

Clash(left, right) ==
  \E l \in left, r \in right :
    /\ MayChange(l) \/ MayChange(r)
    /\ \E file \in Files : Touches(l, file) /\ Touches(r, file)

=============================================================================
