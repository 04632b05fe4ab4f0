------------------------------ MODULE MC_MiniDb ------------------------------
(* Instances of MiniDb for TLC.                                             *)
EXTENDS MiniDb

CONSTANTS k1, k2

TwoKeys == {k1, k2}
Plain(v, w) == [k \in TwoKeys |-> IF k = k1 THEN v ELSE w]

SetOne == Plain("set", "keep")
DelOne == Plain("del", "keep")
Mixed == Plain("del", "set")

Shapes == {SetOne, DelOne, Mixed}
Batches == {SetOne, Mixed}

AllDatabases == [unique : BOOLEAN, always : BOOLEAN]
Serialised == [unique : {TRUE}, always : {FALSE}]
=============================================================================
