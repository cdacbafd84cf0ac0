----------------------------- MODULE BackendsMC -----------------------------
(* Backends for TLC: stacks whose frames differ in the line or in the file,  *)
(* and two groupings of one of them.                                        *)
EXTENDS Backends

MCFrame(name, filename, line) == [name |-> name, filename |-> filename, line |-> line]
MCShort == <<MCFrame("f", "a", 1)>>
MCLong == <<MCFrame("f", "a", 2), MCFrame("f", "", 1)>> \o MCShort
MCStacks == {MCShort, MCLong}
MCGrouped == {<<MCShort>>, <<SubSeq(MCLong, 1, 1), SubSeq(MCLong, 2, 3)>>,
              <<SubSeq(MCLong, 1, 2), SubSeq(MCLong, 3, 3)>>}
MCTagValues == <<"x", "y">>
=============================================================================
