-------------------------- MODULE PythonProfileMC --------------------------
(* PythonProfile for TLC: chains of up to three frames, and names of every form. *)
EXTENDS PythonProfile

\* A frame of Python (owned by the thread), one that is skipped, one that is not readable.
Py(code, previous) == [owner |-> 0, executable |-> code, previous |-> previous]
Skip(previous) == [owner |-> 3, executable |-> Null, previous |-> previous]
Bad == [owner |-> Fault, executable |-> Fault, previous |-> Fault]

MCMemories ==
  {[f \in Frames |-> CASE f = "f1" -> frame[1] [] f = "f2" -> frame[2] [] OTHER -> frame[3]] :
     frame \in
       {<<Py("c1", "f2"), Skip("f3"), Py("c2", Null)>>,     \* stacks of one and two
        <<Py("c1", "f2"), Py("c2", "f3"), Py("c2", "f2")>>, \* a cycle of Python frames
        <<Skip("f2"), Skip("f1"), Py("c1", Fault)>>,        \* one of skipped frames, a bad link
        <<Skip("f1"), Py("c2", "f2"), Skip(Fault)>>}}

MCString(form, text) == [form |-> form, text |-> text]
MCContents == {MCString("ascii", <<"cpu">>), MCString("ascii", <<"a", "a", "b", "b">>),
               MCString("ucs2", <<"k", "k">>), MCString("utf8", <<"k", "k">>),
               MCString("ucs4", <<"a", "b">>)}
MCObjects == {[qualname |-> "s1", name |-> Null], [qualname |-> "s2", name |-> "s3"]}
MCHeaps ==
  {[object |-> [c1 |-> [qualname |-> "s1", name |-> Null], c2 |-> [qualname |-> "s2", name |-> "s3"]],
    string |-> [s1 |-> MCString("ascii", <<"cpu">>), s2 |-> MCString("ascii", <<"a", "a", "b", "b">>),
                s3 |-> x]] :
     x \in {MCString("ucs2", <<"k", "k">>), MCString("ucs4", <<"a", "b">>)}}
MCRemains == {[qualname |-> Fault, name |-> Fault]}
MCWidth == [ch \in {"a", "b", "cpu", "k"} |-> IF ch \in {"cpu", "k"} THEN 3 ELSE 1]
=============================================================================
