---------------------------- MODULE AgentEncode ----------------------------
(***************************************************************************)
(* The agent's encoder, src/encode/pprof.rs: the reports of a session      *)
(* become one pprof profile, whose samples name locations, locations name  *)
(* functions and functions name strings, each by its place in a table.     *)
(*                                                                         *)
(* A table and the hash map that indexes it are one sequence here: both    *)
(* get an entry at the same time, and the id is the entry's place.         *)
(***************************************************************************)
EXTENDS FiniteSetsExt, Naturals, SequencesExt

CONSTANT TagValues   \* the values of thread tags, in the order of their strings

ASSUME AgentEncodeAssumption == TagValues \in Seq(ToSet(TagValues)) /\ IsInjective(TagValues)

Before(v, w) == \E i, j \in DOMAIN TagValues : i < j /\ TagValues[i] = v /\ TagValues[j] = w

Intern(table, entry) == IF Contains(table, entry) THEN table ELSE Append(table, entry)
Place(table, entry) == CHOOSE i \in DOMAIN table : table[i] = entry

\* Ids start at 0 for strings, at 1 for functions and locations.
add_string(b, string) == [b EXCEPT !.string_table = Intern(@, string)]
StringId(b, string) == Place(b.string_table, string) - 1

FunctionMirror(b, frame) ==
  [name |-> StringId(b, frame.name), filename |-> StringId(b, frame.filename)]

add_function(b, fm) == [b EXCEPT !.function = Intern(@, fm)]
add_location(b, lm) == [b EXCEPT !.location = Intern(@, lm)]

\* (mutated form) the line is not part of the key.
AddFrameAnyLine(acc, frame) ==
  LET b1 == add_string(add_string(acc.builder, frame.name), frame.filename)
      fm == FunctionMirror(b1, frame)
      b2 == add_function(b1, fm)
      id == Place(b2.function, fm)
      b3 == IF \E l \in ToSet(b2.location) : l.function_id = id THEN b2
            ELSE add_location(b2, [function_id |-> id, line |-> frame.line])
      at == CHOOSE i \in DOMAIN b3.location : b3.location[i].function_id = id
  IN  [builder |-> b3, location_id |-> Append(acc.location_id, at)]

\* The frame's strings, function and location, the last one added to those of the sample.
AddFrame(acc, frame) ==
  LET b1 == add_string(add_string(acc.builder, frame.name), frame.filename)
      fm == FunctionMirror(b1, frame)
      b2 == add_function(b1, fm)
      lm == [function_id |-> Place(b2.function, fm), line |-> frame.line]
      b3 == add_location(b2, lm)
  IN  [builder |-> b3, location_id |-> Append(acc.location_id, Place(b3.location, lm))]

AddFrames(builder, frames) ==
  LET added[n \in 0..Len(frames)] ==
        IF n = 0 THEN [builder |-> builder, location_id |-> <<>>]
        ELSE AddFrame(added[n - 1], frames[n])
  IN  added[Len(frames)]

\* One label per key: a later tag replaces an earlier one.
AddLabel(acc, tag) ==
  LET b == add_string(add_string(acc.builder, tag[1]), tag[2])
      key == StringId(b, tag[1])
  IN  [builder |-> b,
       label |-> [k \in {key} \union DOMAIN acc.label |->
                    IF k = key THEN StringId(b, tag[2]) ELSE acc.label[k]]]

AddLabels(builder, tags) ==
  LET added[n \in 0..Len(tags)] ==
        IF n = 0 THEN [builder |-> builder, label |-> [k \in {} |-> 0]]
        ELSE AddLabel(added[n - 1], tags[n])
  IN  added[Len(tags)]

\* BTreeSet<Tag>: by key, then by value.  The order of different keys shows in no profile.
InOrder(tags) ==
  CHOOSE q \in SetToSeqs(tags) :
    \A i, j \in DOMAIN q : i < j /\ q[i][1] = q[j][1] => Before(q[i][2], q[j][2])

\* The tags of the trace, and then those of its report.
AddSample(b, trace, metadata, value) ==
  LET framed == AddFrames(b, trace.stack)
      labelled == AddLabels(framed.builder, InOrder(trace.tags) \o InOrder(metadata))
      sample == [location_id |-> framed.location_id, value |-> value, label |-> labelled.label]
  IN  [labelled.builder EXCEPT !.sample = Append(@, sample)]

\* The traces of a report in any order,
AddReport(builder, r, period) ==
  LET traces == SetToSeq(DOMAIN r.data)
      added[n \in 0..Len(traces)] ==
        IF n = 0 THEN builder
        ELSE AddSample(added[n - 1], traces[n], r.metadata, r.data[traces[n]] * period)
  IN  added[Len(traces)]

\* and the reports in any order.
encode(reports, period) ==
  LET order == SetToSeq(reports)
      added[n \in 0..Len(order)] ==
        IF n = 0 THEN [string_table |-> <<"", "cpu", "nanoseconds">>, function |-> <<>>,
                       location |-> <<>>, sample |-> <<>>]
        ELSE AddReport(added[n - 1], order[n], period)
  IN  added[Len(order)]

-----------------------------------------------------------------------------
(* What a reader of the profile sees.                                      *)

String(p, id) == p.string_table[id + 1]

FrameOf(p, id) ==
  LET l == p.location[id]
      f == p.function[l.function_id]
  IN  [name |-> String(p, f.name), filename |-> String(p, f.filename), line |-> l.line]

SampleOf(p, s) ==
  [frames |-> [i \in DOMAIN s.location_id |-> FrameOf(p, s.location_id[i])],
   labels |-> {<<String(p, k), String(p, s.label[k])>> : k \in DOMAIN s.label}]

\* The value of each stack with each set of labels.
Decode(p) ==
  LET Seen(i) == SampleOf(p, p.sample[i])
  IN  [e \in {Seen(i) : i \in DOMAIN p.sample} |->
         MapThenSumSet(LAMBDA i : p.sample[i].value, {i \in DOMAIN p.sample : Seen(i) = e})]
=============================================================================
