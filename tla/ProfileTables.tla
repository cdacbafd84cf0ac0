--------------------------- MODULE ProfileTables ---------------------------
(***************************************************************************)
(* pprof_enc::ProfileBuilder: samples are accumulated in the tables of a   *)
(* pprof profile, encode() moves the tables out and reset() starts a new   *)
(* profile in the same builder.                                            *)
(*                                                                         *)
(* Each table has an index from an entry's key to its id.  They are kept   *)
(* apart, as in the code, for encode() takes the tables and leaves the     *)
(* indices.  A string is a sequence of characters.                         *)
(***************************************************************************)
EXTENDS FiniteSetsExt, Naturals, SequencesExt

EmptyIndex == [key \in {} |-> 0]
EmptyString == <<>>

\* `entry` is appended to `table` under `key`, if the key has no id yet.
With(index, key, id) ==
  [k \in {key} \union DOMAIN index |-> IF k = key THEN id ELSE index[k]]
Add(b, table, index, key, id, entry) ==
  IF key \in DOMAIN b[index] THEN b
  ELSE [b EXCEPT ![table] = Append(@, entry), ![index] = With(@, key, id)]

intern(b, string) == Add(b, "strings", "string_index", string, Len(b.strings), string)

\* ProfileBuilder::new and StringTable::new: string 0 is "".
NewBuilder ==
  intern([strings |-> <<>>, string_index |-> EmptyIndex,
          functions |-> <<>>, func_index |-> EmptyIndex,
          locations |-> <<>>, loc_index |-> EmptyIndex,
          samples |-> <<>>, sample_index |-> EmptyIndex], EmptyString)

is_empty(b) == b.samples = <<>>

WithStrings(b, frame) == intern(intern(b, frame.name), frame.filename)
FunctionKey(b, frame) ==
  <<b.string_index[frame.name], b.string_index[frame.filename], frame.first_line>>

intern_function(b, frame) ==
  LET b1 == WithStrings(b, frame)
      key == FunctionKey(b1, frame)
      id == Len(b.functions) + 1
  IN  Add(b1, "functions", "func_index", key, id,
          [id |-> id, name |-> key[1], filename |-> key[2], start_line |-> key[3]])

\* One location per function.
intern_location(b, func_id, line) ==
  LET id == Len(b.locations) + 1
  IN  Add(b, "locations", "loc_index", func_id, id,
          [id |-> id, function_id |-> func_id, line |-> line])

\* The builder and the location ids of the stack so far.
AddFrame(acc, frame) ==
  LET b1 == intern_function(acc.builder, frame)
      func_id == b1.func_index[FunctionKey(b1, frame)]
      b2 == intern_location(b1, func_id, frame.first_line)
  IN  [builder |-> b2, ids |-> Append(acc.ids, b2.loc_index[func_id])]

\* The same after every frame of a stack.
AddFrames(builder, frames) ==
  LET added[n \in 0..Len(frames)] ==
        IF n = 0 THEN [builder |-> builder, ids |-> <<>>] ELSE AddFrame(added[n - 1], frames[n])
  IN  added[Len(frames)]

\* Equal stacks are merged into one sample.
add_sample(builder, frames, count, period) ==
  LET acc == AddFrames(builder, frames)
      b == acc.builder
      value == count * period
  IN  IF acc.ids \in DOMAIN b.sample_index
      THEN [b EXCEPT !.samples[b.sample_index[acc.ids]].value = @ + value]
      ELSE Add(b, "samples", "sample_index", acc.ids, Len(b.samples) + 1,
               [location_id |-> acc.ids, value |-> value])

\* encode(): the profile, and what is left of the builder.
TypeStrings(b) == intern(intern(b, <<"cpu">>), <<"nanoseconds">>)

encode(b) ==
  LET t == TypeStrings(b)
  IN  [value_type |-> <<t.string_index[<<"cpu">>], t.string_index[<<"nanoseconds">>]>>,
       sample |-> t.samples, location |-> t.locations, function |-> t.functions,
       string_table |-> t.strings]

encoded(b) ==
  [TypeStrings(b) EXCEPT !.samples = <<>>, !.locations = <<>>, !.functions = <<>>,
                         !.strings = <<>>]

\* (mutated form) the map of the functions is not cleared.
ResetKeepsFunctions(b) == [NewBuilder EXCEPT !.func_index = b.func_index]

reset(b) == NewBuilder

-----------------------------------------------------------------------------
(* What a reader of a profile sees.                                        *)

StringIds(p) == 0..(Len(p.string_table) - 1)

\* Every reference in the profile leads to an entry with that id.
Closed(p) ==
  /\ StringIds(p) # {} /\ p.string_table[1] = EmptyString
  /\ ToSet(p.value_type) \subseteq StringIds(p)
  /\ \A i \in DOMAIN p.function :
       p.function[i].id = i /\ {p.function[i].name, p.function[i].filename} \subseteq StringIds(p)
  /\ \A i \in DOMAIN p.location :
       p.location[i].id = i /\ p.location[i].function_id \in DOMAIN p.function
  /\ \A i \in DOMAIN p.sample : ToSet(p.sample[i].location_id) \subseteq DOMAIN p.location

FrameOf(p, id) ==
  LET f == p.function[p.location[id].function_id]
  IN  [name |-> p.string_table[f.name + 1], filename |-> p.string_table[f.filename + 1],
       first_line |-> p.location[id].line]

StackOf(p, s) == [i \in DOMAIN s.location_id |-> FrameOf(p, s.location_id[i])]

\* The value of each stack.
Decode(p) ==
  [stack \in {StackOf(p, p.sample[i]) : i \in DOMAIN p.sample} |->
     MapThenSumSet(LAMBDA i : p.sample[i].value,
                   {i \in DOMAIN p.sample : StackOf(p, p.sample[i]) = stack})]
=============================================================================
