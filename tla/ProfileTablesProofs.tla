------------------------ MODULE ProfileTablesProofs ------------------------
(***************************************************************************)
(* The tables that add_sample fills and encode() takes say what was added, *)
(* whatever the samples, of any depth, share.                              *)
(***************************************************************************)
EXTENDS ProfileTables, FiniteSetTheorems, WellFoundedInduction, TLAPS

-----------------------------------------------------------------------------
(* Tables and their indices.                                               *)

IsTable(q) == q \in Seq({q[i] : i \in DOMAIN q})

LEMMA Appended ==
  ASSUME NEW q, IsTable(q), NEW e
  PROVE  /\ Len(q) \in Nat /\ DOMAIN q = 1..Len(q)
         /\ IsTable(Append(q, e)) /\ DOMAIN Append(q, e) = 1..(Len(q) + 1)
         /\ Len(Append(q, e)) = Len(q) + 1
         /\ \A i \in 1..Len(q) : Append(q, e)[i] = q[i]
         /\ Append(q, e)[Len(q) + 1] = e
<1> DEFINE S == {q[i] : i \in DOMAIN q} \union {e}
           r == Append(q, e)
<1>1. q \in Seq(S) /\ e \in S
  <2>1. {q[i] : i \in DOMAIN q} \subseteq S
    OBVIOUS
  <2> HIDE DEF S
  <2>2. q \in Seq({q[i] : i \in DOMAIN q})
    BY DEF IsTable
  <2>3. q \in Seq(S)
    BY <2>1, <2>2
  <2> QED BY <2>3 DEF S
<1> HIDE DEF S
<1>2. /\ Len(q) \in Nat /\ DOMAIN q = 1..Len(q) /\ r \in Seq(S)
      /\ Len(r) = Len(q) + 1 /\ DOMAIN r = 1..(Len(q) + 1)
      /\ \A i \in 1..Len(q) : r[i] = q[i]
      /\ r[Len(q) + 1] = e
  BY <1>1
<1> HIDE DEF r
<1>3. r \in Seq({r[i] : i \in DOMAIN r})
  BY <1>2
<1> QED BY <1>2, <1>3 DEF r, IsTable

\* What Add does to one of the tables and to its index.
TableFields == {"strings", "string_index", "functions", "func_index", "locations", "loc_index",
           "samples", "sample_index"}

LEMMA Added ==
  ASSUME NEW b, TableFields \subseteq DOMAIN b,
         NEW table \in TableFields, NEW index \in TableFields, table # index, NEW key, NEW id, NEW entry
  PROVE  LET c == Add(b, table, index, key, id, entry)
         IN  /\ DOMAIN c = DOMAIN b
             /\ \A f \in TableFields : f # table /\ f # index => c[f] = b[f]
             /\ key \in DOMAIN b[index] => c = b
             /\ key \notin DOMAIN b[index] =>
                  /\ c[table] = Append(b[table], entry)
                  /\ DOMAIN c[index] = {key} \union DOMAIN b[index]
                  /\ c[index][key] = id
                  /\ \A k \in DOMAIN b[index] : c[index][k] = b[index][k]
<1>1. CASE key \in DOMAIN b[index]
  BY <1>1 DEF Add
<1>2. CASE key \notin DOMAIN b[index]
  <2> DEFINE c == Add(b, table, index, key, id, entry)
  <2>1. c = [b EXCEPT ![table] = Append(@, entry), ![index] = With(@, key, id)]
    BY <1>2 DEF Add
  <2>2. /\ DOMAIN c = DOMAIN b /\ c[table] = Append(b[table], entry)
        /\ c[index] = With(b[index], key, id)
        /\ \A f \in TableFields : f # table /\ f # index => c[f] = b[f]
    BY <2>1
  <2>3. /\ DOMAIN c[index] = {key} \union DOMAIN b[index] /\ c[index][key] = id
        /\ \A k \in DOMAIN b[index] : c[index][k] = b[index][k]
    BY <1>2, <2>2 DEF With
  <2> HIDE DEF c
  <2>4. /\ DOMAIN c = DOMAIN b
        /\ \A f \in TableFields : f # table /\ f # index => c[f] = b[f]
        /\ c[table] = Append(b[table], entry)
        /\ DOMAIN c[index] = {key} \union DOMAIN b[index]
        /\ c[index][key] = id
        /\ \A k \in DOMAIN b[index] : c[index][k] = b[index][k]
    BY <2>2, <2>3
  <2> QED BY <1>2, <2>4 DEF c
<1> QED BY <1>1, <1>2

-----------------------------------------------------------------------------
(* The builder.  Of each table, its index leads from the key of an entry   *)
(* to the place of it, and back.                                           *)

KeyOf(f) == <<f.name, f.filename, f.start_line>>
Strings(b) == 0..(Len(b.strings) - 1)

StringsIndexed(b) ==
  /\ IsTable(b.strings) /\ b.strings # <<>> /\ b.strings[1] = EmptyString
  /\ \A i \in DOMAIN b.strings :
       b.strings[i] \in DOMAIN b.string_index /\ b.string_index[b.strings[i]] = i - 1
  /\ \A s \in DOMAIN b.string_index :
       b.string_index[s] \in Strings(b) /\ b.strings[b.string_index[s] + 1] = s

FunctionsIndexed(b) ==
  /\ IsTable(b.functions)
  /\ \A i \in DOMAIN b.functions :
       LET f == b.functions[i]
       IN  /\ f.id = i /\ {f.name, f.filename} \subseteq Strings(b)
           /\ KeyOf(f) \in DOMAIN b.func_index /\ b.func_index[KeyOf(f)] = i
  /\ \A key \in DOMAIN b.func_index :
       b.func_index[key] \in DOMAIN b.functions /\ KeyOf(b.functions[b.func_index[key]]) = key

LocationsIndexed(b) ==
  /\ IsTable(b.locations)
  /\ \A i \in DOMAIN b.locations :
       LET l == b.locations[i]
       IN  /\ l.id = i /\ l.function_id \in DOMAIN b.functions
           /\ l.line = b.functions[l.function_id].start_line
           /\ l.function_id \in DOMAIN b.loc_index /\ b.loc_index[l.function_id] = i
  /\ \A id \in DOMAIN b.loc_index :
       b.loc_index[id] \in DOMAIN b.locations /\ b.locations[b.loc_index[id]].function_id = id

SamplesIndexed(b) ==
  /\ IsTable(b.samples)
  /\ \A i \in DOMAIN b.samples :
       LET s == b.samples[i]
       IN  /\ s = [location_id |-> s.location_id, value |-> s.value]
           /\ s.location_id \in Seq(DOMAIN b.locations)
           /\ s.location_id \in DOMAIN b.sample_index /\ b.sample_index[s.location_id] = i
  /\ \A ids \in DOMAIN b.sample_index :
       b.sample_index[ids] \in DOMAIN b.samples /\ b.samples[b.sample_index[ids]].location_id = ids

Indexed(b) ==
  /\ TableFields \subseteq DOMAIN b
  /\ StringsIndexed(b) /\ FunctionsIndexed(b) /\ LocationsIndexed(b) /\ SamplesIndexed(b)

\* What ids mean in b, they mean in c.
Keeps(b, c) ==
  /\ \A table \in {"strings", "functions", "locations"} :
       \A i \in DOMAIN b[table] : i \in DOMAIN c[table] /\ c[table][i] = b[table][i]
  /\ c.samples = b.samples /\ c.sample_index = b.sample_index

LEMMA KeepsAll == \A b : Keeps(b, b)
  BY DEF Keeps

LEMMA KeepsOn == \A b, c, d : Keeps(b, c) /\ Keeps(c, d) => Keeps(b, d)
  BY DEF Keeps

\* intern(): the string has a place, and what has one keeps it.
LEMMA InternIndexed ==
  ASSUME NEW b, Indexed(b), NEW string
  PROVE  LET c == intern(b, string)
         IN  /\ Indexed(c) /\ Keeps(b, c) /\ string \in DOMAIN c.string_index
             /\ c.functions = b.functions /\ c.func_index = b.func_index
             /\ c.locations = b.locations /\ c.loc_index = b.loc_index
<1> DEFINE n == Len(b.strings)
           c == Add(b, "strings", "string_index", string, n, string)
<1>1. intern(b, string) = c
  BY DEF intern
<1>2. TableFields \subseteq DOMAIN b /\ StringsIndexed(b) /\ FunctionsIndexed(b)
      /\ LocationsIndexed(b) /\ SamplesIndexed(b)
  BY DEF Indexed
<1>3. /\ DOMAIN c = DOMAIN b
      /\ \A f \in TableFields : f # "strings" /\ f # "string_index" => c[f] = b[f]
      /\ string \in DOMAIN b.string_index => c = b
      /\ string \notin DOMAIN b.string_index =>
           /\ c.strings = Append(b.strings, string)
           /\ DOMAIN c.string_index = {string} \union DOMAIN b.string_index
           /\ c.string_index[string] = n
           /\ \A k \in DOMAIN b.string_index : c.string_index[k] = b.string_index[k]
  <2>1. "strings" \in TableFields /\ "string_index" \in TableFields /\ "strings" # "string_index"
    BY DEF TableFields
  <2> HIDE DEF n
  <2> QED BY <1>2, <2>1, Added
<1> HIDE DEF c, n
<1>4. CASE string \in DOMAIN b.string_index
  BY <1>1, <1>3, <1>4, KeepsAll
<1>5. CASE string \notin DOMAIN b.string_index
  <2>1. /\ c.functions = b.functions /\ c.func_index = b.func_index
        /\ c.locations = b.locations /\ c.loc_index = b.loc_index
        /\ c.samples = b.samples /\ c.sample_index = b.sample_index
    BY <1>3 DEF TableFields
  <2>2. /\ n \in Nat /\ DOMAIN b.strings = 1..n /\ IsTable(c.strings)
        /\ DOMAIN c.strings = 1..(n + 1) /\ Len(c.strings) = n + 1
        /\ \A i \in 1..n : c.strings[i] = b.strings[i]
        /\ c.strings[n + 1] = string
    <3>1. IsTable(b.strings) /\ c.strings = Append(b.strings, string)
      BY <1>2, <1>3, <1>5 DEF StringsIndexed
    <3> QED BY <3>1, Appended DEF n
  <2>3. Strings(b) = 0..(n - 1) /\ Strings(c) = 0..n
    BY <2>2 DEF Strings, n
  <2>4. StringsIndexed(c)
    <3>1. n # 0
      BY <1>2, <2>2 DEF StringsIndexed
    <3>2. c.strings # <<>> /\ c.strings[1] = EmptyString
      BY <1>2, <2>2, <3>1 DEF StringsIndexed
    <3>3. ASSUME NEW i \in 1..(n + 1)
          PROVE  c.strings[i] \in DOMAIN c.string_index /\ c.string_index[c.strings[i]] = i - 1
      <4>1. CASE i \in 1..n
        BY <1>2, <1>3, <1>5, <2>2, <4>1 DEF StringsIndexed
      <4>2. CASE i = n + 1
        BY <1>3, <1>5, <2>2, <4>2
      <4> QED BY <2>2, <4>1, <4>2
    <3>4. ASSUME NEW s \in DOMAIN c.string_index
          PROVE  c.string_index[s] \in Strings(c) /\ c.strings[c.string_index[s] + 1] = s
      <4>1. CASE s = string
        BY <1>3, <1>5, <2>2, <2>3, <4>1
      <4>2. CASE s \in DOMAIN b.string_index
        <5>1. b.string_index[s] \in 0..(n - 1) /\ b.strings[b.string_index[s] + 1] = s
          BY <1>2, <2>3, <4>2 DEF StringsIndexed
        <5>2. b.string_index[s] + 1 \in 1..n /\ b.string_index[s] \in 0..n
          BY <2>2, <5>1
        <5> QED BY <1>3, <1>5, <2>2, <2>3, <4>2, <5>1, <5>2
      <4> QED BY <1>3, <1>5, <4>1, <4>2
    <3> QED BY <2>2, <3>2, <3>3, <3>4 DEF StringsIndexed
  <2>5. Strings(b) \subseteq Strings(c)
    BY <2>2, <2>3
  <2>6. FunctionsIndexed(c)
    BY <1>2, <2>1, <2>5 DEF FunctionsIndexed
  <2>7. LocationsIndexed(c) /\ SamplesIndexed(c)
    BY <1>2, <2>1 DEF LocationsIndexed, SamplesIndexed
  <2>8. Indexed(c)
    BY <1>2, <1>3, <2>4, <2>6, <2>7 DEF Indexed
  <2>9. Keeps(b, c)
    <3>1. \A i \in DOMAIN b.strings : i \in DOMAIN c.strings /\ c.strings[i] = b.strings[i]
      BY <2>2
    <3> QED BY <2>1, <3>1 DEF Keeps
  <2> QED BY <1>1, <1>3, <1>5, <2>1, <2>8, <2>9
<1> QED BY <1>4, <1>5

LEMMA KeepsStrings ==
  ASSUME NEW b, Indexed(b), NEW c, Indexed(c), Keeps(b, c), NEW s \in DOMAIN b.string_index
  PROVE  s \in DOMAIN c.string_index /\ c.string_index[s] = b.string_index[s]
<1> DEFINE id == b.string_index[s]
<1>1. /\ IsTable(b.strings) /\ id \in 0..(Len(b.strings) - 1) /\ b.strings[id + 1] = s
      /\ \A i \in DOMAIN c.strings :
           c.strings[i] \in DOMAIN c.string_index /\ c.string_index[c.strings[i]] = i - 1
  BY DEF Indexed, StringsIndexed, Strings
<1> HIDE DEF id
<1>2. Len(b.strings) \in Nat /\ DOMAIN b.strings = 1..Len(b.strings)
  BY <1>1, Appended
<1>3. id + 1 \in DOMAIN b.strings /\ id \in Nat
  BY <1>1, <1>2
<1>4. id + 1 \in DOMAIN c.strings /\ c.strings[id + 1] = s
  BY <1>1, <1>3 DEF Keeps
<1>5. s \in DOMAIN c.string_index /\ c.string_index[s] = (id + 1) - 1
  BY <1>1, <1>4
<1> QED BY <1>3, <1>5 DEF id

\* The strings of a frame, and the key of its function.
LEMMA WithStringsIndexed ==
  ASSUME NEW b, Indexed(b), NEW frame
  PROVE  LET c == WithStrings(b, frame)
             key == FunctionKey(c, frame)
         IN  /\ Indexed(c) /\ Keeps(b, c)
             /\ c.functions = b.functions /\ c.func_index = b.func_index
             /\ c.locations = b.locations /\ c.loc_index = b.loc_index
             /\ key[1] \in Strings(c) /\ c.strings[key[1] + 1] = frame.name
             /\ key[2] \in Strings(c) /\ c.strings[key[2] + 1] = frame.filename
             /\ key[3] = frame.first_line /\ key = <<key[1], key[2], key[3]>>
<1> DEFINE b1 == intern(b, frame.name)
           c == intern(b1, frame.filename)
<1>1. /\ Indexed(b1) /\ Keeps(b, b1) /\ frame.name \in DOMAIN b1.string_index
      /\ b1.functions = b.functions /\ b1.func_index = b.func_index
      /\ b1.locations = b.locations /\ b1.loc_index = b.loc_index
  BY InternIndexed
<1> HIDE DEF b1
<1>2. /\ Indexed(c) /\ Keeps(b1, c) /\ frame.filename \in DOMAIN c.string_index
      /\ c.functions = b1.functions /\ c.func_index = b1.func_index
      /\ c.locations = b1.locations /\ c.loc_index = b1.loc_index
  BY <1>1, InternIndexed
<1> HIDE DEF c
<1>3. frame.name \in DOMAIN c.string_index
  BY <1>1, <1>2, KeepsStrings
<1>4. Keeps(b, c)
  BY <1>1, <1>2, KeepsOn
<1>5. \A s \in DOMAIN c.string_index :
        c.string_index[s] \in Strings(c) /\ c.strings[c.string_index[s] + 1] = s
  BY <1>2 DEF Indexed, StringsIndexed
<1>6. c = WithStrings(b, frame)
  BY DEF WithStrings, b1, c
<1>7. FunctionKey(c, frame) =
        <<c.string_index[frame.name], c.string_index[frame.filename], frame.first_line>>
  BY DEF FunctionKey
<1> QED BY <1>1, <1>2, <1>3, <1>4, <1>5, <1>6, <1>7

LEMMA InternFunctionIndexed ==
  ASSUME NEW b, Indexed(b), NEW frame
  PROVE  LET c == intern_function(b, frame)
             key == FunctionKey(c, frame)
             f == c.functions[c.func_index[key]]
         IN  /\ Indexed(c) /\ Keeps(b, c)
             /\ key \in DOMAIN c.func_index /\ f.start_line = frame.first_line
             /\ c.strings[f.name + 1] = frame.name /\ c.strings[f.filename + 1] = frame.filename
<1> DEFINE b1 == WithStrings(b, frame)
           key == FunctionKey(b1, frame)
           n == Len(b1.functions)
           entry == [id |-> n + 1, name |-> key[1], filename |-> key[2], start_line |-> key[3]]
           c == Add(b1, "functions", "func_index", key, n + 1, entry)
<1>1. /\ Indexed(b1) /\ Keeps(b, b1)
      /\ b1.functions = b.functions /\ b1.func_index = b.func_index
      /\ key[1] \in Strings(b1) /\ b1.strings[key[1] + 1] = frame.name
      /\ key[2] \in Strings(b1) /\ b1.strings[key[2] + 1] = frame.filename
      /\ key[3] = frame.first_line /\ key = <<key[1], key[2], key[3]>>
  BY WithStringsIndexed
<1>2. c = intern_function(b, frame)
  BY <1>1 DEF intern_function
<1>3. KeyOf(entry) = key /\ entry.id = n + 1 /\ entry.name = key[1] /\ entry.filename = key[2]
  <2>1. KeyOf(entry) = <<key[1], key[2], key[3]>>
    BY DEF KeyOf
  <2> QED BY <1>1, <2>1
<1>4. TableFields \subseteq DOMAIN b1 /\ StringsIndexed(b1) /\ FunctionsIndexed(b1)
      /\ LocationsIndexed(b1) /\ SamplesIndexed(b1)
  BY <1>1 DEF Indexed
<1> HIDE DEF b1
<1>5. /\ DOMAIN c = DOMAIN b1
      /\ \A f \in TableFields : f # "functions" /\ f # "func_index" => c[f] = b1[f]
      /\ key \in DOMAIN b1.func_index => c = b1
      /\ key \notin DOMAIN b1.func_index =>
           /\ c.functions = Append(b1.functions, entry)
           /\ DOMAIN c.func_index = {key} \union DOMAIN b1.func_index
           /\ c.func_index[key] = n + 1
           /\ \A k \in DOMAIN b1.func_index : c.func_index[k] = b1.func_index[k]
  <2>1. "functions" \in TableFields /\ "func_index" \in TableFields /\ "functions" # "func_index"
    BY DEF TableFields
  <2> HIDE DEF key, entry, n
  <2> QED BY <1>4, <2>1, Added
<1> HIDE DEF c, n, entry
<1>6. /\ c.strings = b1.strings /\ c.string_index = b1.string_index
      /\ c.locations = b1.locations /\ c.loc_index = b1.loc_index
      /\ c.samples = b1.samples /\ c.sample_index = b1.sample_index
  BY <1>5 DEF TableFields
<1>7. FunctionKey(c, frame) = key
  BY <1>6 DEF FunctionKey
<1> HIDE DEF key
<1>8. Strings(c) = Strings(b1)
  BY <1>6 DEF Strings
<1>9. StringsIndexed(c)
  BY <1>4, <1>6, <1>8 DEF StringsIndexed
<1>10. FunctionsIndexed(c) /\ key \in DOMAIN c.func_index /\ Keeps(b1, c)
       /\ \A i \in DOMAIN b1.functions : i \in DOMAIN c.functions /\ c.functions[i] = b1.functions[i]
  <2>1. CASE key \in DOMAIN b1.func_index
    BY <1>4, <1>5, <2>1, KeepsAll
  <2>2. CASE key \notin DOMAIN b1.func_index
    <3>1. /\ n \in Nat /\ DOMAIN b1.functions = 1..n /\ IsTable(c.functions)
          /\ DOMAIN c.functions = 1..(n + 1)
          /\ \A i \in 1..n : c.functions[i] = b1.functions[i]
          /\ c.functions[n + 1] = entry
      <4>1. IsTable(b1.functions) /\ c.functions = Append(b1.functions, entry)
        BY <1>4, <1>5, <2>2 DEF FunctionsIndexed
      <4> QED BY <4>1, Appended DEF n
    <3>2. ASSUME NEW i \in 1..(n + 1)
          PROVE  /\ c.functions[i].id = i
                 /\ c.functions[i].name \in Strings(c) /\ c.functions[i].filename \in Strings(c)
                 /\ KeyOf(c.functions[i]) \in DOMAIN c.func_index
                 /\ c.func_index[KeyOf(c.functions[i])] = i
      <4>1. CASE i \in 1..n
        BY <1>4, <1>5, <1>8, <2>2, <3>1, <4>1 DEF FunctionsIndexed
      <4>2. CASE i = n + 1
        BY <1>1, <1>3, <1>5, <1>8, <2>2, <3>1, <4>2
      <4> QED BY <3>1, <4>1, <4>2
    <3>3. ASSUME NEW k \in DOMAIN c.func_index
          PROVE  c.func_index[k] \in 1..(n + 1) /\ KeyOf(c.functions[c.func_index[k]]) = k
      <4>1. CASE k = key
        BY <1>3, <1>5, <2>2, <3>1, <4>1
      <4>2. CASE k \in DOMAIN b1.func_index
        <5>1. b1.func_index[k] \in 1..n /\ KeyOf(b1.functions[b1.func_index[k]]) = k
          BY <1>4, <3>1, <4>2 DEF FunctionsIndexed
        <5> QED BY <1>5, <2>2, <3>1, <4>2, <5>1
      <4> QED BY <1>5, <2>2, <4>1, <4>2
    <3>4. FunctionsIndexed(c)
      BY <3>1, <3>2, <3>3 DEF FunctionsIndexed
    <3>5. \A i \in DOMAIN b1.functions : i \in DOMAIN c.functions /\ c.functions[i] = b1.functions[i]
      BY <3>1
    <3> QED BY <1>5, <1>6, <2>2, <3>4, <3>5 DEF Keeps
  <2> QED BY <2>1, <2>2
<1>11. LocationsIndexed(c)
  BY <1>4, <1>6, <1>10 DEF LocationsIndexed
<1>12. SamplesIndexed(c)
  BY <1>4, <1>6 DEF SamplesIndexed
<1>13. Indexed(c)
  BY <1>4, <1>5, <1>9, <1>10, <1>11, <1>12 DEF Indexed
<1>14. Keeps(b, c)
  BY <1>1, <1>10, KeepsOn
<1>15. KeyOf(c.functions[c.func_index[key]]) = <<key[1], key[2], key[3]>>
  BY <1>1, <1>10 DEF FunctionsIndexed
<1>16. LET f == c.functions[c.func_index[key]]
       IN  f.name = key[1] /\ f.filename = key[2] /\ f.start_line = key[3]
  BY <1>15 DEF KeyOf
<1> QED BY <1>1, <1>2, <1>6, <1>7, <1>10, <1>13, <1>14, <1>16

\* What a location stands for.
FrameAt(b, id) ==
  LET f == b.functions[b.locations[id].function_id]
  IN  [name |-> b.strings[f.name + 1], filename |-> b.strings[f.filename + 1],
       first_line |-> b.locations[id].line]

LEMMA StringOf ==
  ASSUME NEW b, StringsIndexed(b), NEW id \in Strings(b)
  PROVE  id \in Nat /\ id + 1 \in DOMAIN b.strings /\ b.string_index[b.strings[id + 1]] = id
<1>1. IsTable(b.strings) /\ \A i \in DOMAIN b.strings : b.string_index[b.strings[i]] = i - 1
  BY DEF StringsIndexed
<1>2. Len(b.strings) \in Nat /\ DOMAIN b.strings = 1..Len(b.strings)
  BY <1>1, Appended
<1>3. id \in Nat /\ id + 1 \in DOMAIN b.strings
  BY <1>2 DEF Strings
<1> QED BY <1>1, <1>3

LEMMA FrameStays ==
  ASSUME NEW b, Indexed(b), NEW c, Keeps(b, c), NEW id \in DOMAIN b.locations
  PROVE  id \in DOMAIN c.locations /\ FrameAt(c, id) = FrameAt(b, id)
<1> DEFINE l == b.locations[id]
           f == b.functions[l.function_id]
<1>1. l.function_id \in DOMAIN b.functions
  BY DEF Indexed, LocationsIndexed
<1>2. f.name \in Strings(b) /\ f.filename \in Strings(b)
  BY <1>1 DEF Indexed, FunctionsIndexed
<1>3. f.name + 1 \in DOMAIN b.strings /\ f.filename + 1 \in DOMAIN b.strings
  BY <1>2, StringOf DEF Indexed
<1>4. id \in DOMAIN c.locations /\ c.locations[id] = l /\ c.functions[l.function_id] = f
  BY <1>1 DEF Keeps
<1>5. c.strings[f.name + 1] = b.strings[f.name + 1]
      /\ c.strings[f.filename + 1] = b.strings[f.filename + 1]
  BY <1>3 DEF Keeps
<1> HIDE DEF l, f
<1> QED BY <1>4, <1>5 DEF FrameAt, l, f

\* One location per frame.
LEMMA OneLocation ==
  ASSUME NEW b, Indexed(b), NEW i \in DOMAIN b.locations, NEW j \in DOMAIN b.locations,
         FrameAt(b, i) = FrameAt(b, j)
  PROVE  i = j
<1> DEFINE FunctionOf(id) == b.functions[b.locations[id].function_id]
<1>1. ASSUME NEW id \in DOMAIN b.locations
      PROVE  LET f == FunctionOf(id)
             IN  /\ f.name \in Strings(b) /\ f.filename \in Strings(b)
                 /\ b.locations[id].line = f.start_line
                 /\ b.func_index[KeyOf(f)] = b.locations[id].function_id
                 /\ b.loc_index[b.locations[id].function_id] = id
  <2>1. /\ b.locations[id].function_id \in DOMAIN b.functions
        /\ b.locations[id].line = FunctionOf(id).start_line
        /\ b.loc_index[b.locations[id].function_id] = id
    BY DEF Indexed, LocationsIndexed
  <2> QED BY <2>1 DEF Indexed, FunctionsIndexed
<1>2. ASSUME NEW id \in DOMAIN b.locations
      PROVE  /\ FunctionOf(id).name = b.string_index[FrameAt(b, id).name]
             /\ FunctionOf(id).filename = b.string_index[FrameAt(b, id).filename]
             /\ FunctionOf(id).start_line = FrameAt(b, id).first_line
  <2>1. /\ FrameAt(b, id).name = b.strings[FunctionOf(id).name + 1]
        /\ FrameAt(b, id).filename = b.strings[FunctionOf(id).filename + 1]
        /\ FrameAt(b, id).first_line = b.locations[id].line
    BY DEF FrameAt
  <2> HIDE DEF FunctionOf
  <2> QED BY <1>1, <2>1, StringOf DEF Indexed
<1>3. KeyOf(FunctionOf(i)) = KeyOf(FunctionOf(j))
  <2> HIDE DEF FunctionOf
  <2> QED BY <1>2 DEF KeyOf
<1>4. b.locations[i].function_id = b.locations[j].function_id
  <2> HIDE DEF FunctionOf
  <2> QED BY <1>1, <1>3
<1> QED BY <1>1, <1>4

LEMMA InternLocationIndexed ==
  ASSUME NEW b, Indexed(b), NEW id \in DOMAIN b.functions,
         NEW line, line = b.functions[id].start_line
  PROVE  LET c == intern_location(b, id, line)
         IN  /\ Indexed(c) /\ Keeps(b, c)
             /\ id \in DOMAIN c.loc_index /\ c.loc_index[id] \in DOMAIN c.locations
             /\ c.locations[c.loc_index[id]].function_id = id
             /\ c.locations[c.loc_index[id]].line = line
             /\ c.functions = b.functions /\ c.strings = b.strings
<1> DEFINE n == Len(b.locations)
           entry == [id |-> n + 1, function_id |-> id, line |-> line]
           c == Add(b, "locations", "loc_index", id, n + 1, entry)
<1>1. c = intern_location(b, id, line)
  BY DEF intern_location
<1>2. entry.id = n + 1 /\ entry.function_id = id /\ entry.line = line
  OBVIOUS
<1>3. TableFields \subseteq DOMAIN b /\ StringsIndexed(b) /\ FunctionsIndexed(b)
      /\ LocationsIndexed(b) /\ SamplesIndexed(b)
  BY DEF Indexed
<1>4. /\ DOMAIN c = DOMAIN b
      /\ \A f \in TableFields : f # "locations" /\ f # "loc_index" => c[f] = b[f]
      /\ id \in DOMAIN b.loc_index => c = b
      /\ id \notin DOMAIN b.loc_index =>
           /\ c.locations = Append(b.locations, entry)
           /\ DOMAIN c.loc_index = {id} \union DOMAIN b.loc_index
           /\ c.loc_index[id] = n + 1
           /\ \A k \in DOMAIN b.loc_index : c.loc_index[k] = b.loc_index[k]
  <2>1. "locations" \in TableFields /\ "loc_index" \in TableFields /\ "locations" # "loc_index"
    BY DEF TableFields
  <2> HIDE DEF entry, n
  <2> QED BY <1>3, <2>1, Added
<1> HIDE DEF c, n, entry
<1>5. /\ c.strings = b.strings /\ c.string_index = b.string_index
      /\ c.functions = b.functions /\ c.func_index = b.func_index
      /\ c.samples = b.samples /\ c.sample_index = b.sample_index
  BY <1>4 DEF TableFields
<1>6. StringsIndexed(c) /\ FunctionsIndexed(c)
  BY <1>3, <1>5 DEF StringsIndexed, FunctionsIndexed, Strings
<1>7. LocationsIndexed(c) /\ id \in DOMAIN c.loc_index /\ Keeps(b, c)
  <2>1. CASE id \in DOMAIN b.loc_index
    BY <1>3, <1>4, <2>1, KeepsAll
  <2>2. CASE id \notin DOMAIN b.loc_index
    <3>1. /\ n \in Nat /\ DOMAIN b.locations = 1..n /\ IsTable(c.locations)
          /\ DOMAIN c.locations = 1..(n + 1)
          /\ \A i \in 1..n : c.locations[i] = b.locations[i]
          /\ c.locations[n + 1] = entry
      <4>1. IsTable(b.locations) /\ c.locations = Append(b.locations, entry)
        BY <1>3, <1>4, <2>2 DEF LocationsIndexed
      <4> QED BY <4>1, Appended DEF n
    <3>2. ASSUME NEW i \in 1..(n + 1)
          PROVE  LET l == c.locations[i]
                 IN  /\ l.id = i /\ l.function_id \in DOMAIN c.functions
                     /\ l.line = c.functions[l.function_id].start_line
                     /\ l.function_id \in DOMAIN c.loc_index /\ c.loc_index[l.function_id] = i
      <4>1. CASE i \in 1..n
        <5>1. LET l == b.locations[i]
              IN  /\ l.id = i /\ l.function_id \in DOMAIN b.functions
                  /\ l.line = b.functions[l.function_id].start_line
                  /\ l.function_id \in DOMAIN b.loc_index /\ b.loc_index[l.function_id] = i
          BY <1>3, <3>1, <4>1 DEF LocationsIndexed
        <5>2. c.locations[i] = b.locations[i]
          BY <3>1, <4>1
        <5> QED BY <1>4, <1>5, <2>2, <5>1, <5>2
      <4>2. CASE i = n + 1
        BY <1>2, <1>4, <1>5, <2>2, <3>1, <4>2
      <4> QED BY <3>1, <4>1, <4>2
    <3>3. ASSUME NEW k \in DOMAIN c.loc_index
          PROVE  c.loc_index[k] \in 1..(n + 1) /\ c.locations[c.loc_index[k]].function_id = k
      <4>1. CASE k = id
        BY <1>2, <1>4, <2>2, <3>1, <4>1
      <4>2. CASE k \in DOMAIN b.loc_index
        <5>1. b.loc_index[k] \in 1..n /\ b.locations[b.loc_index[k]].function_id = k
          BY <1>3, <3>1, <4>2 DEF LocationsIndexed
        <5> QED BY <1>4, <2>2, <3>1, <4>2, <5>1
      <4> QED BY <1>4, <2>2, <4>1, <4>2
    <3>4. LocationsIndexed(c)
      BY <3>1, <3>2, <3>3 DEF LocationsIndexed
    <3>5. \A i \in DOMAIN b.locations : i \in DOMAIN c.locations /\ c.locations[i] = b.locations[i]
      BY <3>1
    <3> QED BY <1>4, <1>5, <2>2, <3>4, <3>5 DEF Keeps
  <2> QED BY <2>1, <2>2
<1>8. SamplesIndexed(c)
  <2>1. DOMAIN b.locations \subseteq DOMAIN c.locations
    BY <1>7 DEF Keeps
  <2>2. ASSUME NEW s \in Seq(DOMAIN b.locations) PROVE s \in Seq(DOMAIN c.locations)
    BY <2>1
  <2> QED BY <1>3, <1>5, <2>2 DEF SamplesIndexed
<1>9. Indexed(c)
  BY <1>3, <1>4, <1>6, <1>7, <1>8 DEF Indexed
<1>10. LET l == c.locations[c.loc_index[id]]
       IN  c.loc_index[id] \in DOMAIN c.locations /\ l.function_id = id /\ l.line = line
  BY <1>5, <1>7 DEF LocationsIndexed
<1> QED BY <1>1, <1>5, <1>7, <1>9, <1>10

\* A frame is added to a stack.
IsFrame(frame) ==
  frame = [name |-> frame.name, filename |-> frame.filename, first_line |-> frame.first_line]

LEMMA FrameAdded ==
  ASSUME NEW acc, Indexed(acc.builder), NEW frame, IsFrame(frame)
  PROVE  LET r == AddFrame(acc, frame)
         IN  /\ Indexed(r.builder) /\ Keeps(acc.builder, r.builder)
             /\ \E id \in DOMAIN r.builder.locations :
                  r.ids = Append(acc.ids, id) /\ FrameAt(r.builder, id) = frame
<1> DEFINE b1 == intern_function(acc.builder, frame)
           func_id == b1.func_index[FunctionKey(b1, frame)]
           b2 == intern_location(b1, func_id, frame.first_line)
           id == b2.loc_index[func_id]
           f == b1.functions[func_id]
<1>1. AddFrame(acc, frame) = [builder |-> b2, ids |-> Append(acc.ids, id)]
  BY DEF AddFrame
<1>2. /\ Indexed(b1) /\ Keeps(acc.builder, b1)
      /\ FunctionKey(b1, frame) \in DOMAIN b1.func_index /\ f.start_line = frame.first_line
      /\ b1.strings[f.name + 1] = frame.name /\ b1.strings[f.filename + 1] = frame.filename
  BY InternFunctionIndexed
<1>3. func_id \in DOMAIN b1.functions
  <2> HIDE DEF b1
  <2> QED BY <1>2 DEF Indexed, FunctionsIndexed
<1>4. /\ Indexed(b2) /\ Keeps(b1, b2)
      /\ id \in DOMAIN b2.locations
      /\ b2.locations[id].function_id = func_id /\ b2.locations[id].line = frame.first_line
      /\ b2.functions = b1.functions /\ b2.strings = b1.strings
  <2> HIDE DEF b1, func_id
  <2> QED BY <1>2, <1>3, InternLocationIndexed DEF f
<1> HIDE DEF b1, func_id, b2, id
<1>5. FrameAt(b2, id) =
        [name |-> frame.name, filename |-> frame.filename, first_line |-> frame.first_line]
  BY <1>2, <1>4 DEF FrameAt
<1>6. Keeps(acc.builder, b2)
  BY <1>2, <1>4, KeepsOn
<1> QED BY <1>1, <1>4, <1>5, <1>6 DEF IsFrame

LEMMA Least ==
  ASSUME NEW S \in SUBSET Nat, S # {}
  PROVE  \E m \in S : \A k \in S : m <= k
<1>1. PICK m \in S : \A k \in S : ~ (<<k, m>> \in OpToRel(<, Nat))
  BY NatLessThanWellFounded, WFMin
<1>2. \A k \in S : ~ (k < m)
  BY <1>1 DEF OpToRel
<1> QED BY <1>2

\* The ids are those of the first n frames.
Spells(b, ids, frames, n) ==
  /\ ids \in Seq(DOMAIN b.locations) /\ Len(ids) = n
  /\ \A i \in 1..n : FrameAt(b, ids[i]) = frames[i]

\* The recursion of AddFrames has a solution.
Adds(b, frames, added, m) ==
  added = [n \in 0..m |->
             IF n = 0 THEN [builder |-> b, ids |-> <<>>] ELSE AddFrame(added[n - 1], frames[n])]

LEMMA AddsExists ==
  ASSUME NEW b, NEW frames
  PROVE  \A m \in Nat : \E added : Adds(b, frames, added, m)
<1> DEFINE bad == {m \in Nat : ~ \E added : Adds(b, frames, added, m)}
<1> SUFFICES ASSUME bad # {} PROVE FALSE
  OBVIOUS
<1>1. PICK m \in bad : \A k \in bad : m <= k
  <2> bad \in SUBSET Nat
    OBVIOUS
  <2> HIDE DEF bad
  <2> QED BY Least
<1>2. m \in Nat /\ ~ \E added : Adds(b, frames, added, m)
  OBVIOUS
<1>3. m # 0
  <2> DEFINE added == [n \in 0..0 |-> [builder |-> b, ids |-> <<>>]]
  <2>1. Adds(b, frames, added, 0)
    BY DEF Adds
  <2> QED BY <1>2, <2>1
<1>4. m - 1 \in Nat /\ m - 1 \notin bad
  BY <1>1, <1>2, <1>3
<1>5. PICK before : Adds(b, frames, before, m - 1)
  BY <1>4
<1> DEFINE added == [n \in 0..m |-> IF n < m THEN before[n] ELSE AddFrame(before[m - 1], frames[m])]
<1>6. ASSUME NEW n \in 0..m
      PROVE  added[n] = IF n = 0 THEN [builder |-> b, ids |-> <<>>]
                        ELSE AddFrame(added[n - 1], frames[n])
  <2>1. CASE n = m
    <3>1. added[n] = AddFrame(before[m - 1], frames[m]) /\ added[m - 1] = before[m - 1]
      BY <1>2, <1>3, <2>1
    <3> HIDE DEF added
    <3> QED BY <1>3, <2>1, <3>1
  <2>2. CASE n # m /\ n # 0
    <3>1. n \in 0..(m - 1) /\ n < m /\ n - 1 \in 0..m /\ n - 1 < m
      BY <1>2, <2>2
    <3>2. before[n] = AddFrame(before[n - 1], frames[n])
      BY <1>5, <2>2, <3>1 DEF Adds
    <3>3. added[n] = before[n] /\ added[n - 1] = before[n - 1]
      BY <3>1
    <3> HIDE DEF added
    <3> QED BY <2>2, <3>2, <3>3
  <2>3. CASE n # m /\ n = 0
    <3>1. 0 \in 0..(m - 1) /\ 0 < m /\ 0 \in 0..m
      BY <1>2, <1>3
    <3>2. before[0] = [builder |-> b, ids |-> <<>>]
      BY <1>5, <3>1 DEF Adds
    <3>3. added[0] = before[0]
      BY <3>1
    <3> HIDE DEF added
    <3> QED BY <2>3, <3>2, <3>3
  <2> QED BY <2>1, <2>2, <2>3
<1>7. Adds(b, frames, added, m)
  BY <1>6 DEF Adds
<1> QED BY <1>2, <1>7

LEMMA FramesAdded ==
  ASSUME NEW b, Indexed(b), NEW frames, IsTable(frames), \A i \in DOMAIN frames : IsFrame(frames[i])
  PROVE  LET acc == AddFrames(b, frames)
         IN  /\ Indexed(acc.builder) /\ Keeps(b, acc.builder)
             /\ Spells(acc.builder, acc.ids, frames, Len(frames))
<1> DEFINE size == Len(frames)
           added == CHOOSE f : Adds(b, frames, f, size)
<1>1. size \in Nat /\ DOMAIN frames = 1..size
  BY Appended
<1>2. AddFrames(b, frames) = added[size]
  BY DEF AddFrames, Adds
<1>3. Adds(b, frames, added, size)
  <2>1. \E f : Adds(b, frames, f, size)
    BY <1>1, AddsExists
  <2> QED BY <2>1
<1> HIDE DEF added, size
<1>4. added[0] = [builder |-> b, ids |-> <<>>]
  BY <1>1, <1>3 DEF Adds
<1>5. \A n \in 1..size : added[n] = AddFrame(added[n - 1], frames[n])
  BY <1>1, <1>3 DEF Adds
<1> DEFINE Good(n) == /\ Indexed(added[n].builder) /\ Keeps(b, added[n].builder)
                      /\ Spells(added[n].builder, added[n].ids, frames, n)
<1>6. Good(0)
  BY <1>4, KeepsAll DEF Spells
<1>7. ASSUME NEW n \in 1..size, Good(n - 1) PROVE Good(n)
  <2> DEFINE acc == added[n - 1]
             r == added[n]
  <2>1. r = AddFrame(acc, frames[n]) /\ IsFrame(frames[n]) /\ n \in DOMAIN frames
    BY <1>1, <1>5
  <2>2. /\ Indexed(acc.builder) /\ Keeps(b, acc.builder)
        /\ acc.ids \in Seq(DOMAIN acc.builder.locations) /\ Len(acc.ids) = n - 1
        /\ \A i \in 1..(n - 1) : FrameAt(acc.builder, acc.ids[i]) = frames[i]
    BY <1>7 DEF Spells
  <2> HIDE DEF acc, r
  <2>3. Indexed(r.builder) /\ Keeps(acc.builder, r.builder)
    BY <2>1, <2>2, FrameAdded
  <2>4. PICK id \in DOMAIN r.builder.locations :
          r.ids = Append(acc.ids, id) /\ FrameAt(r.builder, id) = frames[n]
    BY <2>1, <2>2, FrameAdded
  <2>5. DOMAIN acc.builder.locations \subseteq DOMAIN r.builder.locations
    BY <2>3 DEF Keeps
  <2>6. acc.ids \in Seq(DOMAIN r.builder.locations)
    BY <2>2, <2>5
  <2>7. /\ r.ids \in Seq(DOMAIN r.builder.locations) /\ Len(r.ids) = n /\ r.ids[n] = id
        /\ \A i \in 1..(n - 1) : r.ids[i] = acc.ids[i]
    <3>1. n - 1 \in Nat /\ (n - 1) + 1 = n
      BY <1>1
    <3>2. /\ Append(acc.ids, id) \in Seq(DOMAIN r.builder.locations)
          /\ Len(Append(acc.ids, id)) = Len(acc.ids) + 1
          /\ Append(acc.ids, id)[Len(acc.ids) + 1] = id
          /\ \A i \in 1..Len(acc.ids) : Append(acc.ids, id)[i] = acc.ids[i]
      <4> DEFINE S == DOMAIN r.builder.locations
                 q == acc.ids
      <4>1. q \in Seq(S) /\ id \in S
        BY <2>6
      <4> HIDE DEF S, q
      <4>2. /\ Append(q, id) \in Seq(S) /\ Len(Append(q, id)) = Len(q) + 1
            /\ Append(q, id)[Len(q) + 1] = id
            /\ \A i \in 1..Len(q) : Append(q, id)[i] = q[i]
        BY <4>1
      <4> QED BY <4>2 DEF S, q
    <3> QED BY <2>2, <2>4, <3>1, <3>2
  <2>8. ASSUME NEW i \in 1..(n - 1) PROVE FrameAt(r.builder, r.ids[i]) = frames[i]
    <3>1. acc.ids[i] \in DOMAIN acc.builder.locations
      BY <2>2
    <3>2. FrameAt(r.builder, acc.ids[i]) = FrameAt(acc.builder, acc.ids[i])
      BY <2>2, <2>3, <3>1, FrameStays
    <3> QED BY <2>2, <2>7, <3>2
  <2>9. Spells(r.builder, r.ids, frames, n)
    <3>1. \A i \in 1..n : i \in 1..(n - 1) \/ i = n
      BY <1>1
    <3> QED BY <2>4, <2>7, <2>8, <3>1 DEF Spells
  <2>10. Keeps(b, r.builder)
    BY <2>2, <2>3, KeepsOn
  <2> QED BY <2>3, <2>9, <2>10 DEF r
<1>8. \A n \in 0..size : Good(n)
  <2> DEFINE bad == {n \in 0..size : ~ Good(n)}
  <2> SUFFICES ASSUME bad # {} PROVE FALSE
    OBVIOUS
  <2> HIDE DEF Good
  <2>1. PICK n \in bad : \A k \in bad : n <= k
    <3>1. bad \in SUBSET Nat
      BY <1>1
    <3> HIDE DEF bad
    <3> QED BY <3>1, Least
  <2>2. n \in 0..size /\ ~ Good(n)
    OBVIOUS
  <2>3. n \in 1..size /\ n - 1 \in 0..size /\ ~ (n <= n - 1)
    BY <1>1, <1>6, <2>2
  <2>4. Good(n - 1)
    BY <2>1, <2>3
  <2> QED BY <1>7, <2>2, <2>3, <2>4
<1> QED BY <1>1, <1>2, <1>8 DEF size

\* The stack of a sample.
StackAt(b, ids) == [j \in DOMAIN ids |-> FrameAt(b, ids[j])]
Stack(b, i) == StackAt(b, b.samples[i].location_id)

LEMMA SpellsStack ==
  ASSUME NEW b, NEW ids, NEW frames, IsTable(frames), Spells(b, ids, frames, Len(frames))
  PROVE  StackAt(b, ids) = frames
<1>1. Len(frames) \in Nat /\ frames = [i \in 1..Len(frames) |-> frames[i]]
  <2> DEFINE S == {frames[i] : i \in DOMAIN frames}
  <2>1. frames \in Seq(S)
    BY DEF IsTable
  <2> HIDE DEF S
  <2> QED BY <2>1
<1>2. DOMAIN ids = 1..Len(frames) /\ \A i \in 1..Len(frames) : FrameAt(b, ids[i]) = frames[i]
  <2> DEFINE S == DOMAIN b.locations
  <2>1. ids \in Seq(S) /\ Len(ids) = Len(frames)
    BY DEF Spells
  <2> HIDE DEF S
  <2> QED BY <2>1 DEF Spells
<1>3. StackAt(b, ids) = [i \in 1..Len(frames) |-> frames[i]]
  BY <1>2 DEF StackAt
<1> QED BY <1>1, <1>3

LEMMA OneSpelling ==
  ASSUME NEW b, Indexed(b), NEW s \in Seq(DOMAIN b.locations), NEW t \in Seq(DOMAIN b.locations),
         StackAt(b, s) = StackAt(b, t)
  PROVE  s = t
<1> DEFINE S == DOMAIN b.locations
<1>1. DOMAIN s = DOMAIN t
  BY DEF StackAt
<1>2. \A j \in DOMAIN s : FrameAt(b, s[j]) = FrameAt(b, t[j])
  BY <1>1 DEF StackAt
<1>3. s \in Seq(S) /\ t \in Seq(S)
  OBVIOUS
<1> HIDE DEF S
<1>4. \A j \in DOMAIN s : s[j] \in S /\ t[j] \in S
  BY <1>1, <1>3
<1>5. \A j \in DOMAIN s : s[j] = t[j]
  BY <1>2, <1>4, OneLocation DEF S
<1>6. /\ Len(s) \in Nat /\ DOMAIN s = 1..Len(s) /\ Len(t) \in Nat /\ DOMAIN t = 1..Len(t)
      /\ s = [j \in 1..Len(s) |-> s[j]] /\ t = [j \in 1..Len(t) |-> t[j]]
  BY <1>3
<1> QED BY <1>1, <1>5, <1>6

LEMMA OneSample ==
  ASSUME NEW b, Indexed(b), NEW i \in DOMAIN b.samples, NEW j \in DOMAIN b.samples,
         Stack(b, i) = Stack(b, j)
  PROVE  i = j
<1>1. \A k \in DOMAIN b.samples :
        /\ b.samples[k].location_id \in Seq(DOMAIN b.locations)
        /\ b.sample_index[b.samples[k].location_id] = k
  BY DEF Indexed, SamplesIndexed
<1>2. b.samples[i].location_id = b.samples[j].location_id
  BY <1>1, OneSpelling DEF Stack
<1> QED BY <1>1, <1>2

LEMMA StackStays ==
  ASSUME NEW b, Indexed(b), NEW c, Keeps(b, c), NEW i \in DOMAIN b.samples
  PROVE  i \in DOMAIN c.samples /\ Stack(c, i) = Stack(b, i)
<1> DEFINE S == DOMAIN b.locations
           ids == b.samples[i].location_id
<1>1. ids \in Seq(S)
  BY DEF Indexed, SamplesIndexed
<1>2. c.samples = b.samples
  BY DEF Keeps
<1>3. ASSUME NEW j \in DOMAIN ids PROVE FrameAt(c, ids[j]) = FrameAt(b, ids[j])
  <2>1. ids[j] \in S
    <3> HIDE DEF S, ids
    <3> QED BY <1>1, <1>3
  <2> QED BY <2>1, FrameStays
<1>4. StackAt(c, ids) = StackAt(b, ids)
  <2> HIDE DEF ids
  <2> QED BY <1>3 DEF StackAt
<1> QED BY <1>2, <1>4 DEF Stack

-----------------------------------------------------------------------------
(* What the samples count.                                                 *)

\* Where a stack is in a window.
Finds(w, stack) == {k \in DOMAIN w : w[k] = stack}

\* Each sample counts its stack in the window, and each stack of the window has one.
Counts(b, w, period) ==
  /\ \A i \in DOMAIN b.samples :
       /\ b.samples[i].value = period * Cardinality(Finds(w, Stack(b, i)))
       /\ Finds(w, Stack(b, i)) # {}
  /\ \A k \in DOMAIN w : \E i \in DOMAIN b.samples : Stack(b, i) = w[k]

LEMMA FindsNew ==
  ASSUME NEW w, IsTable(w), NEW e, NEW period \in Nat
  PROVE  /\ Finds(Append(w, e), e) # {}
         /\ Cardinality(Finds(w, e)) \in Nat
         /\ period * Cardinality(Finds(Append(w, e), e)) = period * Cardinality(Finds(w, e)) + period
         /\ \A stack : stack # e => Finds(Append(w, e), stack) = Finds(w, stack)
         /\ (\A k \in DOMAIN w : w[k] # e) => period * Cardinality(Finds(w, e)) = 0
<1> DEFINE n == Len(w)
           v == Append(w, e)
<1>1. /\ n \in Nat /\ DOMAIN w = 1..n /\ DOMAIN v = 1..(n + 1)
      /\ \A i \in 1..n : v[i] = w[i]
      /\ v[n + 1] = e
  BY Appended
<1> HIDE DEF n, v
<1>2. Finds(v, e) = Finds(w, e) \union {n + 1} /\ n + 1 \notin Finds(w, e)
  BY <1>1 DEF Finds
<1>3. \A stack : stack # e => Finds(v, stack) = Finds(w, stack)
  BY <1>1 DEF Finds
<1>4. IsFiniteSet(Finds(w, e))
  <2>1. IsFiniteSet(1..n)
    BY <1>1, FS_Interval
  <2>2. Finds(w, e) \subseteq 1..n
    BY <1>1 DEF Finds
  <2> QED BY <2>1, <2>2, FS_Subset
<1>5. Cardinality(Finds(w, e)) \in Nat /\ Cardinality(Finds(v, e)) = Cardinality(Finds(w, e)) + 1
  BY <1>2, <1>4, FS_CardinalityType, FS_AddElement
<1>6. ASSUME NEW c \in Nat PROVE period * (c + 1) = period * c + period
  OBVIOUS
<1>7. (\A k \in DOMAIN w : w[k] # e) => period * Cardinality(Finds(w, e)) = 0
  <2> SUFFICES ASSUME \A k \in DOMAIN w : w[k] # e PROVE period * Cardinality(Finds(w, e)) = 0
    OBVIOUS
  <2>1. Finds(w, e) = {}
    BY DEF Finds
  <2>2. Cardinality(Finds(w, e)) = 0
    BY <2>1, FS_EmptySet
  <2> QED BY <2>2
<1> QED BY <1>2, <1>3, <1>5, <1>6, <1>7 DEF v

\* A stack that has a sample already is counted there,
LEMMA SampleMerged ==
  ASSUME NEW a, Indexed(a), NEW w, IsTable(w), NEW period \in Nat, Counts(a, w, period),
         NEW ids \in DOMAIN a.sample_index
  PROVE  LET c == [a EXCEPT !.samples[a.sample_index[ids]].value = @ + period]
         IN  Indexed(c) /\ Counts(c, Append(w, StackAt(a, ids)), period)
<1> DEFINE at == a.sample_index[ids]
           c == [a EXCEPT !.samples[at].value = @ + period]
           frames == StackAt(a, ids)
           v == Append(w, frames)
<1>0. /\ Finds(v, frames) # {} /\ Cardinality(Finds(w, frames)) \in Nat
      /\ period * Cardinality(Finds(v, frames)) = period * Cardinality(Finds(w, frames)) + period
      /\ \A stack : stack # frames => Finds(v, stack) = Finds(w, stack)
  <2> HIDE DEF frames
  <2> QED BY FindsNew
<1>1. /\ TableFields \subseteq DOMAIN a /\ StringsIndexed(a) /\ FunctionsIndexed(a)
      /\ LocationsIndexed(a) /\ SamplesIndexed(a)
  BY DEF Indexed
<1>2. at \in DOMAIN a.samples /\ a.samples[at].location_id = ids
  BY <1>1 DEF SamplesIndexed
<1>3. Stack(a, at) = frames
  BY <1>2 DEF Stack
<1>4. c.samples =
        [a.samples EXCEPT ![at] = [a.samples[at] EXCEPT !.value = a.samples[at].value + period]]
  <2> HIDE DEF at
  <2>1. "samples" \in DOMAIN a
    BY <1>1 DEF TableFields
  <2> QED BY <2>1
<1>5. /\ DOMAIN c = DOMAIN a
      /\ c.strings = a.strings /\ c.string_index = a.string_index
      /\ c.functions = a.functions /\ c.func_index = a.func_index
      /\ c.locations = a.locations /\ c.loc_index = a.loc_index
      /\ c.sample_index = a.sample_index
  BY <1>1 DEF TableFields
<1> HIDE DEF at, c, frames
<1>6. /\ DOMAIN c.samples = DOMAIN a.samples
      /\ c.samples[at] = [location_id |-> ids, value |-> a.samples[at].value + period]
      /\ \A i \in DOMAIN a.samples : i # at => c.samples[i] = a.samples[i]
  <2>1. a.samples[at] = [location_id |-> ids, value |-> a.samples[at].value]
    BY <1>1, <1>2 DEF SamplesIndexed
  <2>2. c.samples[at] = [a.samples[at] EXCEPT !.value = a.samples[at].value + period]
    BY <1>2, <1>4
  <2>3. c.samples[at] = [location_id |-> ids, value |-> a.samples[at].value + period]
    BY <2>1, <2>2
  <2> QED BY <1>4, <2>3
<1>7. ASSUME NEW i \in DOMAIN a.samples
      PROVE  /\ c.samples[i].location_id = a.samples[i].location_id
             /\ c.samples[i] = [location_id |-> c.samples[i].location_id, value |-> c.samples[i].value]
  <2>1. CASE i = at
    BY <1>2, <1>6, <2>1
  <2>2. CASE i # at
    BY <1>1, <1>6, <2>2 DEF SamplesIndexed
  <2> QED BY <2>1, <2>2
<1>8. IsTable(c.samples)
  <2> DEFINE n == Len(a.samples)
  <2>1. n \in Nat /\ DOMAIN a.samples = 1..n
    <3>1. IsTable(a.samples)
      BY <1>1 DEF SamplesIndexed
    <3> QED BY <3>1, Appended
  <2>2. c.samples = [i \in 1..n |-> c.samples[i]]
    <3> HIDE DEF n
    <3> QED BY <1>4, <2>1
  <2> HIDE DEF n
  <2>3. c.samples \in [1..n -> {c.samples[i] : i \in DOMAIN c.samples}]
    BY <1>6, <2>1, <2>2
  <2> DEFINE S == {c.samples[i] : i \in DOMAIN c.samples}
  <2>4. c.samples \in Seq(S)
    <3> HIDE DEF S
    <3> QED BY <2>1, <2>3 DEF S
  <2> QED BY <2>4 DEF IsTable
<1>9. StringsIndexed(c) /\ FunctionsIndexed(c) /\ LocationsIndexed(c)
  <2>1. StringsIndexed(c)
    BY <1>1, <1>5 DEF StringsIndexed, Strings
  <2>2. FunctionsIndexed(c)
    BY <1>1, <1>5 DEF FunctionsIndexed, Strings
  <2>3. LocationsIndexed(c)
    BY <1>1, <1>5 DEF LocationsIndexed
  <2> QED BY <2>1, <2>2, <2>3
<1>10. SamplesIndexed(c)
  <2>1. ASSUME NEW i \in DOMAIN a.samples
        PROVE  /\ c.samples[i].location_id \in Seq(DOMAIN c.locations)
               /\ c.samples[i].location_id \in DOMAIN c.sample_index
               /\ c.sample_index[c.samples[i].location_id] = i
    BY <1>1, <1>5, <1>7 DEF SamplesIndexed
  <2>2. ASSUME NEW k \in DOMAIN c.sample_index
        PROVE  /\ c.sample_index[k] \in DOMAIN c.samples
               /\ c.samples[c.sample_index[k]].location_id = k
    BY <1>1, <1>5, <1>6, <1>7 DEF SamplesIndexed
  <2> QED BY <1>6, <1>7, <1>8, <2>1, <2>2 DEF SamplesIndexed
<1>11. Indexed(c)
  BY <1>1, <1>5, <1>9, <1>10 DEF Indexed
<1>12. \A i \in DOMAIN a.samples : Stack(c, i) = Stack(a, i)
  <2>1. \A id : FrameAt(c, id) = FrameAt(a, id)
    BY <1>5 DEF FrameAt
  <2>2. \A s : StackAt(c, s) = StackAt(a, s)
    BY <2>1 DEF StackAt
  <2> QED BY <1>7, <2>2 DEF Stack
<1> HIDE DEF v
<1>13. ASSUME NEW i \in DOMAIN c.samples
       PROVE  /\ c.samples[i].value = period * Cardinality(Finds(v, Stack(c, i)))
              /\ Finds(v, Stack(c, i)) # {}
  <2>1. /\ i \in DOMAIN a.samples
        /\ a.samples[i].value = period * Cardinality(Finds(w, Stack(a, i)))
        /\ Finds(w, Stack(a, i)) # {}
    BY <1>6 DEF Counts
  <2>2. CASE i = at
    BY <1>0, <1>3, <1>6, <1>12, <2>1, <2>2
  <2>3. CASE i # at
    <3>1. Stack(a, i) # frames
      BY <1>2, <1>3, <2>1, <2>3, OneSample
    <3> QED BY <1>0, <1>6, <1>12, <2>1, <2>3, <3>1
  <2> QED BY <2>2, <2>3
<1>14. ASSUME NEW k \in DOMAIN v PROVE \E i \in DOMAIN c.samples : Stack(c, i) = v[k]
  <2>1. /\ DOMAIN w = 1..Len(w) /\ DOMAIN v = 1..(Len(w) + 1) /\ Len(w) \in Nat
        /\ \A i \in 1..Len(w) : v[i] = w[i]
        /\ v[Len(w) + 1] = frames
    BY Appended DEF v
  <2>2. CASE k \in DOMAIN w
    BY <1>6, <1>12, <2>1, <2>2 DEF Counts
  <2>3. CASE k = Len(w) + 1
    BY <1>2, <1>3, <1>6, <1>12, <2>1, <2>3
  <2> QED BY <2>1, <2>2, <2>3
<1>15. Counts(c, v, period)
  BY <1>13, <1>14 DEF Counts
<1> QED BY <1>11, <1>15 DEF at, c, frames, v

\* and another gets one.
LEMMA SampleNew ==
  ASSUME NEW a, Indexed(a), NEW w, IsTable(w), NEW period \in Nat, Counts(a, w, period),
         NEW ids \in Seq(DOMAIN a.locations), ids \notin DOMAIN a.sample_index
  PROVE  LET c == Add(a, "samples", "sample_index", ids, Len(a.samples) + 1,
                      [location_id |-> ids, value |-> period])
         IN  Indexed(c) /\ Counts(c, Append(w, StackAt(a, ids)), period)
<1> DEFINE n == Len(a.samples)
           entry == [location_id |-> ids, value |-> period]
           c == Add(a, "samples", "sample_index", ids, n + 1, entry)
           frames == StackAt(a, ids)
           v == Append(w, frames)
<1>1. /\ TableFields \subseteq DOMAIN a /\ StringsIndexed(a) /\ FunctionsIndexed(a)
      /\ LocationsIndexed(a) /\ SamplesIndexed(a)
  BY DEF Indexed
<1>2. entry = [location_id |-> entry.location_id, value |-> entry.value]
      /\ entry.location_id = ids /\ entry.value = period
  OBVIOUS
<1>3. /\ DOMAIN c = DOMAIN a
      /\ \A f \in TableFields : f # "samples" /\ f # "sample_index" => c[f] = a[f]
      /\ c.samples = Append(a.samples, entry)
      /\ DOMAIN c.sample_index = {ids} \union DOMAIN a.sample_index
      /\ c.sample_index[ids] = n + 1
      /\ \A k \in DOMAIN a.sample_index : c.sample_index[k] = a.sample_index[k]
  <2>1. "samples" \in TableFields /\ "sample_index" \in TableFields /\ "samples" # "sample_index"
    BY DEF TableFields
  <2> HIDE DEF entry, n
  <2> QED BY <1>1, <2>1, Added
<1> HIDE DEF c, entry, frames
<1>4. /\ c.strings = a.strings /\ c.string_index = a.string_index
      /\ c.functions = a.functions /\ c.func_index = a.func_index
      /\ c.locations = a.locations /\ c.loc_index = a.loc_index
  BY <1>3 DEF TableFields
<1>5. /\ n \in Nat /\ DOMAIN a.samples = 1..n /\ IsTable(c.samples)
      /\ DOMAIN c.samples = 1..(n + 1)
      /\ \A i \in 1..n : c.samples[i] = a.samples[i]
      /\ c.samples[n + 1] = entry
  <2>1. IsTable(a.samples)
    BY <1>1 DEF SamplesIndexed
  <2> QED BY <1>3, <2>1, Appended
<1> HIDE DEF n
<1>6. StringsIndexed(c) /\ FunctionsIndexed(c) /\ LocationsIndexed(c)
  BY <1>1, <1>4 DEF StringsIndexed, FunctionsIndexed, LocationsIndexed, Strings
<1>7. SamplesIndexed(c)
  <2>1. ASSUME NEW i \in 1..(n + 1)
        PROVE  LET s == c.samples[i]
               IN  /\ s = [location_id |-> s.location_id, value |-> s.value]
                   /\ s.location_id \in Seq(DOMAIN c.locations)
                   /\ s.location_id \in DOMAIN c.sample_index /\ c.sample_index[s.location_id] = i
    <3>1. CASE i \in 1..n
      <4>1. LET s == a.samples[i]
            IN  /\ s = [location_id |-> s.location_id, value |-> s.value]
                /\ s.location_id \in Seq(DOMAIN a.locations)
                /\ s.location_id \in DOMAIN a.sample_index /\ a.sample_index[s.location_id] = i
        BY <1>1, <1>5, <3>1 DEF SamplesIndexed
      <4>2. c.samples[i] = a.samples[i]
        BY <1>5, <3>1
      <4> QED BY <1>3, <1>4, <4>1, <4>2
    <3>2. CASE i = n + 1
      BY <1>2, <1>3, <1>4, <1>5, <3>2
    <3> QED BY <1>5, <3>1, <3>2
  <2>2. ASSUME NEW k \in DOMAIN c.sample_index
        PROVE  c.sample_index[k] \in 1..(n + 1) /\ c.samples[c.sample_index[k]].location_id = k
    <3>1. CASE k = ids
      BY <1>2, <1>3, <1>5, <3>1
    <3>2. CASE k \in DOMAIN a.sample_index
      <4>1. a.sample_index[k] \in 1..n /\ a.samples[a.sample_index[k]].location_id = k
        BY <1>1, <1>5, <3>2 DEF SamplesIndexed
      <4> QED BY <1>3, <1>5, <3>2, <4>1
    <3> QED BY <1>3, <3>1, <3>2
  <2> QED BY <1>5, <2>1, <2>2 DEF SamplesIndexed
<1>8. Indexed(c)
  BY <1>1, <1>3, <1>6, <1>7 DEF Indexed
<1>9. \A s : StackAt(c, s) = StackAt(a, s)
  <2>1. \A id : FrameAt(c, id) = FrameAt(a, id)
    BY <1>4 DEF FrameAt
  <2> QED BY <2>1 DEF StackAt
<1>10. Stack(c, n + 1) = frames /\ \A i \in 1..n : Stack(c, i) = Stack(a, i)
  BY <1>2, <1>5, <1>9 DEF Stack, frames
<1>11. ASSUME NEW i \in 1..n PROVE Stack(a, i) # frames
  <2>1. /\ a.samples[i].location_id \in Seq(DOMAIN a.locations)
        /\ a.samples[i].location_id \in DOMAIN a.sample_index
    BY <1>1, <1>5 DEF SamplesIndexed
  <2> QED BY <2>1, OneSpelling DEF Stack, frames
<1>12. \A k \in DOMAIN w : w[k] # frames
  BY <1>5, <1>11 DEF Counts
<1>13. /\ Finds(v, frames) # {}
       /\ Cardinality(Finds(w, frames)) \in Nat
       /\ period * Cardinality(Finds(v, frames)) = period * Cardinality(Finds(w, frames)) + period
       /\ \A stack : stack # frames => Finds(v, stack) = Finds(w, stack)
       /\ period * Cardinality(Finds(w, frames)) = 0
  BY <1>12, FindsNew
<1>14. ASSUME NEW i \in 1..(n + 1)
       PROVE  /\ c.samples[i].value = period * Cardinality(Finds(v, Stack(c, i)))
              /\ Finds(v, Stack(c, i)) # {}
  <2> HIDE DEF v
  <2>1. CASE i = n + 1
    <3>1. period * Cardinality(Finds(v, frames)) = period
      BY <1>13
    <3> QED BY <1>2, <1>5, <1>10, <1>13, <2>1, <3>1
  <2>2. CASE i \in 1..n
    <3>1. /\ a.samples[i].value = period * Cardinality(Finds(w, Stack(a, i)))
          /\ Finds(w, Stack(a, i)) # {}
      BY <1>5, <2>2 DEF Counts
    <3>2. Finds(v, Stack(a, i)) = Finds(w, Stack(a, i))
      BY <1>11, <1>13, <2>2
    <3> QED BY <1>5, <1>10, <2>2, <3>1, <3>2
  <2> QED BY <1>5, <2>1, <2>2
<1>15. ASSUME NEW k \in DOMAIN v PROVE \E i \in DOMAIN c.samples : Stack(c, i) = v[k]
  <2>1. /\ DOMAIN w = 1..Len(w) /\ DOMAIN v = 1..(Len(w) + 1) /\ Len(w) \in Nat
        /\ \A i \in 1..Len(w) : v[i] = w[i]
        /\ v[Len(w) + 1] = frames
    BY Appended
  <2> HIDE DEF v
  <2>2. CASE k \in DOMAIN w
    <3>1. PICK i \in 1..n : Stack(a, i) = w[k]
      BY <1>5, <2>2 DEF Counts
    <3> QED BY <1>5, <1>10, <2>1, <2>2, <3>1
  <2>3. CASE k = Len(w) + 1
    BY <1>5, <1>10, <2>1, <2>3
  <2> QED BY <2>1, <2>2, <2>3
<1>16. Counts(c, v, period)
  BY <1>5, <1>14, <1>15 DEF Counts
<1> QED BY <1>8, <1>16 DEF c, n, entry, frames

LEMMA SampleAdded ==
  ASSUME NEW b, Indexed(b), NEW w, IsTable(w), NEW period \in Nat, Counts(b, w, period),
         NEW frames, IsTable(frames), \A i \in DOMAIN frames : IsFrame(frames[i])
  PROVE  LET c == add_sample(b, frames, 1, period)
         IN  Indexed(c) /\ Counts(c, Append(w, frames), period)
<1> DEFINE acc == AddFrames(b, frames)
           a == acc.builder
           ids == acc.ids
<1>1. Indexed(a) /\ Keeps(b, a) /\ Spells(a, ids, frames, Len(frames))
  BY FramesAdded
<1>2. 1 * period = period
  OBVIOUS
<1>3. add_sample(b, frames, 1, period) =
        IF ids \in DOMAIN a.sample_index
        THEN [a EXCEPT !.samples[a.sample_index[ids]].value = @ + period]
        ELSE Add(a, "samples", "sample_index", ids, Len(a.samples) + 1,
                 [location_id |-> ids, value |-> period])
  BY <1>2 DEF add_sample
<1> HIDE DEF acc
<1>4. StackAt(a, ids) = frames /\ ids \in Seq(DOMAIN a.locations)
  BY <1>1, SpellsStack DEF Spells
<1>5. Counts(a, w, period)
  <2>1. a.samples = b.samples /\ \A i \in DOMAIN b.samples : Stack(a, i) = Stack(b, i)
    BY <1>1, StackStays DEF Keeps
  <2> QED BY <2>1 DEF Counts
<1> HIDE DEF a, ids
<1>6. CASE ids \in DOMAIN a.sample_index
  <2> DEFINE c == [a EXCEPT !.samples[a.sample_index[ids]].value = @ + period]
  <2>1. Indexed(c) /\ Counts(c, Append(w, StackAt(a, ids)), period)
    BY <1>1, <1>5, <1>6, SampleMerged
  <2> HIDE DEF c
  <2>2. Indexed(c) /\ Counts(c, Append(w, frames), period)
    BY <1>4, <2>1
  <2>3. add_sample(b, frames, 1, period) = c
    BY <1>3, <1>6 DEF c
  <2> QED BY <2>2, <2>3
<1>7. CASE ids \notin DOMAIN a.sample_index
  <2> DEFINE c == Add(a, "samples", "sample_index", ids, Len(a.samples) + 1,
                      [location_id |-> ids, value |-> period])
  <2>1. Indexed(c) /\ Counts(c, Append(w, StackAt(a, ids)), period)
    BY <1>1, <1>4, <1>5, <1>7, SampleNew
  <2> HIDE DEF c
  <2>2. Indexed(c) /\ Counts(c, Append(w, frames), period)
    BY <1>4, <2>1
  <2>3. add_sample(b, frames, 1, period) = c
    BY <1>3, <1>7 DEF c
  <2> QED BY <2>2, <2>3
<1> QED BY <1>6, <1>7

-----------------------------------------------------------------------------
(* A new builder, and the profile.                                         *)

LEMMA NewBuilderIndexed ==
  /\ Indexed(NewBuilder)
  /\ NewBuilder.samples = <<>>
<1> DEFINE b == [strings |-> <<>>, string_index |-> EmptyIndex,
                 functions |-> <<>>, func_index |-> EmptyIndex,
                 locations |-> <<>>, loc_index |-> EmptyIndex,
                 samples |-> <<>>, sample_index |-> EmptyIndex]
           c == NewBuilder
<1>1. TableFields \subseteq DOMAIN b
  BY DEF TableFields
<1>2. DOMAIN EmptyIndex = {} /\ Len(b.strings) = 0
  BY DEF EmptyIndex
<1>3. c = Add(b, "strings", "string_index", EmptyString, 0, EmptyString)
  BY <1>2 DEF NewBuilder, intern
<1>4. /\ DOMAIN c = DOMAIN b
      /\ \A f \in TableFields : f # "strings" /\ f # "string_index" => c[f] = b[f]
      /\ c.strings = Append(b.strings, EmptyString)
      /\ DOMAIN c.string_index = {EmptyString} \union DOMAIN b.string_index
      /\ c.string_index[EmptyString] = 0
  <2> HIDE DEF b, c
  <2>1. EmptyString \notin DOMAIN b.string_index
    BY <1>2 DEF b
  <2>2. "strings" \in TableFields /\ "string_index" \in TableFields /\ "strings" # "string_index"
    BY DEF TableFields
  <2> QED BY <1>1, <1>3, <2>1, <2>2, Added
<1> HIDE DEF c
<1>5. /\ c.strings = <<EmptyString>> /\ DOMAIN c.string_index = {EmptyString}
      /\ c.functions = <<>> /\ DOMAIN c.func_index = {}
      /\ c.locations = <<>> /\ DOMAIN c.loc_index = {}
      /\ c.samples = <<>> /\ DOMAIN c.sample_index = {}
  BY <1>2, <1>4 DEF TableFields
<1> HIDE DEF b
<1>6. IsTable(<<>>) /\ DOMAIN <<>> = {}
  BY DEF IsTable
<1>7. /\ DOMAIN c.strings = {1} /\ c.strings[1] = EmptyString /\ c.strings # <<>>
      /\ IsTable(c.strings) /\ Strings(c) = {0}
  <2>1. Len(c.strings) = 1 /\ DOMAIN c.strings = {1} /\ c.strings[1] = EmptyString /\ c.strings # <<>>
    BY <1>5
  <2>2. {c.strings[i] : i \in DOMAIN c.strings} = {EmptyString}
    BY <2>1
  <2>3. c.strings \in Seq({EmptyString})
    BY <1>5
  <2>4. 0..(1 - 1) = {0}
    OBVIOUS
  <2> QED BY <2>1, <2>2, <2>3, <2>4 DEF IsTable, Strings
<1>8. StringsIndexed(c)
  <2>1. c.string_index[EmptyString] = 1 - 1 /\ 0 + 1 = 1
    BY <1>4
  <2> QED BY <1>4, <1>5, <1>7, <2>1 DEF StringsIndexed
<1>9. FunctionsIndexed(c) /\ LocationsIndexed(c) /\ SamplesIndexed(c)
  BY <1>5, <1>6 DEF FunctionsIndexed, LocationsIndexed, SamplesIndexed
<1>10. TableFields \subseteq DOMAIN c
  BY <1>1, <1>4
<1> QED BY <1>5, <1>8, <1>9, <1>10 DEF Indexed, c

LEMMA TypeStringsIndexed ==
  ASSUME NEW b, Indexed(b)
  PROVE  LET t == TypeStrings(b)
         IN  /\ Indexed(t) /\ Keeps(b, t)
             /\ {t.string_index[<<"cpu">>], t.string_index[<<"nanoseconds">>]} \subseteq Strings(t)
<1> DEFINE b1 == intern(b, <<"cpu">>)
           t == intern(b1, <<"nanoseconds">>)
<1>1. Indexed(b1) /\ Keeps(b, b1) /\ <<"cpu">> \in DOMAIN b1.string_index
  BY InternIndexed
<1> HIDE DEF b1
<1>2. Indexed(t) /\ Keeps(b1, t) /\ <<"nanoseconds">> \in DOMAIN t.string_index
  BY <1>1, InternIndexed
<1> HIDE DEF t
<1>3. <<"cpu">> \in DOMAIN t.string_index
  BY <1>1, <1>2, KeepsStrings
<1>4. \A s \in DOMAIN t.string_index : t.string_index[s] \in Strings(t)
  BY <1>2 DEF Indexed, StringsIndexed
<1>5. Keeps(b, t)
  BY <1>1, <1>2, KeepsOn
<1>6. t = TypeStrings(b)
  BY DEF t, b1, TypeStrings
<1> QED BY <1>2, <1>3, <1>4, <1>5, <1>6

LEMMA SumOfOne ==
  ASSUME NEW p, NEW i, p.sample[i].value \in Nat
  PROVE  MapThenSumSet(LAMBDA j : p.sample[j].value, {i}) = p.sample[i].value
<1> DEFINE value(j) == p.sample[j].value
           chosen(s) == CHOOSE x \in s : TRUE
           Sums(f) == f = [s \in SUBSET {i} |->
                             IF s = {} THEN 0 ELSE value(chosen(s)) + f[s \ {chosen(s)}]]
           iter == CHOOSE f : Sums(f)
           sums == [s \in SUBSET {i} |-> IF s = {} THEN 0 ELSE value(i)]
<1>1. MapThenSumSet(value, {i}) = iter[{i}]
  BY DEF MapThenSumSet, MapThenFoldSet
<1>2. \A s \in SUBSET {i} : s # {} => s = {i} /\ chosen(s) = i /\ s \ {chosen(s)} = {}
  OBVIOUS
<1>3. Sums(sums)
  <2> HIDE DEF chosen
  <2>1. ASSUME NEW s \in SUBSET {i}
        PROVE  sums[s] = IF s = {} THEN 0 ELSE value(chosen(s)) + sums[s \ {chosen(s)}]
    BY <1>2
  <2> QED BY <2>1
<1>4. Sums(iter)
  BY <1>3
<1> HIDE DEF iter, chosen
<1>5. {} \in SUBSET {i} /\ {i} \in SUBSET {i} /\ {i} # {}
  OBVIOUS
<1>6. iter[{}] = 0
  BY <1>4, <1>5
<1>7. iter[{i}] = value(chosen({i})) + iter[{i} \ {chosen({i})}]
  BY <1>4, <1>5
<1>8. chosen({i}) = i /\ {i} \ {chosen({i})} = {}
  BY <1>2, <1>5
<1>9. iter[{i}] = value(i) + 0
  BY <1>6, <1>7, <1>8
<1> QED BY <1>1, <1>9

-----------------------------------------------------------------------------
(* What a reader of the profile sees.                                      *)

LEMMA EncodedCloses ==
  ASSUME NEW b, Indexed(b)
  PROVE  Closed(encode(b))
<1> DEFINE t == TypeStrings(b)
           p == encode(b)
<1>1. Indexed(t) /\ {t.string_index[<<"cpu">>], t.string_index[<<"nanoseconds">>]} \subseteq Strings(t)
  BY TypeStringsIndexed
<1>2. /\ p.value_type = <<t.string_index[<<"cpu">>], t.string_index[<<"nanoseconds">>]>>
      /\ p.sample = t.samples /\ p.location = t.locations /\ p.function = t.functions
      /\ p.string_table = t.strings
  BY DEF encode
<1> HIDE DEF t, p
<1>3. StringIds(p) = Strings(t)
  BY <1>2 DEF StringIds, Strings
<1>4. StringIds(p) # {} /\ p.string_table[1] = EmptyString
  <2>1. IsTable(t.strings) /\ t.strings # <<>> /\ t.strings[1] = EmptyString
    BY <1>1 DEF Indexed, StringsIndexed
  <2>2. Len(t.strings) \in Nat /\ Len(t.strings) # 0
    <3> DEFINE S == {t.strings[i] : i \in DOMAIN t.strings}
    <3>1. t.strings \in Seq(S)
      BY <2>1 DEF IsTable
    <3> HIDE DEF S
    <3> QED BY <2>1, <3>1
  <2>3. 0 \in 0..(Len(t.strings) - 1)
    BY <2>2
  <2> QED BY <1>2, <1>3, <2>1, <2>3 DEF Strings
<1>5. ToSet(p.value_type) \subseteq StringIds(p)
  BY <1>1, <1>2, <1>3 DEF ToSet
<1>6. \A i \in DOMAIN p.function :
        p.function[i].id = i /\ {p.function[i].name, p.function[i].filename} \subseteq StringIds(p)
  BY <1>1, <1>2, <1>3 DEF Indexed, FunctionsIndexed
<1>7. \A i \in DOMAIN p.location :
        p.location[i].id = i /\ p.location[i].function_id \in DOMAIN p.function
  BY <1>1, <1>2 DEF Indexed, LocationsIndexed
<1>8. ASSUME NEW i \in DOMAIN p.sample
      PROVE  ToSet(p.sample[i].location_id) \subseteq DOMAIN p.location
  <2> DEFINE S == DOMAIN t.locations
             ids == t.samples[i].location_id
  <2>1. ids \in Seq(S)
    BY <1>1, <1>2 DEF Indexed, SamplesIndexed
  <2> HIDE DEF S, ids
  <2>2. ToSet(ids) \subseteq S
    BY <2>1 DEF ToSet
  <2> QED BY <1>2, <2>2 DEF S, ids
<1> QED BY <1>4, <1>5, <1>6, <1>7, <1>8 DEF Closed, p

LEMMA EncodedDecodes ==
  ASSUME NEW b, Indexed(b), NEW w, IsTable(w), NEW period \in Nat, Counts(b, w, period)
  PROVE  Decode(encode(b)) =
           [stack \in ToSet(w) |-> period * Cardinality({i \in DOMAIN w : w[i] = stack})]
<1> DEFINE t == TypeStrings(b)
           p == encode(b)
           StackIn(i) == StackOf(p, p.sample[i])
           Of(stack) == {i \in DOMAIN p.sample : StackIn(i) = stack}
           Sum(stack) == MapThenSumSet(LAMBDA i : p.sample[i].value, Of(stack))
<1>1. Indexed(t) /\ Keeps(b, t)
  BY TypeStringsIndexed
<1>2. /\ p.sample = t.samples /\ p.location = t.locations /\ p.function = t.functions
      /\ p.string_table = t.strings
  BY DEF encode
<1>3. Decode(p) = [stack \in {StackIn(i) : i \in DOMAIN p.sample} |-> Sum(stack)]
  BY DEF Decode
<1> HIDE DEF t, p
<1>4. \A i : StackIn(i) = Stack(t, i)
  <2>1. \A id : FrameOf(p, id) = FrameAt(t, id)
    BY <1>2 DEF FrameOf, FrameAt
  <2> QED BY <1>2, <2>1 DEF StackOf, Stack, StackAt
<1>5. Counts(t, w, period)
  <2>1. t.samples = b.samples /\ \A i \in DOMAIN b.samples : Stack(t, i) = Stack(b, i)
    BY <1>1, StackStays DEF Keeps
  <2> QED BY <2>1 DEF Counts
<1>6. {StackIn(i) : i \in DOMAIN p.sample} = ToSet(w)
  <2>1. ASSUME NEW i \in DOMAIN p.sample PROVE StackIn(i) \in ToSet(w)
    <3>1. PICK k \in DOMAIN w : w[k] = Stack(t, i)
      BY <1>2, <1>5 DEF Counts, Finds
    <3> QED BY <1>4, <3>1 DEF ToSet
  <2>2. ASSUME NEW stack \in ToSet(w) PROVE \E i \in DOMAIN p.sample : StackIn(i) = stack
    <3>1. PICK k \in DOMAIN w : w[k] = stack
      BY DEF ToSet
    <3> QED BY <1>2, <1>4, <1>5, <3>1 DEF Counts
  <2> HIDE DEF StackIn
  <2> QED BY <2>1, <2>2
<1>7. ASSUME NEW stack \in ToSet(w) PROVE Sum(stack) = period * Cardinality(Finds(w, stack))
  <2>1. PICK i \in DOMAIN p.sample : StackIn(i) = stack
    BY <1>6
  <2>2. Of(stack) = {i}
    <3>1. \A j \in DOMAIN p.sample : StackIn(j) = stack => j = i
      BY <1>1, <1>2, <1>4, <2>1, OneSample
    <3> HIDE DEF StackIn
    <3> QED BY <2>1, <3>1
  <2>3. p.sample[i].value = period * Cardinality(Finds(w, stack))
    BY <1>2, <1>4, <1>5, <2>1 DEF Counts
  <2>4. Cardinality(Finds(w, stack)) \in Nat
    BY FindsNew
  <2>5. p.sample[i].value \in Nat
    BY <2>3, <2>4
  <2>6. Sum(stack) = MapThenSumSet(LAMBDA j : p.sample[j].value, {i})
    BY <2>2
  <2> QED BY <2>3, <2>5, <2>6, SumOfOne
<1> HIDE DEF StackIn, Sum
<1>8. Decode(p) = [stack \in ToSet(w) |-> Sum(stack)]
  BY <1>3, <1>6
<1>9. \A stack \in ToSet(w) : Sum(stack) = period * Cardinality({i \in DOMAIN w : w[i] = stack})
  BY <1>7 DEF Finds
<1>10. Decode(p) = [stack \in ToSet(w) |-> period * Cardinality({i \in DOMAIN w : w[i] = stack})]
  BY <1>8, <1>9
<1> QED BY <1>10 DEF p
=============================================================================
