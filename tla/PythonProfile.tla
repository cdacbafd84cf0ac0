--------------------------- MODULE PythonProfile ---------------------------
(***************************************************************************)
(* What becomes of a sample of pysignalprof: the walk in the interrupted   *)
(* thread (PythonUnwind), the record in the ring, and the reader thread,   *)
(* which looks up the names of the code objects, adds the stack to the     *)
(* profile (ProfileTables) and flushes.                                    *)
(*                                                                         *)
(* The record holds addresses.  The interpreter goes on while it waits,    *)
(* and may free code objects and strings and use their memory again: the   *)
(* reader, which has no GIL, takes several reads to get a name, and either *)
(* may change between any two of them.  The handler's locks, the full ring *)
(* and the wake-up are in SignalProfiler.                                  *)
(*                                                                         *)
(* What is at the address of a string is Fault, if no memory is readable,  *)
(* or the string that its bytes make: the `form` in its header says how    *)
(* the characters are stored ("utf8" is the cached UTF-8), its `text` is a *)
(* sequence of characters.                                                 *)
(***************************************************************************)
EXTENDS PythonUnwind, ProfileTables

CONSTANTS
  Unicodes,      \* addresses of string objects
  Contents,     \* what can be there, [form, text]
  Objects,      \* code objects, [qualname, name] of addresses of strings, or Null
  Heaps,        \* what is there at first, [object, string]
  Remains,      \* what may be where one was, [qualname, name] that may be Fault as well
  Width,        \* of each character, its length in UTF-8
  BufLen,       \* the length of name_buf, 256 in the code
  Period,       \* nanoseconds between two signals
  MaxSamples,   \* bound: signals
  MaxChanges,   \* bound: objects and strings that the interpreter frees or makes
  MaxFlushes    \* bound: flushes

Forms == {"ascii", "utf8", "ucs1", "ucs2", "ucs4", "other"}

Pointers == Unicodes \union {Null, Fault}
Bodies == [qualname : Pointers, name : Pointers]

ASSUME PythonProfileAssumption ==
  /\ BufLen \in Nat /\ BufLen % 4 = 0
  /\ \A ch \in DOMAIN Width : Width[ch] \in Nat \ {0}
  /\ Null \notin Unicodes /\ Fault \notin Unicodes /\ Fault \notin Contents
  /\ \A x \in Contents : x.form \in Forms /\ x.text \in Seq(DOMAIN Width)
  /\ Objects \subseteq [qualname : Unicodes \union {Null}, name : Unicodes \union {Null}]
  /\ \A h \in Heaps : h.object \in [Codes -> Objects] /\ h.string \in [Unicodes -> Contents]
  /\ Remains \subseteq Bodies
  /\ Period \in Nat \ {0}
  /\ {MaxSamples, MaxChanges, MaxFlushes} \subseteq Nat

VARIABLES
  object,      \* what is at the addresses of code objects
  string,      \* and at those of strings
  live,        \* the code objects that are allocated
  ring,        \* the records: sequences of code objects
  reader,      \* "drain" or "check": before the flush
  resolved,    \* frames of the first record that are in the cache
  reading,     \* where resolve_function_name() is
  symbol_cache,
  builder,
  \* History
  window,      \* the stacks added since the builder was reset, as frames
  sent,        \* the last profile encoded, and the window it is of
  stale,       \* the code objects that were not allocated all the time since the cache was cleared
  samples, changes, flushes

heapVars   == <<object, string, live, changes>>
readerVars == <<reader, resolved, reading, symbol_cache, builder, window, sent, flushes>>
vars == <<unwindVars, heapVars, ring, readerVars, stale, samples>>

\* A code object's field that is being read, the string it leads to once that is read, the
\* form once the header is read, and (history) whether the string is still what it was then.
Readings == [of : {"qualname", "name"}, string : Unicodes \union {Null},
             form : Forms \union {"unread"}, whole : BOOLEAN]
NotReading == [of |-> "qualname", string |-> Null, form |-> "unread", whole |-> TRUE]

\* Any text that the bytes happen to spell where a string was freed while it was read.
Garbled == <<"<garbled>">>
Unknown == <<"<unknown>">>
NothingSent == [profile |-> encode(NewBuilder), window |-> <<>>]

\* The frames are looked at in the handler only, and are any of Memories at each signal.
NotLookedAt == CHOOSE m \in Memories : TRUE

Init ==
  /\ UnwindInit /\ memory = NotLookedAt
  /\ live = Codes /\ \E h \in Heaps : object = h.object /\ string = h.string
  /\ ring = <<>> /\ reader = "drain" /\ resolved = 0 /\ reading = NotReading
  /\ symbol_cache = EmptyIndex /\ builder = NewBuilder
  /\ window = <<>> /\ sent = NothingSent /\ stale = {}
  /\ samples = 0 /\ changes = 0 /\ flushes = 0

-----------------------------------------------------------------------------
(* The thread that is interrupted.                                         *)

Signal ==
  /\ samples < MaxSamples /\ samples' = samples + 1
  /\ walk = "idle"
  /\ memory' \in Memories
  /\ \E first \in Frames \union {Null, Fault} : Enters(first)
  /\ UNCHANGED <<heapVars, ring, readerVars, stale>>

Walk == WalkStep /\ UNCHANGED <<heapVars, ring, readerVars, stale, samples>>

\* sig_ring::write, unless no frame was found.  The handler returns.
Record ==
  /\ walk = "done" /\ walk' = "idle"
  /\ ring' = IF buf = <<>> THEN ring ELSE Append(ring, buf)
  /\ memory' = NotLookedAt /\ start' = Null /\ frame_ptr' = Null /\ prev_frame' = Null /\ buf' = <<>>
  /\ UNCHANGED <<heapVars, readerVars, stale, samples>>

-----------------------------------------------------------------------------
(* The interpreter's memory, whatever thread changes it.  The walk does    *)
(* not look at it: no change needs to come in the middle of one.           *)

PointersOf(o) == {o.qualname, o.name}

Changes == walk = "idle" /\ changes < MaxChanges /\ changes' = changes + 1

\* The address keeps its bytes, or is used for something else, or is unmapped.
Free(c) ==
  /\ Changes
  /\ c \in live
  /\ live' = live \ {c} /\ stale' = stale \union {c}
  /\ \E o \in Remains \union {object[c]} : object' = [object EXCEPT ![c] = o]
  /\ UNCHANGED <<unwindVars, string, ring, readerVars, samples>>

Allocate(c) ==
  /\ Changes
  /\ c \notin live
  /\ live' = live \union {c}
  /\ \E o \in Objects :
       /\ \A s \in PointersOf(o) \intersect Unicodes : string[s] # Fault
       /\ object' = [object EXCEPT ![c] = o]
  /\ UNCHANGED <<unwindVars, string, ring, readerVars, stale, samples>>

\* A string that no code object has is freed, and its memory may be used again: what the
\* reader gets of it, if it has its header, is not of one string any more.
Recycle(s) ==
  /\ Changes
  /\ \A c \in live : s \notin PointersOf(object[c])
  /\ \E x \in Contents \union {Fault} : string' = [string EXCEPT ![s] = x]
  /\ reading' = [reading EXCEPT !.whole = @ /\ ~ (reading.string = s /\ reading.form # "unread")]
  /\ UNCHANGED <<unwindVars, object, live, ring, reader, resolved, symbol_cache, builder, window,
                 sent, flushes, stale, samples>>

\* Its UTF-8 is asked for, and cached beside the characters.
CacheUtf8(s) ==
  /\ Changes
  /\ string[s] # Fault /\ string[s].form \in {"ucs1", "ucs2", "ucs4"}
  /\ LET x == [form |-> "utf8", text |-> string[s].text]
     IN  x \in Contents /\ string' = [string EXCEPT ![s] = x]
  /\ UNCHANGED <<unwindVars, object, live, ring, readerVars, stale, samples>>

Interpreter == \/ \E c \in Codes : Free(c) \/ Allocate(c)
               \/ \E s \in Unicodes : Recycle(s) \/ CacheUtf8(s)

-----------------------------------------------------------------------------
(* Names                                                                   *)

Bytes(text) == MapThenSumSet(LAMBDA i : Width[text[i]], DOMAIN text)
Beginning(text, n) == SubSeq(text, 1, n)
Fits(text, n) == Bytes(Beginning(text, n)) <= BufLen

\* kindasafe::str: the terminating zero must be within the buffer.
ReadStr(text) == IF Bytes(text) < BufLen THEN text ELSE EmptyString

\* read_ucs1_to_utf8, ...: as many characters as are read, and fit.
UcsLimit(form) == IF form = "ucs4" THEN BufLen \div 4 ELSE BufLen \div 2
ReadUcs(form, text) ==
  Beginning(text, Max({n \in 0..Len(text) : n <= UcsLimit(form) /\ Fits(text, n)}))

\* What read_pyunicode returns of a string whose bytes stay the same.  The empty string
\* stands for None, which is also what it returns for one; kindasafe::str reads as many
\* bytes as the buffer has, and fails where that is beyond the mapping.
Names(form, text) ==
  CASE form \in {"ascii", "utf8"} -> {ReadStr(text), EmptyString}
    [] form \in {"ucs1", "ucs2", "ucs4"} -> {ReadUcs(form, text)}
    [] OTHER -> {EmptyString}

-----------------------------------------------------------------------------
(* The reader thread.                                                      *)

Draining == reader = "drain" /\ ring # <<>>
NextCode == Head(ring)[resolved + 1]

Caches(name) ==
  /\ symbol_cache' = [c \in {NextCode} \union DOMAIN symbol_cache |->
                        IF c = NextCode THEN name ELSE symbol_cache[c]]
  /\ resolved' = resolved + 1 /\ reading' = NotReading

Resolving == Draining /\ resolved < Len(Head(ring))
UnchangedByResolving ==
  UNCHANGED <<unwindVars, heapVars, ring, reader, builder, window, sent, flushes, stale, samples>>

\* entry().or_insert_with(): the address is in the cache.
ResolveCached ==
  /\ Resolving /\ NextCode \in DOMAIN symbol_cache
  /\ resolved' = resolved + 1
  /\ UNCHANGED <<reading, symbol_cache>> /\ UnchangedByResolving

\* resolve_function_name(): co_qualname, or else co_name, or else no name.
NoName ==
  IF reading.of = "qualname"
  THEN reading' = [NotReading EXCEPT !.of = "name"] /\ UNCHANGED <<symbol_cache, resolved>>
  ELSE Caches(Unknown)

\* The pointer in the code object,
ReadPointer ==
  /\ Resolving /\ NextCode \notin DOMAIN symbol_cache
  /\ reading.string = Null
  /\ LET pointer == object[NextCode][reading.of]
     IN  IF pointer \in Unicodes
         THEN reading' = [reading EXCEPT !.string = pointer] /\ UNCHANGED <<symbol_cache, resolved>>
         ELSE NoName
  /\ UnchangedByResolving

\* the state of the string, and its cached UTF-8,
ReadHeader ==
  /\ Resolving /\ NextCode \notin DOMAIN symbol_cache
  /\ reading.string # Null /\ reading.form = "unread"
  /\ LET now == string[reading.string]
     IN  IF now # Fault
         THEN reading' = [reading EXCEPT !.form = now.form] /\ UNCHANGED <<symbol_cache, resolved>>
         ELSE NoName
  /\ UnchangedByResolving

\* and the characters.
ReadData ==
  /\ Resolving /\ NextCode \notin DOMAIN symbol_cache
  /\ reading.string # Null /\ reading.form # "unread"
  /\ \E name \in IF reading.whole THEN Names(reading.form, string[reading.string].text)
                 ELSE {Garbled, EmptyString} :
       IF name # EmptyString THEN Caches(name) ELSE NoName
  /\ UnchangedByResolving

\* builder.add_sample(&frames, 1) and grant.release().
AddRecord ==
  /\ Draining /\ resolved = Len(Head(ring))
  /\ LET frames == [i \in DOMAIN Head(ring) |->
                      [name |-> symbol_cache[Head(ring)[i]], filename |-> EmptyString,
                       first_line |-> 0]]
     IN  /\ builder' = add_sample(builder, frames, 1, Period)
         /\ window' = Append(window, frames)
  /\ ring' = Tail(ring) /\ resolved' = 0
  /\ UNCHANGED <<unwindVars, heapVars, reader, reading, symbol_cache, sent, stale, samples, flushes>>

\* consumer.read() of the last shard returns none.
Drained ==
  /\ reader = "drain" /\ ring = <<>>
  /\ reader' = "check"
  /\ UNCHANGED <<unwindVars, heapVars, ring, resolved, reading, symbol_cache, builder, window, sent,
                 flushes, stale, samples>>

NotDue ==
  /\ reader = "check" /\ reader' = "drain"
  /\ UNCHANGED <<unwindVars, heapVars, ring, resolved, reading, symbol_cache, builder, window, sent,
                 flushes, stale, samples>>

\* flush_pprof(): the profile is encoded and sent, whether or not that succeeds.
FlushProfile ==
  IF is_empty(builder) THEN UNCHANGED <<builder, window, sent>>
  ELSE /\ sent' = [profile |-> encode(builder), window |-> window]
       /\ builder' = reset(encoded(builder)) /\ window' = <<>>

\* (mutated form) the cache outlives the profile.
FlushKeepsCache ==
  /\ reader = "check" /\ reader' = "drain"
  /\ flushes < MaxFlushes /\ flushes' = flushes + 1
  /\ FlushProfile
  /\ UNCHANGED symbol_cache
  /\ stale' = Codes \ live
  /\ UNCHANGED <<unwindVars, heapVars, ring, resolved, reading, samples>>

Flush ==
  /\ reader = "check" /\ reader' = "drain"
  /\ flushes < MaxFlushes /\ flushes' = flushes + 1
  /\ FlushProfile
  /\ symbol_cache' = EmptyIndex
  /\ stale' = Codes \ live
  /\ UNCHANGED <<unwindVars, heapVars, ring, resolved, reading, samples>>

Resolve == ResolveCached \/ ReadPointer \/ ReadHeader \/ ReadData
Reader == Resolve \/ AddRecord \/ Drained \/ NotDue \/ Flush

Next == Signal \/ Walk \/ Record \/ Interpreter \/ Reader

\* The walk is straight-line code of a signal handler.  The reader is fair as well, which no
\* property here is about.
Spec == Init /\ [][Next]_vars /\ WF_vars(Walk)

-----------------------------------------------------------------------------
(* Properties                                                              *)

TypeOK ==
  /\ UnwindTypeOK
  /\ object \in [Codes -> Bodies]
  /\ string \in [Unicodes -> Contents \union {Fault}]
  /\ live \subseteq Codes /\ Codes \ live \subseteq stale
  /\ ring \in Seq(Seq(Codes)) /\ \A i \in DOMAIN ring : Len(ring[i]) \in 1..MaxDepth
  /\ reader \in {"drain", "check"} /\ resolved \in 0..MaxDepth
  /\ reading \in Readings
  /\ ring = <<>> => resolved = 0
  /\ DOMAIN symbol_cache \subseteq Codes

\* The profile that is sent says what was sampled: of each stack of names, the signals that
\* found it since the last profile, times the period, whatever the builder held before.
ProfileDecodes ==
  LET w == sent.window
  IN  /\ Closed(sent.profile)
      /\ Decode(sent.profile) =
           [stack \in ToSet(w) |-> Period * Cardinality({i \in DOMAIN w : w[i] = stack})]

Shows(name, text) ==
  \E n \in 1..Len(text) :
    /\ name = Beginning(text, n)
    /\ n < Len(text) => n \in {BufLen \div 2, BufLen \div 4} \/ ~ Fits(text, n + 1)

\* A name stands for its code object no longer than a window.  One that has been allocated
\* all the time since the cache was cleared has its own name there, cut only where the
\* buffer ends, though objects and strings around it are freed between the reads.  That of
\* one that was freed meanwhile may be another's, or garbled, until the next flush.
NamesAreCurrent ==
  \A c \in DOMAIN symbol_cache \ stale :
    \/ symbol_cache[c] = Unknown
    \/ \E s \in PointersOf(object[c]) \intersect Unicodes : Shows(symbol_cache[c], string[s].text)
=============================================================================
