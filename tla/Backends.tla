------------------------------ MODULE Backends ------------------------------
(***************************************************************************)
(* The profiler backends behind the Backend trait: Pyspy (the Python       *)
(* binding), Rbspy (the Ruby binding) and Pprof (Rust programs).           *)
(*                                                                         *)
(* Every call goes through BackendImpl and holds its mutex until it        *)
(* returns, so calls exclude each other; a sampler runs beside them.  The  *)
(* two spies read stacks in a thread of their own, which tags each trace   *)
(* and adds it to the buffer.  Pprof has none: the pprof crate collects in *)
(* a signal handler while a guard lives, and a call moves what it has      *)
(* collected to the buffer.                                                *)
(***************************************************************************)
EXTENDS AgentEncode, Bags, Naturals, Sequences

CONSTANTS
  Kinds,        \* the backends of the instance: some of "pyspy", "rbspy", "pprof"
  Threads,      \* profiled threads with an id
  NoThread,     \* the thread of a trace without one, which rbspy may send
  Stacks,       \* stacks, as sequences of frames
  Grouped,      \* the same as the pprof crate has them: sequences of groups of frames,
                \* those that were inlined into one another in a group
  Config,       \* BackendConfig: some of "pid", "thread_id", "thread_name"
  QueueSize,    \* capacity of rbspy's channel
  Period,       \* nanoseconds between samples, 10^9 over the sample rate
  MaxSamples,   \* bound: traces sampled
  MaxCalls,     \* bound: calls of add_tag, remove_tag and report
  MaxFailures   \* bound: errors of the pprof crate after initialize()

ASSUME BackendsAssumption ==
  /\ Kinds \subseteq {"pyspy", "rbspy", "pprof"}
  /\ NoThread \notin Threads
  /\ \A s \in Stacks :
       /\ s \in Seq(ToSet(s))
       /\ \A f \in ToSet(s) : f = [name |-> f.name, filename |-> f.filename, line |-> f.line]
  /\ \A g \in Grouped : FlattenSeq(g) \in Stacks
  /\ Config \subseteq {"pid", "thread_id", "thread_name"}
  /\ QueueSize \in Nat /\ Period \in Nat \ {0} /\ MaxSamples \in Nat /\ MaxCalls \in Nat /\ MaxFailures \in Nat

\* Thread tags have one key here: two of them clash where a profile has one label per key.
Tags == {<<"tag", v>> : v \in ToSet(TagValues)}

VARIABLES
  kind,       \* the backend
  slot,       \* BackendImpl: "uninitialized", "ready", "none" (shut down), "failed"
  pc, call,   \* where the call that holds the mutex is, and which one it is
  ruleset,    \* ThreadTagsSet
  buffer,     \* StackBuffer: how often each trace was recorded
  copy,       \* the copy of it that report() made
  sampler,    \* the spy's thread
  running,    \* the flag that Pyspy's thread reads
  pending,    \* a spy: raw traces of the current sample, or in the channel
  hand,       \* a spy: the trace that was tagged and is not recorded
  guard,      \* Pprof: there is a ProfilerGuard
  collected,  \* Pprof: what the guard's profiler holds
  \* History
  recorded,   \* what was added to the buffer, or was to be: all that Pprof's dumps took
  reported,   \* what report() returned
  window,     \* what was recorded while a report() was between copy and clear
  replaced,   \* what a dump of Pprof took and dropped, another count in its place
  taken, calls, failures

callVars    == <<slot, pc, call>>
spyVars     == <<sampler, running, pending, hand>>
pprofVars   == <<guard, collected>>
bounds      == <<taken, calls, failures>>
vars == <<kind, callVars, ruleset, buffer, copy, spyVars, pprofVars, recorded, reported,
          window, replaced, bounds>>

\* A raw trace.  History: the tags its thread had, and whether no call was in progress.
TagsOf(t) == {r.tag : r \in {q \in ruleset : q.tid = t}}
Raw(t, s) == [thread |-> t, stack |-> s, under |-> TagsOf(t), calm |-> (pc = "idle")]
One(e) == SetToBag({e})

\* StackTrace::new: the tags that BackendConfig asks for, as far as the sampler knows
\* them.  Frames are renamed and copied, one to one.
Known(t) ==
  (CASE kind = "pyspy" -> {"pid", "thread_id", "thread_name"}
     [] kind = "rbspy" -> {"pid"} \union (IF t = NoThread THEN {} ELSE {"thread_id"})
     [] kind = "pprof" -> {"thread_id", "thread_name"}) \intersect Config

OwnTrace(raw) ==
  [stack |-> raw.stack, thread |-> raw.thread, calm |-> raw.calm, under |-> raw.under,
   tags |-> {<<key, IF key = "pid" THEN "self" ELSE raw.thread>> : key \in Known(raw.thread)}]

\* The rules of the trace's thread, at the moment of the call.
add_tag_rules(trace) ==
  [trace EXCEPT !.tags = @ \union TagsOf(trace.thread)]

Tagged(raw) == add_tag_rules(OwnTrace(raw))

\* A trace has the frames of a pprof::Frames without the groups, so that two entries of
\* the crate's report, which counts by thread and groups, may become one trace.
SameTrace(x, y) == x.raw.thread = y.raw.thread /\ x.raw.stack = y.raw.stack

\* collect() into a HashMap: of the entries that become one trace one is left, with its
\* count; it is the one that the iteration comes to last.  These sets may be left.
Survivors(b) ==
  {S \in SUBSET BagToSet(b) :
     /\ \A x \in BagToSet(b) : \E y \in S : SameTrace(x, y)
     /\ \A x \in BagToSet(b), y \in S : SameTrace(x, y) => (x \in S <=> x.frames = y.frames)}

\* The traces of some entries, tagged.  (Entries of one trace are apart here only by their
\* history, which the crate does not know.)
Copies(b, S) == UNION {{e} \X (1..b[e]) : e \in S}
TaggedBag(b, S) ==
  [e \in {Tagged(x.raw) : x \in S} |->
     Cardinality(Copies(b, {x \in S : Tagged(x.raw) = e}))]

\* From<StackBuffer> for Vec<Report>: one report per metadata.
Reports(b) ==
  LET metadata == {trace.tags : trace \in BagToSet(b)}
  IN  {[metadata |-> m, data |-> [trace \in {e \in BagToSet(b) : e.tags = m} |-> b[trace]]]
        : m \in metadata}

\* How often each trace is in the reports.
Together(reports) ==
  [e \in UNION {BagToSet(r.data) : r \in reports} |->
     Cardinality(UNION {{r} \X (1..r.data[e]) : r \in {x \in reports : e \in BagToSet(x.data)}})]

Init ==
  /\ kind \in Kinds
  /\ slot = "uninitialized" /\ pc = "idle" /\ call = [op |-> "none"]
  /\ ruleset = {} /\ buffer = EmptyBag /\ copy = EmptyBag
  /\ sampler = "none" /\ running = FALSE /\ pending = <<>> /\ hand = <<>>
  /\ guard = FALSE /\ collected = EmptyBag
  /\ recorded = EmptyBag /\ reported = EmptyBag
  /\ window = EmptyBag /\ replaced = EmptyBag
  /\ taken = 0 /\ calls = 0 /\ failures = 0

-----------------------------------------------------------------------------
(* initialize() and shutdown().                                            *)

Initialize ==
  /\ slot = "uninitialized"
  /\ slot' = "ready"
  /\ sampler' = CASE kind = "pyspy" -> "starting"
                  [] kind = "rbspy" -> "running"
                  [] kind = "pprof" -> "none"
  /\ running' = (kind = "pyspy")
  /\ guard' = (kind = "pprof")
  /\ UNCHANGED <<kind, pc, call, ruleset, buffer, copy, pending, hand, collected, recorded,
                 reported, window, replaced, bounds>>

\* Pyspy: no pid; Rbspy: the sampler does not start; Pprof: no guard.
InitializeFails ==
  /\ slot = "uninitialized"
  /\ slot' = "failed"
  /\ UNCHANGED <<kind, pc, call, ruleset, buffer, copy, spyVars, pprofVars, recorded,
                 reported, window, replaced, bounds>>

\* (mutated form) Pyspy's flag is not cleared.
ShutdownKeepsRunning ==
  /\ slot = "ready" /\ pc = "idle"
  /\ slot' = "none"
  /\ pc' = IF kind = "pyspy" THEN "join" ELSE "idle"
  /\ sampler' = IF kind = "rbspy" THEN "stopped" ELSE sampler
  /\ guard' = FALSE /\ collected' = EmptyBag
  /\ UNCHANGED <<kind, call, ruleset, buffer, copy, running, pending, hand, recorded,
                 reported, window, replaced, bounds>>

\* The backend leaves its slot.  Rbspy stops the sampler and does not wait for its own
\* thread; Pprof only drops its guard.
Shutdown ==
  /\ slot = "ready" /\ pc = "idle"
  /\ slot' = "none"
  /\ pc' = IF kind = "pyspy" THEN "join" ELSE "idle"
  /\ running' = FALSE
  /\ sampler' = IF kind = "rbspy" THEN "stopped" ELSE sampler
  /\ guard' = FALSE /\ collected' = EmptyBag
  /\ UNCHANGED <<kind, call, ruleset, buffer, copy, pending, hand, recorded, reported,
                 window, replaced, bounds>>

\* (mutated form) shutdown() does not join the thread.
ShutdownDetaches ==
  /\ pc = "join"
  /\ pc' = "idle"
  /\ UNCHANGED <<kind, slot, call, ruleset, buffer, copy, spyVars, pprofVars, recorded,
                 reported, window, replaced, bounds>>

\* Pyspy::shutdown joins the thread; its error, if it failed, is shutdown()'s.
ShutdownJoins ==
  /\ pc = "join"
  /\ sampler \in {"ended", "failed"}
  /\ pc' = "idle"
  /\ UNCHANGED <<kind, slot, call, ruleset, buffer, copy, spyVars, pprofVars, recorded,
                 reported, window, replaced, bounds>>

-----------------------------------------------------------------------------
(* add_tag(), remove_tag() and report().                                   *)

Changes == [op : {"add_tag", "remove_tag"}, tid : Threads, tag : Tags]
Apply(c) ==
  LET rule == [tid |-> c.tid, tag |-> c.tag]
  IN  ruleset' = IF c.op = "add_tag" THEN ruleset \union {rule} ELSE ruleset \ {rule}

\* A call begins.
Calls(c) ==
  /\ slot = "ready" /\ pc = "idle"
  /\ calls < MaxCalls
  /\ calls' = calls + 1
  /\ call' = c

\* (mutated form) Pprof changes the rules and then dumps.
TagBeforeDump(c) ==
  /\ Calls(c)
  /\ Apply(c)
  /\ pc' = IF guard THEN "dump" ELSE "idle"
  /\ UNCHANGED <<kind, slot, buffer, copy, spyVars, pprofVars, recorded, reported, window,
                 replaced, taken, failures>>

\* A spy changes the rules at once, Pprof dumps first if it has a guard.
TagCall(c) ==
  /\ Calls(c)
  /\ IF guard THEN pc' = "dump" /\ UNCHANGED ruleset ELSE Apply(c) /\ UNCHANGED pc
  /\ UNCHANGED <<kind, slot, buffer, copy, spyVars, pprofVars, recorded, reported, window,
                 replaced, taken, failures>>

\* Pprof::report dumps first, and fails when there is no guard.
PprofReport ==
  /\ kind = "pprof" /\ guard
  /\ Calls([op |-> "report"])
  /\ pc' = "dump"
  /\ UNCHANGED <<kind, slot, ruleset, buffer, copy, spyVars, pprofVars, recorded, reported,
                 window, replaced, taken, failures>>

\* report() of a spy: the buffer is copied under its mutex...
SpyReport ==
  /\ kind # "pprof"
  /\ Calls([op |-> "report"])
  /\ copy' = buffer
  /\ pc' = "clear"
  /\ UNCHANGED <<kind, slot, ruleset, buffer, spyVars, pprofVars, recorded, reported, window,
                 replaced, taken, failures>>

\* (mutated form) the buffer is not cleared.
ReportKeepsBuffer ==
  /\ pc = "clear"
  /\ pc' = "idle"
  /\ reported' = reported (+) Together(Reports(copy))
  /\ copy' = EmptyBag
  /\ UNCHANGED <<kind, slot, call, ruleset, buffer, spyVars, pprofVars, recorded, window,
                 replaced, bounds>>

\* ...and cleared when the mutex has been released and taken again.
ReportClears ==
  /\ pc = "clear"
  /\ pc' = "idle"
  /\ reported' = reported (+) Together(Reports(copy))
  /\ buffer' = EmptyBag /\ copy' = EmptyBag
  /\ UNCHANGED <<kind, slot, call, ruleset, spyVars, pprofVars, recorded, window, replaced,
                 bounds>>

-----------------------------------------------------------------------------
(* Pprof: dump_report() and reset().                                       *)

\* (mutated form) a trace that is in the buffer gets the new count.
DumpOverwrites ==
  /\ pc = "dump"
  /\ \E S \in Survivors(collected) :
       LET new  == TaggedBag(collected, S)
           rest == TaggedBag(collected, BagToSet(collected) \ S)
       IN  /\ buffer' = [e \in BagToSet(buffer (+) new) |->
                           IF e \in BagToSet(new) THEN new[e] ELSE buffer[e]]
           /\ recorded' = (recorded (+) new) (+) rest
           /\ replaced' = replaced (+) rest
  /\ pc' = "take"
  /\ UNCHANGED <<kind, slot, call, ruleset, copy, spyVars, pprofVars, reported, window,
                 bounds>>

\* The profiler's report is built without stopping it, its entries become traces, are
\* tagged and recorded.
DumpBuilds ==
  /\ pc = "dump"
  /\ \E S \in Survivors(collected) :
       LET new  == TaggedBag(collected, S)
           rest == TaggedBag(collected, BagToSet(collected) \ S)
       IN  /\ buffer' = buffer (+) new
           /\ recorded' = (recorded (+) new) (+) rest
           /\ replaced' = replaced (+) rest
  /\ pc' = "take"
  /\ UNCHANGED <<kind, slot, call, ruleset, copy, spyVars, pprofVars, reported, window,
                 bounds>>

\* The guard is dropped, and with it what the profiler has collected since.
ResetTakes ==
  /\ pc = "take"
  /\ guard' = FALSE /\ collected' = EmptyBag
  /\ pc' = "build"
  /\ UNCHANGED <<kind, slot, call, ruleset, buffer, copy, spyVars, recorded, reported,
                 window, replaced, bounds>>

ResetBuilds ==
  /\ pc = "build"
  /\ guard' = TRUE
  /\ pc' = IF call.op = "report" THEN "copy" ELSE "apply"
  /\ UNCHANGED <<kind, slot, call, ruleset, buffer, copy, spyVars, collected, recorded,
                 reported, window, replaced, bounds>>

\* No report, or no new guard: the call returns the error and does no more.
DumpFails ==
  /\ pc \in {"dump", "build"}
  /\ failures < MaxFailures
  /\ failures' = failures + 1
  /\ pc' = "idle"
  /\ UNCHANGED <<kind, slot, call, ruleset, buffer, copy, spyVars, pprofVars, recorded,
                 reported, window, replaced, taken, calls>>

\* The rest of the call.
PprofTags ==
  /\ pc = "apply"
  /\ Apply(call)
  /\ pc' = "idle"
  /\ UNCHANGED <<kind, slot, call, buffer, copy, spyVars, pprofVars, recorded, reported,
                 window, replaced, bounds>>

PprofCopies ==
  /\ pc = "copy"
  /\ copy' = buffer
  /\ pc' = "clear"
  /\ UNCHANGED <<kind, slot, call, ruleset, buffer, spyVars, pprofVars, recorded, reported,
                 window, replaced, bounds>>

-----------------------------------------------------------------------------
(* The samplers.                                                           *)

\* Pyspy's thread attaches to the process, or ends with an error nobody sees.
PyspyStarts ==
  /\ sampler = "starting"
  /\ sampler' \in {"running", "failed"}
  /\ UNCHANGED <<kind, callVars, ruleset, buffer, copy, running, pending, hand, pprofVars,
                 recorded, reported, window, replaced, bounds>>

\* The next sample: the traces of some threads, those that are idle or do not own the GIL
\* left out as configured.  take_while reads the flag when a sample is there, and drops the
\* sample that finds it cleared.
PyspySamples ==
  /\ kind = "pyspy" /\ sampler = "running"
  /\ pending = <<>> /\ hand = <<>>
  /\ IF running
     THEN /\ \E q \in {<<a>> : a \in Threads}
                      \union {<<a, b>> : a \in Threads, b \in Threads} :
               /\ taken + Len(q) <= MaxSamples
               /\ taken' = taken + Len(q)
               /\ \E f \in [DOMAIN q -> Stacks] :
                    pending' = [i \in DOMAIN q |-> Raw(q[i], f[i])]
          /\ UNCHANGED sampler
     ELSE sampler' = "ended" /\ UNCHANGED <<pending, taken>>
  /\ UNCHANGED <<kind, callVars, ruleset, buffer, copy, running, hand, pprofVars, recorded,
                 reported, window, replaced, calls, failures>>

\* (mutated form) an unbounded channel.
RbspySendsUnbounded ==
  /\ kind = "rbspy" /\ sampler = "running"
  /\ taken < MaxSamples
  /\ taken' = taken + 1
  /\ \E t \in Threads \union {NoThread}, s \in Stacks : pending' = Append(pending, Raw(t, s))
  /\ UNCHANGED <<kind, callVars, ruleset, buffer, copy, sampler, running, hand, pprofVars,
                 recorded, reported, window, replaced, calls, failures>>

\* The rbspy crate's sampler sends, within the channel's capacity.
RbspySends ==
  /\ kind = "rbspy" /\ sampler = "running"
  /\ taken < MaxSamples /\ Len(pending) < QueueSize
  /\ taken' = taken + 1
  /\ \E t \in Threads \union {NoThread}, s \in Stacks : pending' = Append(pending, Raw(t, s))
  /\ UNCHANGED <<kind, callVars, ruleset, buffer, copy, sampler, running, hand, pprofVars,
                 recorded, reported, window, replaced, calls, failures>>

\* The sampler was stopped and the channel is empty: the receiving thread ends.
RbspyEnds ==
  /\ sampler = "stopped" /\ pending = <<>> /\ hand = <<>>
  /\ sampler' = "ended"
  /\ UNCHANGED <<kind, callVars, ruleset, buffer, copy, running, pending, hand, pprofVars,
                 recorded, reported, window, replaced, bounds>>

\* A spy's thread takes the mutex of the rules, and then that of the buffer.
SpyTags ==
  /\ pending # <<>> /\ hand = <<>>
  /\ hand' = <<Tagged(Head(pending))>>
  /\ pending' = Tail(pending)
  /\ UNCHANGED <<kind, callVars, ruleset, buffer, copy, sampler, running, pprofVars,
                 recorded, reported, window, replaced, bounds>>

SpyRecords ==
  /\ hand # <<>>
  /\ LET new == One(Head(hand))
     IN  /\ buffer' = buffer (+) new
         /\ recorded' = recorded (+) new
         /\ window' = IF pc = "clear" THEN window (+) new ELSE window
  /\ hand' = <<>>
  /\ UNCHANGED <<kind, callVars, ruleset, copy, sampler, running, pending, pprofVars,
                 reported, replaced, bounds>>

\* SIGPROF, while there is a guard.
PprofSamples ==
  /\ guard /\ taken < MaxSamples
  /\ taken' = taken + 1
  /\ \E t \in Threads, g \in Grouped :
       collected' = collected (+) One([frames |-> g, raw |-> Raw(t, FlattenSeq(g))])
  /\ UNCHANGED <<kind, callVars, ruleset, buffer, copy, spyVars, guard, recorded, reported,
                 window, replaced, calls, failures>>

-----------------------------------------------------------------------------
Caller == \/ Initialize \/ InitializeFails \/ Shutdown \/ PprofReport \/ SpyReport
          \/ \E c \in Changes : TagCall(c)
CallStep == \/ ReportClears \/ DumpBuilds \/ ResetTakes \/ ResetBuilds \/ PprofTags
            \/ PprofCopies \/ ShutdownJoins
SpyStep == \/ PyspyStarts \/ PyspySamples \/ RbspyEnds \/ SpyTags \/ SpyRecords

Next == \/ Caller \/ CallStep \/ DumpFails \/ SpyStep \/ RbspySends \/ PprofSamples

\* A call in progress goes on, and so does a spy's thread.
Fairness == WF_vars(CallStep) /\ WF_vars(SpyStep)

Spec == Init /\ [][Next]_vars /\ Fairness

-----------------------------------------------------------------------------
Traces == [stack : Stacks, thread : Threads \union {NoThread}, calm : BOOLEAN,
           under : SUBSET Tags,
           tags : SUBSET (Tags \union {"pid", "thread_id", "thread_name"}
                                       \X ({"self", NoThread} \union Threads))]

RawTraces == [thread : Threads \union {NoThread}, stack : Stacks, under : SUBSET Tags, calm : BOOLEAN]
Sampled == [frames : Grouped, raw : RawTraces]
IsABagOf(S, b) == IsABag(b) /\ BagToSet(b) \subseteq S

\* The variables have their types, and rbspy's channel keeps its capacity.
TypeOK ==
  /\ kind \in Kinds
  /\ slot \in {"uninitialized", "ready", "none", "failed"}
  /\ pc \in {"idle", "dump", "take", "build", "apply", "copy", "clear", "join"}
  /\ call \in Changes \union {[op |-> "report"], [op |-> "none"]}
  /\ ruleset \subseteq [tid : Threads, tag : Tags]
  /\ \A b \in {buffer, copy, recorded, reported, window, replaced} : IsABagOf(Traces, b)
  /\ sampler \in {"none", "starting", "running", "stopped", "ended", "failed"}
  /\ running \in BOOLEAN /\ guard \in BOOLEAN /\ IsABagOf(Sampled, collected)
  /\ pending \in Seq(RawTraces) /\ (kind = "rbspy" => Len(pending) <= QueueSize)
  /\ hand \in Seq(Traces) /\ Len(hand) <= 1
  /\ taken \in 0..MaxSamples /\ calls \in 0..MaxCalls /\ failures \in 0..MaxFailures

\* No recorded sample is in two reports, or in a report and still in the buffer, whatever
\* the sampler records while a report is made.
ReportedOnce == (reported (+) buffer) (+) replaced \sqsubseteq recorded

\* What is recorded is reported or waits in the buffer, whatever calls fail, except for two
\* losses.  A spy may record between the copy and the clear of a report.  A dump of Pprof
\* keeps one of the counts whose entries become one trace; that trace, with its tags, is
\* reported or in the buffer all the same.  Neither has the other's loss.
LostOnlyInWindow ==
  /\ recorded \sqsubseteq ((reported (+) buffer) (+) window) (+) replaced
  /\ kind = "pprof" => window = EmptyBag
  /\ kind # "pprof" => replaced = EmptyBag
  /\ \A e \in BagToSet(replaced) : \E f \in BagToSet(reported (+) buffer) :
       f.stack = e.stack /\ f.thread = e.thread /\ f.tags = e.tags

\* "Workaround for pprof-rs to interrupt the profiler": a sample that Pprof takes while no
\* call is in progress is reported under exactly the tags its thread had then, though the
\* rules are applied when the profile is dumped, and also when dumps fail.
TagScopes ==
  kind = "pprof" =>
    \A e \in BagToSet(buffer (+) reported) :
      e.calm => e.tags = OwnTrace(e).tags \union e.under

\* The profile that the encoder makes of a report decodes to what was recorded: every stack
\* with its frames, its labels (the largest value of each key) and its count, once.
Labels(tags) == {t \in tags : ~ \E u \in tags : u[1] = t[1] /\ Before(t[2], u[2])}
Profiled(b) ==
  LET Seen(e) == [frames |-> e.stack, labels |-> Labels(e.tags)]
  IN  [k \in {Seen(e) : e \in BagToSet(b)} |->
         Period * MapThenSumSet(LAMBDA e : b[e], {e \in BagToSet(b) : Seen(e) = k})]
ProfilesDecode == pc = "clear" => Decode(encode(Reports(copy), Period)) = Profiled(copy)

\* When the shutdown() of Pyspy or Pprof has returned, nothing samples or records any more.
QuietAfterShutdown ==
  [][slot = "none" /\ pc = "idle" /\ kind # "rbspy" => UNCHANGED <<taken, buffer>>]_vars

\* shutdown() returns: the thread it waits for reads the flag again.
ShutdownReturns == pc = "join" ~> pc = "idle"
=============================================================================
