--------------------------- MODULE BackendsProofs ---------------------------
(***************************************************************************)
(* Theorems about Backends, for every backend, set of threads and stacks,  *)
(* tag values, configuration, channel size and bound.                      *)
(***************************************************************************)
EXTENDS Backends, AgentEncodeProofs

-----------------------------------------------------------------------------
(* Bags, by how often each element is in them.                             *)

Count(b, e) == IF e \in DOMAIN b THEN b[e] ELSE 0

LEMMA CountType ==
  ASSUME NEW b, IsABag(b)
  PROVE  \A e : Count(b, e) \in Nat /\ (e \in DOMAIN b <=> Count(b, e) > 0)
  BY DEF Count, IsABag

LEMMA EmptyBagCounts ==
  /\ IsABag(EmptyBag) /\ DOMAIN EmptyBag = {}
  /\ \A e : Count(EmptyBag, e) = 0
  BY DEF EmptyBag, SetToBag, IsABag, Count

LEMMA OneCounts ==
  ASSUME NEW x
  PROVE  /\ IsABag(One(x)) /\ DOMAIN One(x) = {x}
         /\ \A e : Count(One(x), e) = IF e = x THEN 1 ELSE 0
  BY DEF One, SetToBag, IsABag, Count

LEMMA SumCounts ==
  ASSUME NEW a, NEW b, IsABag(a), IsABag(b)
  PROVE  /\ IsABag(a (+) b) /\ DOMAIN (a (+) b) = DOMAIN a \union DOMAIN b
         /\ \A e : Count(a (+) b, e) = Count(a, e) + Count(b, e)
<1>1. \A e \in DOMAIN a : a[e] \in Nat /\ a[e] > 0
  BY DEF IsABag
<1>2. \A e \in DOMAIN b : b[e] \in Nat /\ b[e] > 0
  BY DEF IsABag
<1>3. DOMAIN (a (+) b) = DOMAIN a \union DOMAIN b
  BY DEF (+)
<1>4. \A e : Count(a (+) b, e) = Count(a, e) + Count(b, e)
  BY <1>1, <1>2 DEF (+), Count
<1>5. IsABag(a (+) b)
  BY <1>1, <1>2 DEF (+), IsABag
<1> QED BY <1>3, <1>4, <1>5

LEMMA SubBagCounts ==
  ASSUME NEW a, NEW b, IsABag(a), IsABag(b)
  PROVE  a \sqsubseteq b <=> \A e : Count(a, e) <= Count(b, e)
<1>1. \A e \in DOMAIN a : a[e] \in Nat /\ a[e] > 0
  BY DEF IsABag
<1>2. \A e \in DOMAIN b : b[e] \in Nat /\ b[e] > 0
  BY DEF IsABag
<1>3. ASSUME a \sqsubseteq b PROVE \A e : Count(a, e) <= Count(b, e)
  BY <1>1, <1>2, <1>3 DEF \sqsubseteq, Count
<1>4. ASSUME \A e : Count(a, e) <= Count(b, e) PROVE a \sqsubseteq b
  <2>1. ASSUME NEW e \in DOMAIN a PROVE e \in DOMAIN b /\ a[e] <= b[e]
    <3>1. Count(a, e) <= Count(b, e)
      BY <1>4
    <3> QED BY <3>1, <1>1 DEF Count
  <2> QED BY <2>1 DEF \sqsubseteq
<1> QED BY <1>3, <1>4

LEMMA BagOfSum ==
  ASSUME NEW S, NEW a, NEW b, IsABagOf(S, a), IsABagOf(S, b)
  PROVE  IsABagOf(S, a (+) b)
  BY SumCounts DEF IsABagOf, BagToSet

LEMMA BagOfOne ==
  ASSUME NEW S, NEW x \in S
  PROVE  IsABagOf(S, One(x))
<1>1. IsABag(One(x)) /\ DOMAIN One(x) = {x}
  BY OneCounts
<1> QED BY <1>1 DEF IsABagOf, BagToSet

LEMMA BagOfNone ==
  ASSUME NEW S
  PROVE  IsABagOf(S, EmptyBag)
  BY EmptyBagCounts DEF IsABagOf, BagToSet

-----------------------------------------------------------------------------
(* The model's operators.                                                  *)

LEMMA TimesOne ==
  ASSUME NEW x, NEW n \in Nat
  PROVE  Cardinality({x} \X (1..n)) = n
<1> DEFINE S == {x}
           T == 1..n
<1>1. IsFiniteSet(S) /\ Cardinality(S) = 1
  BY FS_Singleton
<1>2. IsFiniteSet(T) /\ Cardinality(T) = n
  BY FS_Interval
<1> HIDE DEF S, T
<1>3. Cardinality(S \X T) = Cardinality(S) * Cardinality(T)
  BY <1>1, <1>2, FS_Product
<1>4. Cardinality(S \X T) = n
  BY <1>1, <1>2, <1>3
<1> QED BY <1>4 DEF S, T

\* A report holds each of its traces as often as the buffer did, and no two hold the same.
LEMMA TogetherAgain ==
  ASSUME NEW b, IsABag(b)
  PROVE  Together(Reports(b)) = b
<1> DEFINE R(m) == [metadata |-> m, data |-> [trace \in {e \in DOMAIN b : e.tags = m} |-> b[trace]]]
           metadata == {trace.tags : trace \in DOMAIN b}
<1>1. Reports(b) = {R(m) : m \in metadata}
  BY DEF Reports, BagToSet
<1>2. \A m : BagToSet(R(m).data) = {e \in DOMAIN b : e.tags = m}
  BY DEF BagToSet
<1>3. UNION {BagToSet(r.data) : r \in Reports(b)} = DOMAIN b
  <2>1. ASSUME NEW e \in DOMAIN b PROVE \E r \in Reports(b) : e \in BagToSet(r.data)
    <3>1. e.tags \in metadata /\ R(e.tags) \in Reports(b)
      BY <1>1
    <3>2. e \in BagToSet(R(e.tags).data)
      BY <1>2
    <3> QED BY <3>1, <3>2
  <2>2. ASSUME NEW r \in Reports(b) PROVE BagToSet(r.data) \subseteq DOMAIN b
    BY <1>1, <1>2
  <2> QED BY <2>1, <2>2
<1>4. ASSUME NEW e \in DOMAIN b
      PROVE  Cardinality(UNION {{r} \X (1..r.data[e]) : r \in {x \in Reports(b) : e \in BagToSet(x.data)}}) = b[e]
  <2> DEFINE r == R(e.tags)
  <2>1. {x \in Reports(b) : e \in BagToSet(x.data)} = {r}
    <3>1. e.tags \in metadata /\ e \in BagToSet(r.data)
      BY <1>2
    <3>2. r \in Reports(b)
      BY <3>1, <1>1
    <3>3. ASSUME NEW x \in Reports(b), e \in BagToSet(x.data) PROVE x = r
      <4>1. PICK m \in metadata : x = R(m)
        BY <1>1
      <4>2. e.tags = m
        BY <4>1, <1>2, <3>3
      <4> QED BY <4>1, <4>2
    <3> QED BY <3>1, <3>2, <3>3
  <2>2. r.data[e] = b[e]
    OBVIOUS
  <2> HIDE DEF r
  <2>3. UNION {{x} \X (1..x.data[e]) : x \in {r}} = {r} \X (1..b[e])
    BY <2>2
  <2>4. Cardinality({r} \X (1..b[e])) = b[e]
    BY TimesOne DEF IsABag
  <2> QED BY <2>1, <2>3, <2>4
<1>5. Together(Reports(b)) =
        [e \in DOMAIN b |->
           Cardinality(UNION {{r} \X (1..r.data[e]) : r \in {x \in Reports(b) : e \in BagToSet(x.data)}})]
  BY <1>3 DEF Together
<1>6. b = [e \in DOMAIN b |-> b[e]]
  BY DEF IsABag
<1> QED BY <1>4, <1>5, <1>6

\* Traces that become the same one are as many as they were: a positive number.
LEMMA CopiesArePositive ==
  ASSUME NEW b, IsABag(b), NEW S \in SUBSET DOMAIN b, S # {}, IsFiniteSet(S),
         NEW n \in Nat, \A e \in S : b[e] <= n
  PROVE  Cardinality(Copies(b, S)) \in Nat /\ Cardinality(Copies(b, S)) > 0
<1>1. \A e \in S : b[e] \in Nat /\ b[e] > 0
  BY DEF IsABag
<1>2. Copies(b, S) \subseteq S \X (1..n)
  BY <1>1 DEF Copies
<1>3. IsFiniteSet(S \X (1..n))
  <2>1. IsFiniteSet(1..n)
    BY FS_Interval
  <2> QED BY <2>1, FS_Product
<1>4. IsFiniteSet(Copies(b, S))
  BY <1>2, <1>3, FS_Subset
<1>5. PICK e \in S : TRUE
  OBVIOUS
<1>6. <<e, 1>> \in Copies(b, S)
  BY <1>1 DEF Copies
<1>7. Cardinality(Copies(b, S)) \in Nat
  BY <1>4, FS_CardinalityType
<1>8. Cardinality(Copies(b, S)) # 0
  BY <1>4, <1>6, FS_EmptySet
<1> QED BY <1>7, <1>8

-----------------------------------------------------------------------------
(* Traces and their tags.                                                  *)

LEMMA TagsOfType ==
  ASSUME TypeOK, NEW t
  PROVE  TagsOf(t) \subseteq Tags
  BY DEF TypeOK, TagsOf

LEMMA RawType ==
  ASSUME TypeOK, NEW t \in Threads \union {NoThread}, NEW s \in Stacks
  PROVE  Raw(t, s) \in RawTraces
  BY TagsOfType DEF Raw, RawTraces

LEMMA KnownType ==
  ASSUME TypeOK, NEW t
  PROVE  Known(t) \subseteq {"pid", "thread_id", "thread_name"}
  BY BackendsAssumption DEF BackendsAssumption, TypeOK, Known

\* What a trace gets and what it keeps.
LEMMA TaggedTrace ==
  ASSUME TypeOK, NEW raw \in RawTraces
  PROVE  /\ Tagged(raw) \in Traces
         /\ Tagged(raw).thread = raw.thread /\ Tagged(raw).calm = raw.calm
         /\ Tagged(raw).under = raw.under /\ Tagged(raw).stack = raw.stack
         /\ Tagged(raw).tags = OwnTrace(raw).tags \union TagsOf(raw.thread)
<1> DEFINE own == {<<key, IF key = "pid" THEN "self" ELSE raw.thread>> : key \in Known(raw.thread)}
<1>1. OwnTrace(raw) = [stack |-> raw.stack, thread |-> raw.thread, calm |-> raw.calm,
                       under |-> raw.under, tags |-> own]
  BY DEF OwnTrace
<1>2. own \subseteq {"pid", "thread_id", "thread_name"} \X ({"self", NoThread} \union Threads)
  BY KnownType DEF RawTraces
<1> HIDE DEF own
<1>3. Tagged(raw) = [stack |-> raw.stack, thread |-> raw.thread, calm |-> raw.calm,
                     under |-> raw.under, tags |-> own \union TagsOf(raw.thread)]
  BY <1>1 DEF Tagged, add_tag_rules
<1>4. own \union TagsOf(raw.thread)
        \subseteq Tags \union {"pid", "thread_id", "thread_name"} \X ({"self", NoThread} \union Threads)
  BY <1>2, TagsOfType
<1> QED BY <1>1, <1>3, <1>4 DEF RawTraces, Traces

\* The tags a trace gets of its own depend on its thread alone.
LEMMA OwnTagsAgain ==
  ASSUME NEW e, NEW f, e.thread = f.thread
  PROVE  OwnTrace(e).tags = OwnTrace(f).tags
  BY DEF OwnTrace

LEMMA TaggedBagType ==
  ASSUME TypeOK, NEW b, IsABagOf(Sampled, b), IsFiniteSet(DOMAIN b), NEW S \in SUBSET DOMAIN b,
         NEW n \in Nat, \A x \in DOMAIN b : b[x] <= n
  PROVE  /\ IsABagOf(Traces, TaggedBag(b, S)) /\ IsFiniteSet(DOMAIN TaggedBag(b, S))
         /\ DOMAIN TaggedBag(b, S) = {Tagged(x.raw) : x \in S}
<1> DEFINE Same(e) == {x \in S : Tagged(x.raw) = e}
<1>1. DOMAIN TaggedBag(b, S) = {Tagged(x.raw) : x \in S}
  BY DEF TaggedBag
<1>2. IsABag(b) /\ DOMAIN b \subseteq Sampled
  BY DEF IsABagOf, BagToSet
<1>3. DOMAIN TaggedBag(b, S) \subseteq Traces
  <2>1. \A x \in S : x.raw \in RawTraces
    BY <1>2 DEF Sampled
  <2> QED BY <1>1, <2>1, TaggedTrace
<1>4. ASSUME NEW e \in DOMAIN TaggedBag(b, S)
      PROVE  TaggedBag(b, S)[e] \in Nat /\ TaggedBag(b, S)[e] > 0
  <2>1. Same(e) # {} /\ Same(e) \in SUBSET DOMAIN b
    BY <1>1
  <2>2. IsFiniteSet(Same(e))
    BY <2>1, FS_Subset
  <2>3. TaggedBag(b, S)[e] = Cardinality(Copies(b, Same(e)))
    BY DEF TaggedBag
  <2> HIDE DEF Same
  <2> QED BY <1>2, <2>1, <2>2, <2>3, CopiesArePositive
<1>5. IsABag(TaggedBag(b, S))
  <2>1. TaggedBag(b, S) = [e \in DOMAIN TaggedBag(b, S) |-> TaggedBag(b, S)[e]]
    BY DEF TaggedBag
  <2> QED BY <1>4, <2>1 DEF IsABag
<1>6. IsFiniteSet(DOMAIN TaggedBag(b, S))
  <2> DEFINE T == {Tagged(x.raw) : x \in S}
             f == [x \in S |-> Tagged(x.raw)]
  <2>1. f \in Surjection(S, T)
    BY DEF Surjection
  <2>2. IsFiniteSet(S)
    BY FS_Subset
  <2> HIDE DEF T, f
  <2>3. IsFiniteSet(T)
    BY <2>1, <2>2, FS_Surjection
  <2> QED BY <1>1, <2>3 DEF T
<1> QED BY <1>1, <1>3, <1>5, <1>6 DEF IsABagOf, BagToSet

-----------------------------------------------------------------------------
(* The inductive invariant.                                                *)

\* A call past its first step finds the backend in its slot, and is one that has such a
\* step; only Pyspy is joined.
CallInv ==
  /\ pc \notin {"idle", "join"} => slot = "ready"
  /\ pc = "join" => kind = "pyspy"
  /\ pc \in {"dump", "take", "build"} => call \in Changes \union {[op |-> "report"]}
  /\ pc = "apply" => call \in Changes

\* Pprof has no sampler of its own, and what it collects is gone with its guard.
PprofInv ==
  /\ kind = "pprof" => pending = <<>> /\ hand = <<>> /\ sampler = "none" /\ window = EmptyBag
  /\ kind # "pprof" => ~guard /\ pc \notin {"dump", "take", "build"}
  /\ slot # "ready" => ~guard
  /\ ~guard => collected = EmptyBag
  /\ pc = "build" => ~guard
  /\ IsFiniteSet(DOMAIN collected) /\ \A x \in DOMAIN collected : collected[x] <= taken

\* Pyspy's thread has nothing in hand before it runs and when it has ended, and has
\* ended when shutdown() has returned.
PyspyInv ==
  kind = "pyspy" =>
    /\ sampler # "stopped" /\ (slot = "uninitialized" => sampler = "none")
    /\ sampler # "running" => pending = <<>> /\ hand = <<>>
    /\ slot = "none" /\ pc = "idle" => sampler \in {"ended", "failed"}

\* What has been recorded, reported, replaced and copied, trace by trace.
CountInv ==
  \A e : /\ Count(reported, e) + Count(buffer, e) + Count(replaced, e) <= Count(recorded, e)
         /\ pc = "clear" => Count(copy, e) <= Count(buffer, e)
         /\ Count(recorded, e) <= Count(reported, e) + Count(window, e) + Count(replaced, e)
                                    + (IF pc = "clear" THEN Count(copy, e) ELSE Count(buffer, e))

\* Where a dump of Pprof replaced a count, the trace is there with another.
Alike(e, f) == f.stack = e.stack /\ f.thread = e.thread /\ f.tags = e.tags
ReplacedInv ==
  /\ kind # "pprof" => replaced = EmptyBag
  /\ \A e \in DOMAIN replaced : \E f \in DOMAIN reported \union DOMAIN buffer : Alike(e, f)

\* A trace taken while no call was in progress has the tags its thread had then.
Scoped(e) == e.calm => e.tags = OwnTrace(e).tags \union e.under

\* While Pprof holds one that is not tagged yet, the rules of its thread do not change.
TagInv ==
  kind = "pprof" =>
    /\ \A e \in DOMAIN buffer \union DOMAIN copy \union DOMAIN reported : Scoped(e)
    /\ \A x \in DOMAIN collected : x.raw.calm => x.raw.under = TagsOf(x.raw.thread)
    /\ pc = "apply" => \A x \in DOMAIN collected : ~x.raw.calm

\* A trace has tags of the rules, and one of each key that BackendConfig asks for.
OwnTags(e) ==
  e.tags \subseteq Tags \union {<<"pid", "self">>, <<"thread_id", e.thread>>, <<"thread_name", e.thread>>}

\* What a profile is made of: finitely many traces, tagged like that.
TraceInv ==
  /\ IsFiniteSet(DOMAIN buffer) /\ IsFiniteSet(DOMAIN copy)
  /\ \A e \in DOMAIN buffer \union DOMAIN copy : OwnTags(e)
  /\ hand # <<>> => OwnTags(Head(hand))

Inv == TypeOK /\ CallInv /\ PprofInv /\ PyspyInv /\ CountInv /\ ReplacedInv /\ TagInv /\ TraceInv

-----------------------------------------------------------------------------
(* What a dump of Pprof records and what it replaces, and a sample.        *)

LEMMA DumpTakes ==
  ASSUME TypeOK, PprofInv, DumpBuilds
  PROVE  \E new, rest : \E S \in Survivors(collected) :
           /\ S \subseteq DOMAIN collected
           /\ IsABagOf(Traces, new) /\ IsFiniteSet(DOMAIN new)
           /\ DOMAIN new = {Tagged(x.raw) : x \in S}
           /\ IsABagOf(Traces, rest) /\ DOMAIN rest = {Tagged(x.raw) : x \in DOMAIN collected \ S}
           /\ buffer' = buffer (+) new /\ recorded' = (recorded (+) new) (+) rest
           /\ replaced' = replaced (+) rest
<1>1. PICK S \in Survivors(collected) :
        /\ buffer' = buffer (+) TaggedBag(collected, S)
        /\ recorded' = (recorded (+) TaggedBag(collected, S))
                          (+) TaggedBag(collected, DOMAIN collected \ S)
        /\ replaced' = replaced (+) TaggedBag(collected, DOMAIN collected \ S)
  BY DEF DumpBuilds, BagToSet
<1>2. S \in SUBSET DOMAIN collected /\ DOMAIN collected \ S \in SUBSET DOMAIN collected
  BY DEF Survivors, BagToSet
<1>3. taken \in Nat /\ IsABagOf(Sampled, collected)
  BY DEF TypeOK
<1>4. IsFiniteSet(DOMAIN collected) /\ \A x \in DOMAIN collected : collected[x] <= taken
  BY DEF PprofInv
<1> DEFINE new == TaggedBag(collected, S)
           rest == TaggedBag(collected, DOMAIN collected \ S)
<1>5. IsABagOf(Traces, new) /\ IsFiniteSet(DOMAIN new) /\ DOMAIN new = {Tagged(x.raw) : x \in S}
  BY <1>2, <1>3, <1>4, TaggedBagType
<1>6. IsABagOf(Traces, rest) /\ DOMAIN rest = {Tagged(x.raw) : x \in DOMAIN collected \ S}
  BY <1>2, <1>3, <1>4, TaggedBagType
<1>7. buffer' = buffer (+) new /\ recorded' = (recorded (+) new) (+) rest /\ replaced' = replaced (+) rest
  BY <1>1
<1> HIDE DEF new, rest
<1> QED BY <1>2, <1>5, <1>6, <1>7

LEMMA SampleTakes ==
  ASSUME TypeOK, PprofSamples
  PROVE  \E t \in Threads, s \in Stacks, x \in Sampled :
           x.raw = Raw(t, s) /\ collected' = collected (+) One(x)
<1>1. PICK t \in Threads, g \in Grouped :
        collected' = collected (+) One([frames |-> g, raw |-> Raw(t, FlattenSeq(g))])
  BY DEF PprofSamples
<1>2. FlattenSeq(g) \in Stacks
  BY BackendsAssumption DEF BackendsAssumption
<1> DEFINE x == [frames |-> g, raw |-> Raw(t, FlattenSeq(g))]
<1>3. Raw(t, FlattenSeq(g)) \in RawTraces
  BY <1>2, RawType
<1>4. x \in Sampled /\ x.raw = Raw(t, FlattenSeq(g))
  BY <1>3 DEF Sampled
<1>5. collected' = collected (+) One(x)
  BY <1>1
<1> HIDE DEF x
<1> QED BY <1>2, <1>4, <1>5

-----------------------------------------------------------------------------
(* Types.                                                                  *)

LEMMA TypeInit == Init => TypeOK
<1> SUFFICES ASSUME Init PROVE TypeOK
  OBVIOUS
<1>1. \A b \in {buffer, copy, recorded, reported, window, replaced} : IsABagOf(Traces, b)
  BY BagOfNone DEF Init
<1>2. IsABagOf(Sampled, collected)
  BY BagOfNone DEF Init
<1>3. /\ kind \in Kinds /\ slot = "uninitialized" /\ pc = "idle" /\ call = [op |-> "none"]
      /\ ruleset = {} /\ sampler = "none" /\ running = FALSE /\ guard = FALSE
      /\ pending = <<>> /\ hand = <<>> /\ taken = 0 /\ calls = 0 /\ failures = 0
  BY DEF Init
<1>4. ruleset \subseteq [tid : Threads, tag : Tags]
  BY <1>3
<1>5. <<>> \in Seq(RawTraces) /\ <<>> \in Seq(Traces) /\ Len(<<>>) = 0
  OBVIOUS
<1>6. /\ pending \in Seq(RawTraces) /\ (kind = "rbspy" => Len(pending) <= QueueSize)
      /\ hand \in Seq(Traces) /\ Len(hand) <= 1
  BY <1>3, <1>5, BackendsAssumption DEF BackendsAssumption
<1>7. taken \in 0..MaxSamples /\ calls \in 0..MaxCalls /\ failures \in 0..MaxFailures
  BY <1>3, BackendsAssumption DEF BackendsAssumption
<1>8. call \in Changes \union {[op |-> "report"], [op |-> "none"]}
  BY <1>3
<1> QED BY <1>1, <1>2, <1>3, <1>4, <1>6, <1>7, <1>8, Zenon DEF TypeOK

LEMMA CallsType ==
  ASSUME TypeOK, NEW c \in Changes \union {[op |-> "report"]}, Calls(c)
  PROVE  calls' \in 0..MaxCalls /\ call' \in Changes \union {[op |-> "report"], [op |-> "none"]}
  BY BackendsAssumption DEF TypeOK, Calls, BackendsAssumption

LEMMA ApplyType ==
  ASSUME TypeOK, NEW c \in Changes, Apply(c)
  PROVE  ruleset' \subseteq [tid : Threads, tag : Tags]
<1>1. [tid |-> c.tid, tag |-> c.tag] \in [tid : Threads, tag : Tags]
  BY DEF Changes
<1> QED BY <1>1 DEF Apply, TypeOK

LEMMA TypeStep ==
  ASSUME TypeOK, CallInv, PprofInv, [Next]_vars
  PROVE  TypeOK'
<1>0. QueueSize \in Nat /\ MaxSamples \in Nat /\ MaxCalls \in Nat /\ MaxFailures \in Nat
  BY BackendsAssumption DEF BackendsAssumption
<1> USE <1>0
<1>1. CASE Initialize
  BY <1>1, BackendsAssumption DEF BackendsAssumption, TypeOK, Initialize, bounds
<1>2. CASE InitializeFails
  BY <1>2 DEF TypeOK, InitializeFails, spyVars, pprofVars, bounds
<1>3. CASE Shutdown
  BY <1>3, BagOfNone DEF TypeOK, Shutdown, bounds
<1>4. CASE PprofReport
  BY <1>4, CallsType DEF TypeOK, PprofReport, spyVars, pprofVars
<1>5. CASE SpyReport
  BY <1>5, CallsType DEF TypeOK, SpyReport, spyVars, pprofVars
<1>6. ASSUME NEW c \in Changes, TagCall(c) PROVE TypeOK'
  <2>1. pc' \in {"dump", pc} /\ (ruleset' = ruleset \/ Apply(c)) /\ Calls(c)
    BY <1>6 DEF TagCall
  <2>2. ruleset' \subseteq [tid : Threads, tag : Tags]
    BY <2>1, ApplyType DEF TypeOK
  <2>3. calls' \in 0..MaxCalls /\ call' \in Changes \union {[op |-> "report"], [op |-> "none"]}
    BY <2>1, CallsType
  <2> QED BY <1>6, <2>1, <2>2, <2>3 DEF TypeOK, TagCall, spyVars, pprofVars
<1>7. CASE ReportClears
  <2>1. Together(Reports(copy)) = copy
    BY TogetherAgain DEF TypeOK, IsABagOf
  <2>2. IsABagOf(Traces, reported') /\ buffer' = EmptyBag /\ copy' = EmptyBag
    BY <1>7, <2>1, BagOfSum DEF ReportClears, TypeOK
  <2> QED BY <1>7, <2>2, BagOfNone DEF TypeOK, ReportClears, spyVars, pprofVars, bounds
<1>8. CASE DumpBuilds
  <2>1. PICK new, rest :
          /\ IsABagOf(Traces, new) /\ IsABagOf(Traces, rest)
          /\ buffer' = buffer (+) new /\ recorded' = (recorded (+) new) (+) rest
          /\ replaced' = replaced (+) rest
    BY <1>8, DumpTakes
  <2>2. IsABagOf(Traces, buffer') /\ IsABagOf(Traces, replaced') /\ IsABagOf(Traces, recorded (+) new)
    BY <2>1, BagOfSum DEF TypeOK
  <2>3. IsABagOf(Traces, recorded')
    BY <2>1, <2>2, BagOfSum
  <2> QED BY <1>8, <2>2, <2>3 DEF TypeOK, DumpBuilds, spyVars, pprofVars, bounds
<1>9. CASE ResetTakes
  BY <1>9, BagOfNone DEF TypeOK, ResetTakes, spyVars, bounds
<1>10. CASE ResetBuilds
  BY <1>10 DEF TypeOK, ResetBuilds, spyVars, bounds
<1>11. CASE PprofTags
  <2>1. call \in Changes
    BY <1>11 DEF CallInv, PprofTags
  <2> QED BY <1>11, <2>1, ApplyType DEF TypeOK, PprofTags, spyVars, pprofVars, bounds
<1>12. CASE PprofCopies
  BY <1>12 DEF TypeOK, PprofCopies, spyVars, pprofVars, bounds
<1>13. CASE ShutdownJoins
  BY <1>13 DEF TypeOK, ShutdownJoins, spyVars, pprofVars, bounds
<1>14. CASE DumpFails
  BY <1>14 DEF TypeOK, DumpFails, spyVars, pprofVars
<1>15. CASE PyspyStarts
  BY <1>15 DEF TypeOK, PyspyStarts, callVars, pprofVars, bounds
<1>16. CASE PyspySamples
  <2>1. CASE running
    <3>1. PICK q \in {<<a>> : a \in Threads} \union {<<a, b>> : a \in Threads, b \in Threads} :
            /\ taken + Len(q) <= MaxSamples /\ taken' = taken + Len(q)
            /\ \E f \in [DOMAIN q -> Stacks] : pending' = [i \in DOMAIN q |-> Raw(q[i], f[i])]
      BY <1>16, <2>1 DEF PyspySamples
    <3>2. q \in Seq(Threads)
      <4>1. \A a, b \in Threads : <<a>> \in Seq(Threads) /\ <<a, b>> \in Seq(Threads)
        OBVIOUS
      <4> QED BY <3>1, <4>1
    <3>3. PICK f \in [DOMAIN q -> Stacks] : pending' = [i \in DOMAIN q |-> Raw(q[i], f[i])]
      BY <3>1
    <3>4. pending' \in Seq(RawTraces)
      <4>1. \A i \in DOMAIN q : Raw(q[i], f[i]) \in RawTraces
        BY <3>2, RawType
      <4>2. DOMAIN q = 1..Len(q) /\ Len(q) \in Nat
        BY <3>2
      <4>3. pending' = [i \in 1..Len(q) |-> Raw(q[i], f[i])]
        BY <3>3, <4>2
      <4> QED BY <4>1, <4>2, <4>3
    <3>5. taken' \in 0..MaxSamples
      BY <3>1, <3>2 DEF TypeOK
    <3> QED BY <1>16, <2>1, <3>4, <3>5 DEF TypeOK, PyspySamples, callVars, pprofVars
  <2>2. CASE ~running
    BY <1>16, <2>2 DEF TypeOK, PyspySamples, callVars, pprofVars
  <2> QED BY <2>1, <2>2
<1>17. CASE RbspyEnds
  BY <1>17 DEF TypeOK, RbspyEnds, callVars, pprofVars, bounds
<1>18. CASE SpyTags
  <2>1. Head(pending) \in RawTraces /\ Tail(pending) \in Seq(RawTraces) /\ Len(Tail(pending)) <= Len(pending)
    BY <1>18 DEF SpyTags, TypeOK
  <2>2. hand' \in Seq(Traces) /\ Len(hand') <= 1
    BY <1>18, <2>1, TaggedTrace DEF SpyTags
  <2>3. pending' \in Seq(RawTraces) /\ (kind = "rbspy" => Len(pending') <= QueueSize)
    BY <1>18, <2>1 DEF SpyTags, TypeOK
  <2> QED BY <1>18, <2>2, <2>3 DEF TypeOK, SpyTags, callVars, pprofVars, bounds
<1>19. CASE SpyRecords
  <2>1. Head(hand) \in Traces
    BY <1>19 DEF SpyRecords, TypeOK
  <2>2. IsABagOf(Traces, One(Head(hand)))
    BY <2>1, BagOfOne
  <2>3. IsABagOf(Traces, buffer') /\ IsABagOf(Traces, recorded') /\ IsABagOf(Traces, window')
    BY <1>19, <2>2, BagOfSum DEF SpyRecords, TypeOK
  <2> QED BY <1>19, <2>3 DEF TypeOK, SpyRecords, callVars, pprofVars, bounds
<1>20. CASE RbspySends
  <2>1. PICK t \in Threads \union {NoThread}, s \in Stacks : pending' = Append(pending, Raw(t, s))
    BY <1>20 DEF RbspySends
  <2>2. Raw(t, s) \in RawTraces
    BY RawType
  <2>3. pending' \in Seq(RawTraces) /\ Len(pending') <= QueueSize
    BY <1>20, <2>1, <2>2 DEF RbspySends, TypeOK
  <2>4. taken' \in 0..MaxSamples
    BY <1>20 DEF RbspySends, TypeOK
  <2> QED BY <1>20, <2>3, <2>4 DEF TypeOK, RbspySends, callVars, pprofVars
<1>21. CASE PprofSamples
  <2>1. PICK x \in Sampled : collected' = collected (+) One(x)
    BY <1>21, SampleTakes
  <2>2. IsABagOf(Sampled, collected')
    BY <2>1, BagOfOne, BagOfSum DEF TypeOK
  <2>3. taken' \in 0..MaxSamples
    BY <1>21 DEF PprofSamples, TypeOK
  <2> QED BY <1>21, <2>2, <2>3 DEF TypeOK, PprofSamples, callVars, spyVars
<1>22. CASE UNCHANGED vars
  BY <1>22 DEF TypeOK, vars, callVars, spyVars, pprofVars, bounds
<1> QED BY <1>1, <1>2, <1>3, <1>4, <1>5, <1>6, <1>7, <1>8, <1>9, <1>10, <1>11, <1>12, <1>13,
           <1>14, <1>15, <1>16, <1>17, <1>18, <1>19, <1>20, <1>21, <1>22
        DEF Next, Caller, CallStep, SpyStep

-----------------------------------------------------------------------------
(* Where calls and samplers are.                                           *)

LEMMA CallStepInv ==
  ASSUME TypeOK, CallInv, [Next]_vars
  PROVE  CallInv'
<1> USE DEF CallInv
<1>1. CASE Initialize
  BY <1>1 DEF Initialize
<1>2. CASE InitializeFails
  BY <1>2 DEF InitializeFails
<1>3. CASE Shutdown
  BY <1>3 DEF Shutdown
<1>4. CASE PprofReport
  BY <1>4 DEF PprofReport, Calls
<1>5. CASE SpyReport
  BY <1>5 DEF SpyReport, Calls
<1>6. ASSUME NEW c \in Changes, TagCall(c) PROVE CallInv'
  BY <1>6 DEF TagCall, Calls
<1>7. CASE ReportClears
  BY <1>7 DEF ReportClears
<1>8. CASE DumpBuilds
  BY <1>8 DEF DumpBuilds
<1>9. CASE ResetTakes
  BY <1>9 DEF ResetTakes
<1>10. CASE ResetBuilds
  BY <1>10 DEF ResetBuilds, Changes
<1>11. CASE PprofTags
  BY <1>11 DEF PprofTags
<1>12. CASE PprofCopies
  BY <1>12 DEF PprofCopies
<1>13. CASE ShutdownJoins
  BY <1>13 DEF ShutdownJoins
<1>14. CASE DumpFails
  BY <1>14 DEF DumpFails
<1>15. CASE PyspyStarts \/ PyspySamples \/ RbspyEnds \/ SpyTags \/ SpyRecords
  BY <1>15 DEF PyspyStarts, PyspySamples, RbspyEnds, SpyTags, SpyRecords, callVars
<1>16. CASE RbspySends \/ PprofSamples
  BY <1>16 DEF RbspySends, PprofSamples, callVars
<1>17. CASE UNCHANGED vars
  BY <1>17 DEF vars, callVars
<1> QED BY <1>1, <1>2, <1>3, <1>4, <1>5, <1>6, <1>7, <1>8, <1>9, <1>10, <1>11, <1>12, <1>13,
           <1>14, <1>15, <1>16, <1>17
        DEF Next, Caller, CallStep, SpyStep

LEMMA CountIsBounded ==
  ASSUME NEW b, NEW n \in Nat, IsABag(b)
  PROVE  (\A e \in DOMAIN b : b[e] <= n) <=> \A e : Count(b, e) <= n
  BY DEF IsABag, Count

LEMMA PprofStepInv ==
  ASSUME TypeOK, CallInv, PprofInv, [Next]_vars
  PROVE  PprofInv'
<1> USE DEF PprofInv
<1>0. IsFiniteSet(DOMAIN EmptyBag) /\ DOMAIN EmptyBag = {}
  BY EmptyBagCounts, FS_EmptySet
<1>1. CASE Initialize
  <2>1. kind = "pprof" => sampler' = "none"
    BY <1>1 DEF Initialize
  <2>2. slot' = "ready" /\ guard' = (kind = "pprof") /\ pc' = pc /\ ~guard /\ collected = EmptyBag
    BY <1>1 DEF Initialize
  <2>3. pc # "build"
    BY <1>1 DEF Initialize, CallInv
  <2> QED BY <1>0, <1>1, <2>1, <2>2, <2>3 DEF Initialize, bounds
<1>2. CASE InitializeFails
  BY <1>2 DEF InitializeFails, spyVars, pprofVars, bounds
<1>3. CASE Shutdown
  BY <1>0, <1>3 DEF Shutdown, bounds
<1>4. CASE PprofReport
  BY <1>4 DEF PprofReport, Calls, spyVars, pprofVars
<1>5. CASE SpyReport
  BY <1>5 DEF SpyReport, Calls, spyVars, pprofVars
<1>6. ASSUME NEW c \in Changes, TagCall(c) PROVE PprofInv'
  BY <1>6 DEF TagCall, Calls, spyVars, pprofVars
<1>7. CASE ReportClears
  BY <1>7 DEF ReportClears, spyVars, pprofVars, bounds
<1>8. CASE DumpBuilds
  BY <1>8 DEF DumpBuilds, spyVars, pprofVars, bounds
<1>9. CASE ResetTakes
  BY <1>0, <1>9 DEF ResetTakes, spyVars, bounds
<1>10. CASE ResetBuilds
  BY <1>10 DEF ResetBuilds, CallInv, spyVars, bounds
<1>11. CASE PprofTags
  BY <1>11 DEF PprofTags, spyVars, pprofVars, bounds
<1>12. CASE PprofCopies
  BY <1>12 DEF PprofCopies, spyVars, pprofVars, bounds
<1>13. CASE ShutdownJoins
  BY <1>13 DEF ShutdownJoins, spyVars, pprofVars, bounds
<1>14. CASE DumpFails
  BY <1>14 DEF DumpFails, spyVars, pprofVars
<1>15. CASE PyspyStarts
  BY <1>15 DEF PyspyStarts, callVars, pprofVars, bounds
<1>16. CASE PyspySamples
  <2>1. taken' = taken \/ \E q \in Seq(Threads) : taken' = taken + Len(q)
    BY <1>16 DEF PyspySamples
  <2>2. taken <= taken'
    BY <2>1 DEF TypeOK
  <2>3. kind = "pyspy" /\ UNCHANGED <<kind, callVars, pprofVars>>
    BY <1>16 DEF PyspySamples
  <2>4. \A raw \in DOMAIN collected : collected[raw] <= taken'
    BY <2>1, <2>2 DEF TypeOK, IsABagOf, IsABag
  <2> QED BY <2>3, <2>4 DEF callVars, pprofVars
<1>17. CASE RbspyEnds
  BY <1>17 DEF RbspyEnds, callVars, pprofVars, bounds
<1>18. CASE SpyTags
  BY <1>18 DEF SpyTags, callVars, pprofVars, bounds
<1>19. CASE SpyRecords
  BY <1>19 DEF SpyRecords, callVars, pprofVars, bounds
<1>20. CASE RbspySends
  <2>1. \A raw \in DOMAIN collected : collected[raw] <= taken'
    BY <1>20 DEF RbspySends, TypeOK, IsABagOf, IsABag
  <2> QED BY <1>20, <2>1 DEF RbspySends, callVars, pprofVars
<1>21. CASE PprofSamples
  <2>1. PICK raw \in Sampled : collected' = collected (+) One(raw)
    BY <1>21, SampleTakes
  <2>2. IsABag(collected) /\ taken \in Nat /\ taken' = taken + 1
    BY <1>21 DEF PprofSamples, TypeOK, IsABagOf
  <2>4. /\ IsABag(collected') /\ DOMAIN collected' = DOMAIN collected \union {raw}
        /\ \A e : Count(collected', e) = Count(collected, e) + Count(One(raw), e)
    <3>1. IsABag(One(raw)) /\ DOMAIN One(raw) = {raw}
      BY OneCounts
    <3> DEFINE new == One(raw)
               sum == collected (+) new
    <3> HIDE DEF new
    <3>2. IsABag(new)
      BY <3>1 DEF new
    <3>3. /\ IsABag(sum) /\ DOMAIN sum = DOMAIN collected \union DOMAIN new
          /\ \A e : Count(sum, e) = Count(collected, e) + Count(new, e)
      BY <2>2, <3>2, SumCounts
    <3>4. collected' = sum
      BY <2>1 DEF new
    <3> HIDE DEF sum
    <3> QED BY <3>1, <3>3, <3>4 DEF new
  <2>5. IsFiniteSet(DOMAIN collected')
    BY <2>4, FS_AddElement
  <2>6. \A e : Count(collected, e) <= taken /\ Count(collected, e) \in Nat
    BY <2>2, CountIsBounded, CountType
  <2>7. \A e : Count(collected', e) <= taken'
    <3>1. \A e : Count(One(raw), e) = IF e = raw THEN 1 ELSE 0
      BY OneCounts
    <3> QED BY <2>2, <2>4, <2>6, <3>1
  <2>8. \A e \in DOMAIN collected' : collected'[e] <= taken'
    BY <2>2, <2>4, <2>7 DEF Count
  <2> QED BY <1>21, <2>5, <2>8 DEF PprofSamples, callVars, spyVars
<1>22. CASE UNCHANGED vars
  BY <1>22 DEF vars, callVars, spyVars, pprofVars, bounds
<1> QED BY <1>1, <1>2, <1>3, <1>4, <1>5, <1>6, <1>7, <1>8, <1>9, <1>10, <1>11, <1>12, <1>13,
           <1>14, <1>15, <1>16, <1>17, <1>18, <1>19, <1>20, <1>21, <1>22
        DEF Next, Caller, CallStep, SpyStep

LEMMA PyspyStepInv ==
  ASSUME TypeOK, CallInv, PyspyInv, [Next]_vars
  PROVE  PyspyInv'
<1> USE DEF PyspyInv, CallInv
<1>1. CASE Initialize
  <2>1. kind = "pyspy" => sampler' = "starting" /\ sampler = "none"
    BY <1>1 DEF Initialize
  <2> QED BY <1>1, <2>1 DEF Initialize
<1>2. CASE InitializeFails
  BY <1>2 DEF InitializeFails, spyVars
<1>3. CASE Shutdown
  BY <1>3 DEF Shutdown
<1>4. CASE PprofReport
  BY <1>4 DEF PprofReport
<1>5. CASE SpyReport
  BY <1>5 DEF SpyReport, Calls, spyVars
<1>6. ASSUME NEW c \in Changes, TagCall(c) PROVE PyspyInv'
  BY <1>6 DEF TagCall, Calls, spyVars
<1>7. CASE ReportClears
  BY <1>7 DEF ReportClears, spyVars
<1>8. CASE DumpBuilds \/ ResetTakes \/ ResetBuilds
  BY <1>8 DEF DumpBuilds, ResetTakes, ResetBuilds, spyVars
<1>9. CASE PprofTags \/ PprofCopies \/ DumpFails
  BY <1>9 DEF PprofTags, PprofCopies, DumpFails, spyVars
<1>10. CASE ShutdownJoins
  BY <1>10 DEF ShutdownJoins, spyVars
<1>11. CASE PyspyStarts
  BY <1>11 DEF PyspyStarts, callVars
<1>12. CASE PyspySamples
  BY <1>12 DEF PyspySamples, callVars
<1>13. CASE RbspyEnds
  BY <1>13 DEF RbspyEnds, callVars
<1>14. CASE SpyTags
  BY <1>14 DEF SpyTags, callVars
<1>15. CASE SpyRecords
  BY <1>15 DEF SpyRecords, callVars
<1>16. CASE RbspySends
  BY <1>16 DEF RbspySends
<1>17. CASE PprofSamples
  BY <1>17 DEF PprofSamples, callVars, spyVars
<1>18. CASE UNCHANGED vars
  BY <1>18 DEF vars, callVars, spyVars
<1> QED BY <1>1, <1>2, <1>3, <1>4, <1>5, <1>6, <1>7, <1>8, <1>9, <1>10, <1>11, <1>12, <1>13,
           <1>14, <1>15, <1>16, <1>17, <1>18
        DEF Next, Caller, CallStep, SpyStep

-----------------------------------------------------------------------------
(* What is recorded, reported and lost.                                    *)

LEMMA CountsAreNaturals ==
  ASSUME TypeOK
  PROVE  \A e : /\ Count(buffer, e) \in Nat /\ Count(copy, e) \in Nat /\ Count(recorded, e) \in Nat
                /\ Count(reported, e) \in Nat /\ Count(window, e) \in Nat /\ Count(replaced, e) \in Nat
<1>1. /\ IsABag(buffer) /\ IsABag(copy) /\ IsABag(recorded) /\ IsABag(reported) /\ IsABag(window)
      /\ IsABag(replaced)
  BY DEF TypeOK, IsABagOf
<1> QED BY <1>1, CountType

MoreBy(new, old, b) == \A e : Count(new, e) = Count(old, e) + Count(b, e)

LEMMA SumIsMore ==
  ASSUME NEW a, NEW b, IsABag(a), IsABag(b)
  PROVE  MoreBy(a (+) b, a, b) /\ IsABag(a (+) b)
  BY SumCounts DEF MoreBy

LEMMA SameIsMore ==
  ASSUME NEW a, IsABag(a)
  PROVE  MoreBy(a, a, EmptyBag)
  BY CountType, EmptyBagCounts DEF MoreBy

\* A step that adds b to the buffer and, a dump of Pprof, replaces the counts in r.
LEMMA CountRecord ==
  ASSUME TypeOK, CountInv, NEW b, NEW r, NEW x, IsABag(b), IsABag(r), UNCHANGED <<copy, reported>>,
         MoreBy(buffer', buffer, b), MoreBy(replaced', replaced, r),
         MoreBy(x, recorded, b), MoreBy(recorded', x, r),
         \/ pc = "clear" /\ pc' = "clear" /\ MoreBy(window', window, b)
         \/ pc # "clear" /\ pc' # "clear" /\ window' = window
  PROVE  CountInv'
<1>1. ASSUME NEW e
      PROVE  /\ (Count(reported, e) + Count(buffer, e) + Count(replaced, e) <= Count(recorded, e))'
             /\ pc' = "clear" => (Count(copy, e) <= Count(buffer, e))'
             /\ (Count(recorded, e) <= Count(reported, e) + Count(window, e) + Count(replaced, e)
                    + (IF pc = "clear" THEN Count(copy, e) ELSE Count(buffer, e)))'
  <2>1. /\ Count(buffer', e) = Count(buffer, e) + Count(b, e)
        /\ Count(x, e) = Count(recorded, e) + Count(b, e)
        /\ Count(recorded', e) = Count(x, e) + Count(r, e)
        /\ Count(replaced', e) = Count(replaced, e) + Count(r, e)
        /\ Count(b, e) \in Nat /\ Count(r, e) \in Nat
    BY CountType DEF MoreBy
  <2>2. Count(reported', e) = Count(reported, e) /\ Count(copy', e) = Count(copy, e)
    OBVIOUS
  <2>3. /\ Count(buffer, e) \in Nat /\ Count(copy, e) \in Nat /\ Count(recorded, e) \in Nat
        /\ Count(reported, e) \in Nat /\ Count(window, e) \in Nat /\ Count(replaced, e) \in Nat
    BY CountsAreNaturals
  <2>4. /\ Count(reported, e) + Count(buffer, e) + Count(replaced, e) <= Count(recorded, e)
        /\ pc = "clear" => Count(copy, e) <= Count(buffer, e)
        /\ Count(recorded, e) <= Count(reported, e) + Count(window, e) + Count(replaced, e)
                                    + (IF pc = "clear" THEN Count(copy, e) ELSE Count(buffer, e))
    BY DEF CountInv
  <2>5. CASE pc = "clear"
    <3>1. pc' = "clear" /\ Count(window', e) = Count(window, e) + Count(b, e)
      BY <2>5 DEF MoreBy
    <3> QED BY <2>1, <2>2, <2>3, <2>4, <2>5, <3>1
  <2>6. CASE pc # "clear"
    <3>1. pc' # "clear" /\ Count(window', e) = Count(window, e)
      BY <2>6
    <3> QED BY <2>1, <2>2, <2>3, <2>4, <2>6, <3>1
  <2> QED BY <2>5, <2>6
<1> QED BY <1>1 DEF CountInv

\* A step that begins a report with the copy.
LEMMA CountCopy ==
  ASSUME TypeOK, CountInv, copy' = buffer, pc # "clear", pc' = "clear",
         UNCHANGED <<buffer, recorded, reported, window, replaced>>
  PROVE  CountInv'
<1>1. ASSUME NEW e
      PROVE  /\ Count(reported, e) + Count(buffer, e) + Count(replaced, e) <= Count(recorded, e)
             /\ Count(buffer, e) <= Count(buffer, e)
             /\ Count(recorded, e) <= Count(reported, e) + Count(window, e) + Count(replaced, e)
                                        + Count(buffer, e)
  BY CountsAreNaturals DEF CountInv
<1> QED BY <1>1 DEF CountInv

\* A step that does neither.
LEMMA CountSame ==
  ASSUME CountInv, UNCHANGED <<buffer, copy, recorded, reported, window, replaced>>,
         pc' = "clear" <=> pc = "clear"
  PROVE  CountInv'
  BY DEF CountInv

LEMMA CountStepInv ==
  ASSUME TypeOK, CallInv, PprofInv, CountInv, [Next]_vars
  PROVE  CountInv'
<1>1. CASE ReportClears
  <2>1. Together(Reports(copy)) = copy
    BY TogetherAgain DEF TypeOK, IsABagOf
  <2>2. /\ pc = "clear" /\ pc' = "idle" /\ reported' = reported (+) copy
        /\ buffer' = EmptyBag /\ UNCHANGED <<recorded, window, replaced>>
    BY <1>1, <2>1 DEF ReportClears
  <2>3. ASSUME NEW e
        PROVE  /\ Count(reported', e) + Count(buffer', e) + Count(replaced', e) <= Count(recorded', e)
               /\ Count(recorded', e) <= Count(reported', e) + Count(window', e) + Count(replaced', e)
                                            + Count(buffer', e)
    <3>1. /\ Count(buffer, e) \in Nat /\ Count(copy, e) \in Nat /\ Count(recorded, e) \in Nat
          /\ Count(reported, e) \in Nat /\ Count(window, e) \in Nat /\ Count(replaced, e) \in Nat
      BY CountsAreNaturals
    <3>2. IsABag(reported) /\ IsABag(copy)
      BY DEF TypeOK, IsABagOf
    <3>3. Count(reported', e) = Count(reported, e) + Count(copy, e)
      BY <2>2, <3>2, SumCounts
    <3>5. Count(buffer', e) = 0
      BY <2>2, EmptyBagCounts
    <3>4. /\ Count(reported, e) + Count(buffer, e) + Count(replaced, e) <= Count(recorded, e)
          /\ Count(copy, e) <= Count(buffer, e)
          /\ Count(recorded, e) <= Count(reported, e) + Count(window, e) + Count(replaced, e)
                                     + Count(copy, e)
      BY <2>2 DEF CountInv
    <3> QED BY <2>2, <3>1, <3>3, <3>4, <3>5
  <2> QED BY <2>2, <2>3 DEF CountInv
<1>2. CASE DumpBuilds
  <2>1. PICK new, rest :
          /\ IsABag(new) /\ IsABag(rest)
          /\ buffer' = buffer (+) new /\ recorded' = (recorded (+) new) (+) rest
          /\ replaced' = replaced (+) rest
    BY <1>2, DumpTakes DEF IsABagOf
  <2>2. IsABag(buffer) /\ IsABag(recorded) /\ IsABag(replaced)
    BY DEF TypeOK, IsABagOf
  <2> DEFINE sum == recorded (+) new
  <2>3. MoreBy(sum, recorded, new) /\ IsABag(sum) /\ recorded' = sum (+) rest
    BY <2>1, <2>2, SumIsMore
  <2> HIDE DEF sum
  <2>4. MoreBy(recorded', sum, rest)
    BY <2>1, <2>3, SumIsMore
  <2>5. MoreBy(buffer', buffer, new) /\ MoreBy(replaced', replaced, rest)
    BY <2>1, <2>2, SumIsMore
  <2>6. UNCHANGED <<copy, reported, window>> /\ pc = "dump" /\ pc' = "take"
    BY <1>2 DEF DumpBuilds
  <2> QED BY <2>1, <2>3, <2>4, <2>5, <2>6, CountRecord
<1>3. CASE SpyRecords
  <2> DEFINE new == One(Head(hand))
  <2>1. IsABag(new)
    BY OneCounts
  <2>2. /\ buffer' = buffer (+) new /\ recorded' = recorded (+) new
        /\ window' = IF pc = "clear" THEN window (+) new ELSE window
        /\ UNCHANGED <<copy, reported, replaced, pc>>
    BY <1>3 DEF SpyRecords, callVars
  <2> HIDE DEF new
  <2>3. /\ IsABag(buffer) /\ IsABag(recorded) /\ IsABag(window) /\ IsABag(replaced)
        /\ IsABag(EmptyBag)
    BY EmptyBagCounts DEF TypeOK, IsABagOf
  <2>4. /\ MoreBy(buffer', buffer, new) /\ MoreBy(recorded', recorded, new) /\ IsABag(recorded')
        /\ MoreBy(window (+) new, window, new)
    BY <2>1, <2>2, <2>3, SumIsMore
  <2>5. MoreBy(replaced', replaced, EmptyBag) /\ MoreBy(recorded', recorded', EmptyBag)
    BY <2>2, <2>3, <2>4, SameIsMore
  <2> QED BY <2>1, <2>2, <2>3, <2>4, <2>5, CountRecord
<1>4. CASE SpyReport \/ PprofCopies
  <2>1. /\ copy' = buffer /\ pc # "clear" /\ pc' = "clear"
        /\ UNCHANGED <<buffer, recorded, reported, window, replaced>>
    BY <1>4 DEF SpyReport, PprofCopies, Calls
  <2> QED BY <2>1, CountCopy
<1>5. CASE Initialize \/ InitializeFails \/ Shutdown \/ PprofReport
  BY <1>5, CountSame DEF Initialize, InitializeFails, Shutdown, PprofReport, Calls
<1>6. ASSUME NEW c \in Changes, TagCall(c) PROVE CountInv'
  BY <1>6, CountSame DEF TagCall, Calls
<1>7. CASE ResetTakes \/ ResetBuilds \/ PprofTags \/ ShutdownJoins \/ DumpFails
  BY <1>7, CountSame DEF ResetTakes, ResetBuilds, PprofTags, ShutdownJoins, DumpFails
<1>8. CASE PyspyStarts \/ PyspySamples \/ RbspyEnds \/ SpyTags
  BY <1>8, CountSame DEF PyspyStarts, PyspySamples, RbspyEnds, SpyTags, callVars
<1>9. CASE RbspySends \/ PprofSamples
  BY <1>9, CountSame DEF RbspySends, PprofSamples, callVars
<1>10. CASE UNCHANGED vars
  BY <1>10, CountSame DEF vars, callVars
<1> QED BY <1>1, <1>2, <1>3, <1>4, <1>5, <1>6, <1>7, <1>8, <1>9, <1>10
        DEF Next, Caller, CallStep, SpyStep

-----------------------------------------------------------------------------
(* What Pprof's dumps replace.                                             *)

\* A step that replaces nothing and keeps what the reports and the buffer hold.
LEMMA ReplacedSame ==
  ASSUME ReplacedInv, UNCHANGED <<kind, replaced>>,
         DOMAIN reported \union DOMAIN buffer \subseteq DOMAIN reported' \union DOMAIN buffer'
  PROVE  ReplacedInv'
  BY DEF ReplacedInv, Alike

LEMMA SameTags ==
  ASSUME TypeOK, NEW x \in DOMAIN collected, NEW y \in DOMAIN collected, SameTrace(x, y)
  PROVE  Alike(Tagged(x.raw), Tagged(y.raw))
<1> DEFINE a == x.raw
           b == y.raw
<1>1. a \in RawTraces /\ b \in RawTraces /\ a.thread = b.thread /\ a.stack = b.stack
  BY DEF TypeOK, IsABagOf, BagToSet, Sampled, SameTrace
<1> HIDE DEF a, b
<1>2. OwnTrace(a).tags = OwnTrace(b).tags
  BY <1>1, OwnTagsAgain
<1>3. Alike(Tagged(a), Tagged(b))
  BY <1>1, <1>2, TaggedTrace DEF Alike
<1> QED BY <1>3 DEF a, b

LEMMA ReplacedStepInv ==
  ASSUME TypeOK, PprofInv, CountInv, ReplacedInv, [Next]_vars
  PROVE  ReplacedInv'
<1>1. CASE DumpBuilds
  <2>1. PICK new, rest : \E S \in Survivors(collected) :
          /\ S \subseteq DOMAIN collected
          /\ IsABag(new) /\ DOMAIN new = {Tagged(x.raw) : x \in S}
          /\ IsABag(rest) /\ DOMAIN rest = {Tagged(x.raw) : x \in DOMAIN collected \ S}
          /\ buffer' = buffer (+) new /\ replaced' = replaced (+) rest
    BY <1>1, DumpTakes DEF IsABagOf
  <2>2. kind = "pprof" /\ UNCHANGED <<kind, reported>>
    BY <1>1 DEF DumpBuilds, PprofInv
  <2>3. DOMAIN buffer' = DOMAIN buffer \union DOMAIN new
    BY <2>1, SumCounts DEF TypeOK, IsABagOf
  <2>4. DOMAIN replaced' = DOMAIN replaced \union DOMAIN rest
    BY <2>1, SumCounts DEF TypeOK, IsABagOf
  <2>5. ASSUME NEW e \in DOMAIN rest PROVE \E f \in DOMAIN new : Alike(e, f)
    <3>1. PICK S \in Survivors(collected) :
            /\ S \subseteq DOMAIN collected /\ DOMAIN new = {Tagged(x.raw) : x \in S}
            /\ DOMAIN rest = {Tagged(x.raw) : x \in DOMAIN collected \ S}
      BY <2>1
    <3>2. PICK x \in DOMAIN collected : e = Tagged(x.raw)
      BY <3>1
    <3>3. PICK y \in S : SameTrace(x, y)
      BY DEF Survivors, BagToSet
    <3>4. Alike(e, Tagged(y.raw))
      BY <3>1, <3>2, <3>3, SameTags
    <3> QED BY <3>1, <3>4
  <2>6. \A e \in DOMAIN replaced' : \E f \in DOMAIN reported' \union DOMAIN buffer' : Alike(e, f)
    BY <2>2, <2>3, <2>4, <2>5 DEF ReplacedInv
  <2> QED BY <2>2, <2>6 DEF ReplacedInv, Alike
<1>2. CASE ReportClears
  <2>1. Together(Reports(copy)) = copy
    BY TogetherAgain DEF TypeOK, IsABagOf
  <2>2. pc = "clear" /\ reported' = reported (+) copy /\ UNCHANGED <<kind, replaced>>
    BY <1>2, <2>1 DEF ReportClears
  <2>3. CASE kind # "pprof"
    <3>1. replaced' = EmptyBag /\ DOMAIN EmptyBag = {}
      BY <2>2, <2>3, EmptyBagCounts DEF ReplacedInv
    <3> QED BY <2>2, <2>3, <3>1 DEF ReplacedInv
  <2>4. CASE kind = "pprof"
    <3>1. ASSUME NEW e PROVE Count(buffer, e) <= Count(copy, e)
      <4>1. Count(window, e) = 0
        BY <2>4, EmptyBagCounts DEF PprofInv
      <4>2. /\ Count(reported, e) + Count(buffer, e) + Count(replaced, e) <= Count(recorded, e)
            /\ Count(recorded, e) <= Count(reported, e) + Count(window, e) + Count(replaced, e)
                                       + Count(copy, e)
        BY <2>2 DEF CountInv
      <4>3. /\ Count(buffer, e) \in Nat /\ Count(copy, e) \in Nat /\ Count(recorded, e) \in Nat
            /\ Count(reported, e) \in Nat /\ Count(replaced, e) \in Nat
        BY CountsAreNaturals
      <4> QED BY <4>1, <4>2, <4>3
    <3>2. \A e : /\ Count(buffer, e) \in Nat /\ (e \in DOMAIN buffer <=> Count(buffer, e) > 0)
                 /\ Count(copy, e) \in Nat /\ (e \in DOMAIN copy <=> Count(copy, e) > 0)
      BY CountType DEF TypeOK, IsABagOf
    <3>3. DOMAIN buffer \subseteq DOMAIN copy
      BY <3>1, <3>2
    <3>4. DOMAIN reported' = DOMAIN reported \union DOMAIN copy
      BY <2>2, SumCounts DEF TypeOK, IsABagOf
    <3> QED BY <2>2, <3>3, <3>4, ReplacedSame
  <2> QED BY <2>3, <2>4
<1>3. CASE SpyRecords
  <2>1. buffer' = buffer (+) One(Head(hand)) /\ UNCHANGED <<kind, replaced, reported>>
    BY <1>3 DEF SpyRecords
  <2>2. DOMAIN buffer' = DOMAIN buffer \union DOMAIN One(Head(hand))
    BY <2>1, OneCounts, SumCounts DEF TypeOK, IsABagOf
  <2> QED BY <2>1, <2>2, ReplacedSame
<1>4. CASE Initialize \/ InitializeFails \/ Shutdown
  BY <1>4, ReplacedSame DEF Initialize, InitializeFails, Shutdown
<1>5. CASE PprofReport \/ SpyReport \/ PprofCopies
  BY <1>5, ReplacedSame DEF PprofReport, SpyReport, PprofCopies
<1>6. ASSUME NEW c \in Changes, TagCall(c) PROVE ReplacedInv'
  BY <1>6, ReplacedSame DEF TagCall
<1>7. CASE ResetTakes \/ ResetBuilds \/ PprofTags \/ ShutdownJoins \/ DumpFails
  BY <1>7, ReplacedSame DEF ResetTakes, ResetBuilds, PprofTags, ShutdownJoins, DumpFails
<1>8. CASE PyspyStarts \/ PyspySamples \/ RbspyEnds \/ SpyTags
  BY <1>8, ReplacedSame DEF PyspyStarts, PyspySamples, RbspyEnds, SpyTags
<1>9. CASE RbspySends \/ PprofSamples
  BY <1>9, ReplacedSame DEF RbspySends, PprofSamples
<1>10. CASE UNCHANGED vars
  BY <1>10, ReplacedSame DEF vars
<1> QED BY <1>1, <1>2, <1>3, <1>4, <1>5, <1>6, <1>7, <1>8, <1>9, <1>10
        DEF Next, Caller, CallStep, SpyStep

-----------------------------------------------------------------------------
(* The tags that Pprof reports.                                            *)

LEMMA ScopedStays ==
  ASSUME NEW e, kind' = kind
  PROVE  Scoped(e)' <=> Scoped(e)
  BY DEF Scoped, OwnTrace, Known

\* The profile is tagged under the rules that its threads had.
LEMMA DumpIsScoped ==
  ASSUME TypeOK, TagInv, kind = "pprof", NEW x \in DOMAIN collected
  PROVE  Scoped(Tagged(x.raw))
<1> DEFINE raw == x.raw
           e == Tagged(raw)
<1>1. raw \in RawTraces
  BY DEF TypeOK, IsABagOf, BagToSet, Sampled
<1>2. /\ e.thread = raw.thread /\ e.calm = raw.calm /\ e.under = raw.under
      /\ e.tags = OwnTrace(raw).tags \union TagsOf(raw.thread)
  BY <1>1, TaggedTrace
<1>3. OwnTrace(e).tags = OwnTrace(raw).tags
  BY <1>2, OwnTagsAgain
<1>4. raw.calm => raw.under = TagsOf(raw.thread)
  BY DEF TagInv
<1> HIDE DEF raw, e
<1>5. Scoped(e)
  BY <1>2, <1>3, <1>4 DEF Scoped
<1> QED BY <1>5 DEF raw, e

\* A step that changes no rule, collects nothing and keeps what the reports hold.
LEMMA TagSame ==
  ASSUME TagInv, UNCHANGED <<kind, ruleset>>, collected' \in {collected, EmptyBag},
         DOMAIN buffer' \union DOMAIN copy' \union DOMAIN reported'
           \subseteq DOMAIN buffer \union DOMAIN copy \union DOMAIN reported,
         pc' = "apply" => pc = "apply" \/ collected' = EmptyBag
  PROVE  TagInv'
<1> SUFFICES ASSUME kind = "pprof" PROVE TagInv'
  BY DEF TagInv
<1>1. \A e \in DOMAIN buffer' \union DOMAIN copy' \union DOMAIN reported' : Scoped(e)'
  BY ScopedStays DEF TagInv
<1>2. \A t : TagsOf(t)' = TagsOf(t)
  BY DEF TagsOf
<1>3. DOMAIN EmptyBag = {}
  BY EmptyBagCounts
<1>4. DOMAIN collected' \subseteq DOMAIN collected
  BY <1>3
<1>5. \A x \in DOMAIN collected' : x.raw.calm => x.raw.under = TagsOf(x.raw.thread)'
  BY <1>2, <1>4 DEF TagInv
<1>6. pc' = "apply" => \A x \in DOMAIN collected' : ~x.raw.calm
  BY <1>3, <1>4 DEF TagInv
<1> QED BY <1>1, <1>5, <1>6 DEF TagInv

\* A step that changes a rule.
LEMMA TagChange ==
  ASSUME TagInv, UNCHANGED <<kind, collected, buffer, copy, reported>>, pc' = "idle",
         kind = "pprof" => \A x \in DOMAIN collected : ~x.raw.calm
  PROVE  TagInv'
<1> SUFFICES ASSUME kind = "pprof" PROVE TagInv'
  BY DEF TagInv
<1>1. \A e \in DOMAIN buffer' \union DOMAIN copy' \union DOMAIN reported' : Scoped(e)'
  BY ScopedStays DEF TagInv
<1> QED BY <1>1 DEF TagInv

LEMMA TagStepInv ==
  ASSUME TypeOK, CallInv, PprofInv, TagInv, [Next]_vars
  PROVE  TagInv'
<1>0. DOMAIN EmptyBag = {}
  BY EmptyBagCounts
<1>1. ASSUME NEW c \in Changes, TagCall(c) PROVE TagInv'
  <2>1. UNCHANGED <<kind, collected, buffer, copy, reported>> /\ pc = "idle"
    BY <1>1 DEF TagCall, Calls, pprofVars
  <2>2. CASE guard
    BY <1>1, <2>1, <2>2, TagSame DEF TagCall
  <2>3. CASE ~guard
    <3>1. collected = EmptyBag /\ pc' = "idle"
      BY <1>1, <2>1, <2>3 DEF TagCall, PprofInv
    <3> QED BY <1>0, <2>1, <3>1, TagChange
  <2> QED BY <2>2, <2>3
<1>2. CASE PprofTags
  <2>1. pc = "apply" /\ pc' = "idle" /\ UNCHANGED <<kind, collected, buffer, copy, reported>>
    BY <1>2 DEF PprofTags, pprofVars
  <2> QED BY <2>1, TagChange DEF TagInv
<1>3. CASE DumpBuilds
  <2>1. pc' = "take" /\ UNCHANGED <<kind, collected, ruleset, copy, reported>>
    BY <1>3 DEF DumpBuilds, pprofVars
  <2> SUFFICES ASSUME kind = "pprof" PROVE TagInv'
    BY <2>1 DEF TagInv
  <2>2. PICK new, rest : \E S \in Survivors(collected) :
          /\ S \subseteq DOMAIN collected /\ DOMAIN new = {Tagged(x.raw) : x \in S}
          /\ IsABag(new) /\ buffer' = buffer (+) new
    BY <1>3, DumpTakes DEF IsABagOf
  <2>3. DOMAIN buffer' = DOMAIN buffer \union DOMAIN new
    BY <2>2, SumCounts DEF TypeOK, IsABagOf
  <2>9. \A e \in DOMAIN new : Scoped(e)
    BY <2>2, DumpIsScoped
  <2>4. \A e \in DOMAIN buffer' \union DOMAIN copy' \union DOMAIN reported' : Scoped(e)
    BY <2>1, <2>3, <2>9 DEF TagInv
  <2>5. \A e \in DOMAIN buffer' \union DOMAIN copy' \union DOMAIN reported' : Scoped(e)'
    BY <2>1, <2>4, ScopedStays
  <2>6. \A t : TagsOf(t)' = TagsOf(t)
    BY <2>1 DEF TagsOf
  <2>7. \A x \in DOMAIN collected' : x.raw.calm => x.raw.under = TagsOf(x.raw.thread)'
    BY <2>1, <2>6 DEF TagInv
  <2> QED BY <2>1, <2>5, <2>7 DEF TagInv
<1>4. CASE PprofSamples
  <2>1. PICK t \in Threads, s \in Stacks, x \in Sampled :
          x.raw = Raw(t, s) /\ collected' = collected (+) One(x)
    BY <1>4, SampleTakes
  <2>2. UNCHANGED <<kind, pc, ruleset, buffer, copy, reported>>
    BY <1>4 DEF PprofSamples, callVars
  <2> SUFFICES ASSUME kind = "pprof" PROVE TagInv'
    BY <2>2 DEF TagInv
  <2>3. x.raw.thread = t /\ x.raw.under = TagsOf(t) /\ x.raw.calm = (pc = "idle")
    BY <2>1 DEF Raw
  <2>4. DOMAIN collected' = DOMAIN collected \union {x}
    <3>1. IsABag(One(x)) /\ DOMAIN One(x) = {x}
      BY OneCounts
    <3>2. IsABag(collected)
      BY DEF TypeOK, IsABagOf
    <3> QED BY <2>1, <3>1, <3>2, SumCounts
  <2>5. \A u : TagsOf(u)' = TagsOf(u)
    BY <2>2 DEF TagsOf
  <2>6. \A r \in DOMAIN collected' : r.raw.calm => r.raw.under = TagsOf(r.raw.thread)'
    BY <2>3, <2>4, <2>5 DEF TagInv
  <2>7. pc' = "apply" => \A r \in DOMAIN collected' : ~r.raw.calm
    BY <2>2, <2>3, <2>4 DEF TagInv
  <2>8. \A e \in DOMAIN buffer' \union DOMAIN copy' \union DOMAIN reported' : Scoped(e)'
    BY <2>2, ScopedStays DEF TagInv
  <2> QED BY <2>6, <2>7, <2>8 DEF TagInv
<1>5. CASE ReportClears
  <2>1. Together(Reports(copy)) = copy
    BY TogetherAgain DEF TypeOK, IsABagOf
  <2>2. /\ reported' = reported (+) copy /\ buffer' = EmptyBag /\ copy' = EmptyBag /\ pc' = "idle"
        /\ UNCHANGED <<kind, ruleset, collected>>
    BY <1>5, <2>1 DEF ReportClears, pprofVars
  <2>3. DOMAIN reported' = DOMAIN reported \union DOMAIN copy
    BY <2>2, SumCounts DEF TypeOK, IsABagOf
  <2> QED BY <1>0, <2>2, <2>3, TagSame
<1>6. CASE SpyReport \/ PprofCopies
  BY <1>6, TagSame DEF SpyReport, PprofCopies, pprofVars
<1>7. CASE SpyRecords
  BY <1>7 DEF SpyRecords, PprofInv, TagInv
<1>8. CASE Initialize
  BY <1>8, TagSame DEF Initialize
<1>9. CASE InitializeFails \/ Shutdown \/ PprofReport
  BY <1>9, TagSame DEF InitializeFails, Shutdown, PprofReport, pprofVars
<1>10. CASE ResetTakes \/ ShutdownJoins \/ DumpFails
  BY <1>10, TagSame DEF ResetTakes, ShutdownJoins, DumpFails, pprofVars
<1>11. CASE ResetBuilds
  BY <1>11, TagSame DEF ResetBuilds, PprofInv
<1>12. CASE PyspyStarts \/ PyspySamples \/ RbspyEnds \/ SpyTags
  BY <1>12, TagSame DEF PyspyStarts, PyspySamples, RbspyEnds, SpyTags, callVars, pprofVars
<1>13. CASE RbspySends
  BY <1>13, TagSame DEF RbspySends, callVars, pprofVars
<1>14. CASE UNCHANGED vars
  BY <1>14, TagSame DEF vars, callVars, pprofVars
<1> QED BY <1>1, <1>2, <1>3, <1>4, <1>5, <1>6, <1>7, <1>8, <1>9, <1>10, <1>11, <1>12, <1>13, <1>14
        DEF Next, Caller, CallStep, SpyStep

-----------------------------------------------------------------------------
(* What the profile is made of.                                            *)

LEMMA TaggedHasOwnTags ==
  ASSUME TypeOK, NEW raw \in RawTraces
  PROVE  OwnTags(Tagged(raw))
<1> DEFINE own == {<<key, IF key = "pid" THEN "self" ELSE raw.thread>> : key \in Known(raw.thread)}
<1>1. OwnTrace(raw).tags = own
  BY DEF OwnTrace
<1>2. own \subseteq {<<"pid", "self">>, <<"thread_id", raw.thread>>, <<"thread_name", raw.thread>>}
  BY KnownType
<1> HIDE DEF own
<1>3. Tagged(raw).tags = own \union TagsOf(raw.thread) /\ Tagged(raw).thread = raw.thread
  BY <1>1, TaggedTrace
<1> QED BY <1>2, <1>3, TagsOfType DEF OwnTags

\* A step that records nothing.
LEMMA TraceSame ==
  ASSUME TraceInv, buffer' \in {buffer, EmptyBag}, copy' \in {copy, buffer, EmptyBag},
         hand' = hand \/ hand' = <<>>
  PROVE  TraceInv'
<1>1. IsFiniteSet(DOMAIN EmptyBag) /\ DOMAIN EmptyBag = {}
  BY EmptyBagCounts, FS_EmptySet
<1>2. IsFiniteSet(DOMAIN buffer') /\ IsFiniteSet(DOMAIN copy')
  BY <1>1 DEF TraceInv
<1>3. DOMAIN buffer' \union DOMAIN copy' \subseteq DOMAIN buffer \union DOMAIN copy
  BY <1>1
<1>4. hand' # <<>> => OwnTags(Head(hand'))
  BY DEF TraceInv
<1> QED BY <1>2, <1>3, <1>4 DEF TraceInv, OwnTags

\* A step that adds finitely many traces to the buffer.
LEMMA TraceRecord ==
  ASSUME TypeOK, TraceInv, NEW new, IsABag(new), IsFiniteSet(DOMAIN new), \A e \in DOMAIN new : OwnTags(e),
         buffer' = buffer (+) new, copy' = copy, hand' = hand \/ hand' = <<>>
  PROVE  TraceInv'
<1>1. DOMAIN buffer' = DOMAIN buffer \union DOMAIN new
  BY SumCounts DEF TypeOK, IsABagOf
<1>2. IsFiniteSet(DOMAIN buffer')
  BY <1>1, FS_Union DEF TraceInv
<1>3. \A e \in DOMAIN buffer' \union DOMAIN copy' : OwnTags(e)
  BY <1>1 DEF TraceInv
<1>4. hand' # <<>> => OwnTags(Head(hand'))
  BY DEF TraceInv
<1>5. IsFiniteSet(DOMAIN copy')
  BY DEF TraceInv
<1> QED BY <1>2, <1>3, <1>4, <1>5 DEF TraceInv, OwnTags

LEMMA TraceStepInv ==
  ASSUME TypeOK, PprofInv, TraceInv, [Next]_vars
  PROVE  TraceInv'
<1>1. CASE DumpBuilds
  <2>1. PICK new, rest : \E S \in Survivors(collected) :
          /\ S \subseteq DOMAIN collected /\ IsABag(new) /\ IsFiniteSet(DOMAIN new)
          /\ DOMAIN new = {Tagged(x.raw) : x \in S} /\ buffer' = buffer (+) new
    BY <1>1, DumpTakes DEF IsABagOf
  <2>2. \A x \in DOMAIN collected : x.raw \in RawTraces
    BY DEF TypeOK, IsABagOf, BagToSet, Sampled
  <2>3. \A e \in DOMAIN new : OwnTags(e)
    BY <2>1, <2>2, TaggedHasOwnTags
  <2>4. copy' = copy /\ hand' = hand
    BY <1>1 DEF DumpBuilds, spyVars
  <2> QED BY <2>1, <2>3, <2>4, TraceRecord
<1>2. CASE SpyRecords
  <2> DEFINE x == Head(hand)
             new == One(x)
  <2>1. IsABag(new) /\ DOMAIN new = {x}
    BY OneCounts
  <2>2. hand # <<>> /\ buffer' = buffer (+) new /\ copy' = copy /\ hand' = <<>>
    BY <1>2 DEF SpyRecords
  <2>3. OwnTags(x)
    BY <2>2 DEF TraceInv
  <2> HIDE DEF x, new
  <2>4. IsFiniteSet(DOMAIN new)
    BY <2>1, FS_Singleton
  <2> QED BY <2>1, <2>2, <2>3, <2>4, TraceRecord
<1>3. CASE SpyTags
  <2>1. pending # <<>> /\ hand' = <<Tagged(Head(pending))>> /\ UNCHANGED <<buffer, copy>>
    BY <1>3 DEF SpyTags
  <2>2. Head(pending) \in RawTraces
    BY <2>1 DEF TypeOK
  <2>3. OwnTags(Tagged(Head(pending)))
    BY <2>2, TaggedHasOwnTags
  <2> DEFINE x == Tagged(Head(pending))
  <2>4. hand' = <<x>> /\ OwnTags(x)
    BY <2>1, <2>3
  <2> HIDE DEF x
  <2>5. OwnTags(Head(hand'))
    BY <2>4
  <2> QED BY <2>1, <2>5 DEF TraceInv, OwnTags
<1>4. CASE ReportClears \/ SpyReport \/ PprofCopies
  BY <1>4, TraceSame DEF ReportClears, SpyReport, PprofCopies, spyVars
<1>5. CASE Initialize \/ InitializeFails \/ Shutdown \/ PprofReport
  BY <1>5, TraceSame DEF Initialize, InitializeFails, Shutdown, PprofReport, spyVars
<1>6. ASSUME NEW c \in Changes, TagCall(c) PROVE TraceInv'
  BY <1>6, TraceSame DEF TagCall, spyVars
<1>7. CASE ResetTakes \/ ResetBuilds \/ PprofTags \/ ShutdownJoins \/ DumpFails
  BY <1>7, TraceSame DEF ResetTakes, ResetBuilds, PprofTags, ShutdownJoins, DumpFails, spyVars
<1>8. CASE PyspyStarts \/ PyspySamples \/ RbspyEnds
  BY <1>8, TraceSame DEF PyspyStarts, PyspySamples, RbspyEnds
<1>9. CASE RbspySends \/ PprofSamples
  BY <1>9, TraceSame DEF RbspySends, PprofSamples, spyVars
<1>10. CASE UNCHANGED vars
  BY <1>10, TraceSame DEF vars, spyVars
<1> QED BY <1>1, <1>2, <1>3, <1>4, <1>5, <1>6, <1>7, <1>8, <1>9, <1>10
        DEF Next, Caller, CallStep, SpyStep

-----------------------------------------------------------------------------
(* The theorems.                                                           *)

LEMMA InvInit == Init => Inv
<1> SUFFICES ASSUME Init PROVE Inv
  OBVIOUS
<1>1. DOMAIN EmptyBag = {} /\ \A e : Count(EmptyBag, e) = 0
  BY EmptyBagCounts
<1>2. CountInv /\ ReplacedInv
  BY <1>1 DEF Init, CountInv, ReplacedInv
<1>3. CallInv /\ PyspyInv /\ TagInv
  BY <1>1 DEF Init, CallInv, PyspyInv, TagInv
<1>4. PprofInv
  BY <1>1, FS_EmptySet DEF Init, PprofInv
<1>5. TraceInv
  BY <1>1, FS_EmptySet DEF Init, TraceInv
<1> QED BY <1>2, <1>3, <1>4, <1>5, TypeInit DEF Inv

LEMMA InvStep == Inv /\ [Next]_vars => Inv'
  BY TypeStep, CallStepInv, PprofStepInv, PyspyStepInv, CountStepInv, ReplacedStepInv, TagStepInv,
     TraceStepInv DEF Inv

LEMMA InvAlways == Spec => []Inv
<1>1. Init => Inv
  BY InvInit
<1>2. Inv /\ [Next]_vars => Inv'
  BY InvStep
<1> QED BY <1>1, <1>2, PTL DEF Spec

\* Every variable keeps its type whatever fails, and rbspy's channel its capacity.
THEOREM TypesAreRight == Spec => []TypeOK
<1>1. Inv => TypeOK
  BY DEF Inv
<1> QED BY <1>1, InvAlways, PTL

\* StackBuffer: between a report's copy and its clear, and at any other time, no recorded
\* sample is reported twice or reported and kept.
THEOREM SamplesAreReportedOnce == Spec => []ReportedOnce
<1>1. Inv => ReportedOnce
  <2> SUFFICES ASSUME Inv PROVE ReportedOnce
    OBVIOUS
  <2>1. IsABag(reported) /\ IsABag(buffer) /\ IsABag(recorded) /\ IsABag(replaced)
    BY DEF Inv, TypeOK, IsABagOf
  <2> DEFINE kept == reported (+) buffer
             all == kept (+) replaced
  <2>2. IsABag(kept) /\ \A e : Count(kept, e) = Count(reported, e) + Count(buffer, e)
    BY <2>1, SumCounts
  <2> HIDE DEF kept
  <2>3. IsABag(all) /\ \A e : Count(all, e) = Count(kept, e) + Count(replaced, e)
    BY <2>1, <2>2, SumCounts
  <2> HIDE DEF all
  <2>4. \A e : Count(all, e) <= Count(recorded, e)
    BY <2>2, <2>3 DEF Inv, CountInv
  <2>5. all \sqsubseteq recorded
    BY <2>1, <2>3, <2>4, SubBagCounts
  <2> QED BY <2>5 DEF all, kept, ReportedOnce
<1> QED BY <1>1, InvAlways, PTL

\* report() of a spy loses what its sampler records between the copy and the clear; a dump
\* of Pprof loses the counts that collect() replaces and no trace.  Whatever calls fail,
\* nothing else is lost.
THEOREM OnlyTheWindowIsLost == Spec => []LostOnlyInWindow
<1>1. Inv => LostOnlyInWindow
  <2> SUFFICES ASSUME Inv PROVE LostOnlyInWindow
    OBVIOUS
  <2>1. IsABag(reported) /\ IsABag(buffer) /\ IsABag(recorded) /\ IsABag(window) /\ IsABag(replaced)
    BY DEF Inv, TypeOK, IsABagOf
  <2> DEFINE kept == reported (+) buffer
             most == kept (+) window
             all == most (+) replaced
  <2>2. /\ IsABag(kept) /\ DOMAIN kept = DOMAIN reported \union DOMAIN buffer
        /\ \A e : Count(kept, e) = Count(reported, e) + Count(buffer, e)
    BY <2>1, SumCounts
  <2> HIDE DEF kept
  <2>3. IsABag(most) /\ \A e : Count(most, e) = Count(kept, e) + Count(window, e)
    BY <2>1, <2>2, SumCounts
  <2> HIDE DEF most
  <2>4. IsABag(all) /\ \A e : Count(all, e) = Count(most, e) + Count(replaced, e)
    BY <2>1, <2>3, SumCounts
  <2> HIDE DEF all
  <2>5. ASSUME NEW e PROVE Count(recorded, e) <= Count(all, e)
    <3>1. /\ Count(buffer, e) \in Nat /\ Count(copy, e) \in Nat /\ Count(recorded, e) \in Nat
          /\ Count(reported, e) \in Nat /\ Count(window, e) \in Nat /\ Count(replaced, e) \in Nat
      BY CountsAreNaturals DEF Inv
    <3>2. Count(all, e) = Count(reported, e) + Count(buffer, e) + Count(window, e) + Count(replaced, e)
      BY <2>2, <2>3, <2>4, <3>1
    <3>3. /\ pc = "clear" => Count(copy, e) <= Count(buffer, e)
          /\ Count(recorded, e) <= Count(reported, e) + Count(window, e) + Count(replaced, e)
                                      + (IF pc = "clear" THEN Count(copy, e) ELSE Count(buffer, e))
      BY DEF Inv, CountInv
    <3> QED BY <3>1, <3>2, <3>3
  <2>6. recorded \sqsubseteq all
    BY <2>1, <2>4, <2>5, SubBagCounts
  <2>7. /\ kind = "pprof" => window = EmptyBag
        /\ kind # "pprof" => replaced = EmptyBag
        /\ \A e \in DOMAIN replaced : \E f \in DOMAIN kept : Alike(e, f)
    BY <2>2 DEF Inv, PprofInv, ReplacedInv
  <2> QED BY <2>6, <2>7 DEF all, most, kept, LostOnlyInWindow, Alike, BagToSet
<1> QED BY <1>1, InvAlways, PTL

\* Pprof applies tags when it dumps and dumps before it changes one: a sample taken while
\* no call is in progress is reported under the tags its thread had, also when dumps fail.
THEOREM TagsKeepTheirScope == Spec => []TagScopes
<1>1. Inv => TagScopes
  <2> SUFFICES ASSUME Inv, kind = "pprof" PROVE TagScopes
    BY DEF TagScopes
  <2>1. DOMAIN (buffer (+) reported) = DOMAIN buffer \union DOMAIN reported
    BY SumCounts DEF Inv, TypeOK, IsABagOf
  <2> QED BY <2>1 DEF TagScopes, Inv, TagInv, Scoped, BagToSet
<1> QED BY <1>1, InvAlways, PTL

\* The tags of a trace: the profile keeps one value of each key, the greatest.
LEMMA TraceIsTagged ==
  ASSUME NEW e, e.stack \in Stacks, OwnTags(e)
  PROVE  IsTrace(e)
<1> DEFINE own == {<<"pid", "self">>, <<"thread_id", e.thread>>, <<"thread_name", e.thread>>}
<1>1. IsFiniteSet(Tags \union own)
  <2>1. TagValues \in Seq(ToSet(TagValues))
    BY AgentEncodeAssumption DEF AgentEncodeAssumption
  <2> DEFINE S == 1..Len(TagValues)
             f == [i \in S |-> <<"tag", TagValues[i]>>]
  <2>2. S = DOMAIN TagValues /\ IsFiniteSet(S)
    BY <2>1, FS_Interval
  <2>3. f \in Surjection(S, Tags)
    BY <2>2 DEF Surjection, Tags, ToSet
  <2> HIDE DEF S, f
  <2>4. IsFiniteSet(Tags)
    BY <2>2, <2>3, FS_Surjection
  <2>5. IsFiniteSet(own)
    <3> DEFINE a == <<"pid", "self">>
               b == <<"thread_id", e.thread>>
               c == <<"thread_name", e.thread>>
    <3> HIDE DEF a, b, c
    <3>1. IsFiniteSet({a}) /\ IsFiniteSet({b}) /\ IsFiniteSet({c})
      BY FS_Singleton
    <3>2. IsFiniteSet(({a} \union {b}) \union {c})
      BY <3>1, FS_Union
    <3>3. ({a} \union {b}) \union {c} = {a, b, c}
      OBVIOUS
    <3> QED BY <3>2, <3>3 DEF a, b, c
  <2> HIDE DEF own
  <2> QED BY <2>4, <2>5, FS_Union
<1>2. e.tags \subseteq Tags \union own
  BY DEF OwnTags
<1>3. \A t \in Tags : t = <<t[1], t[2]>> /\ t[1] = "tag" /\ t[2] \in ToSet(TagValues)
  BY DEF Tags
<1>4. \A t \in own : t = <<t[1], t[2]>> /\ t[1] # "tag"
  OBVIOUS
<1>5. \A t, u \in own : t[1] = u[1] => t = u
  OBVIOUS
<1>6. IsFiniteSet(e.tags)
  <2> HIDE DEF own
  <2> QED BY <1>1, <1>2, FS_Subset
<1> HIDE DEF own
<1>7. Tagging(e.tags)
  BY <1>2, <1>3, <1>4, <1>5, <1>6 DEF Tagging
<1>8. \A i \in DOMAIN e.stack : e.stack[i] \in ToSet(e.stack)
  BY DEF ToSet
<1>9. \A i \in DOMAIN e.stack : IsFrame(e.stack[i])
  BY <1>8, BackendsAssumption DEF BackendsAssumption, IsFrame
<1>10. IsTable(e.stack)
  BY BackendsAssumption DEF BackendsAssumption, IsTable, ToSet
<1> QED BY <1>7, <1>9, <1>10 DEF IsTrace

\* From<StackBuffer> for Vec<Report>: the reports share the traces of the buffer out.
LEMMA ReportsOfTraces ==
  ASSUME NEW b, IsABag(b), IsFiniteSet(DOMAIN b), \A e \in DOMAIN b : IsTrace(e)
  PROVE  /\ IsFiniteSet(Reports(b)) /\ TracesOf(Reports(b)) = DOMAIN b
         /\ \A r \in Reports(b) : IsReport(r, b)
         /\ \A r, s \in Reports(b) : r # s => \A t \in DOMAIN r.data : t \notin DOMAIN s.data
<1> DEFINE R(m) == [metadata |-> m, data |-> [trace \in {e \in DOMAIN b : e.tags = m} |-> b[trace]]]
           metadata == {trace.tags : trace \in DOMAIN b}
<1>1. Reports(b) = {R(m) : m \in metadata}
  BY DEF Reports, BagToSet
<1>2. \A m : /\ R(m).metadata = m /\ DOMAIN R(m).data = {e \in DOMAIN b : e.tags = m}
             /\ \A t \in DOMAIN R(m).data : R(m).data[t] = b[t]
  OBVIOUS
<1>3. IsFiniteSet(Reports(b))
  <2> DEFINE S == DOMAIN b
             T == Reports(b)
             f == [e \in S |-> R(e.tags)]
  <2>1. f \in Surjection(S, T)
    <3> HIDE DEF R
    <3> QED BY <1>1 DEF Surjection
  <2>2. IsFiniteSet(S)
    OBVIOUS
  <2> HIDE DEF S, T, f
  <2>3. IsFiniteSet(T)
    BY <2>1, <2>2, FS_Surjection
  <2> QED BY <2>3 DEF T
<1> HIDE DEF R
<1>4. ASSUME NEW r \in Reports(b) PROVE IsReport(r, b) /\ \A t \in DOMAIN r.data : t \in DOMAIN b /\ t.tags = r.metadata
  <2>1. PICK m \in metadata : r = R(m)
    BY <1>1
  <2>2. r.metadata = m /\ DOMAIN r.data = {e \in DOMAIN b : e.tags = m} /\ \A t \in DOMAIN r.data : r.data[t] = b[t]
    BY <1>2, <2>1
  <2>3. IsFiniteSet(DOMAIN r.data)
    BY <2>2, FS_Subset
  <2> QED BY <2>2, <2>3 DEF IsReport
<1>5. ASSUME NEW r \in Reports(b), NEW s \in Reports(b), NEW t \in DOMAIN r.data, t \in DOMAIN s.data PROVE r = s
  <2>1. r.metadata = s.metadata
    BY <1>4, <1>5
  <2>2. r = R(r.metadata) /\ s = R(s.metadata)
    BY <1>1, <1>2
  <2> QED BY <2>1, <2>2
<1>6. ASSUME NEW e \in DOMAIN b PROVE \E r \in Reports(b) : e \in DOMAIN r.data
  <2>1. e.tags \in metadata /\ R(e.tags) \in Reports(b)
    BY <1>1
  <2> QED BY <1>2, <2>1
<1>7. TracesOf(Reports(b)) = DOMAIN b
  BY <1>4, <1>6 DEF TracesOf
<1> QED BY <1>3, <1>4, <1>5, <1>7

\* encode(), on the reports of a backend: whatever strings, functions, locations and keys of
\* tags its traces share, the profile decodes to what was recorded.
THEOREM ProfilesSayWhatWasRecorded == Spec => []ProfilesDecode
<1>1. Inv => ProfilesDecode
  <2> SUFFICES ASSUME Inv PROVE Decode(encode(Reports(copy), Period)) = Profiled(copy)
    BY DEF ProfilesDecode
  <2> DEFINE E == DOMAIN copy
             reports == Reports(copy)
  <2>1. IsABag(copy) /\ IsFiniteSet(E) /\ Period \in Nat
    BY BackendsAssumption DEF BackendsAssumption, Inv, TypeOK, TraceInv, IsABagOf
  <2>2. \A e \in E : IsTrace(e)
    <3>1. E \subseteq Traces
      BY DEF Inv, TypeOK, IsABagOf, BagToSet
    <3> QED BY <3>1, TraceIsTagged DEF Inv, TraceInv, Traces
  <2>3. \A e \in E : copy[e] \in Nat
    BY <2>1 DEF IsABag
  <2>4. /\ IsFiniteSet(reports) /\ TracesOf(reports) = E
        /\ \A r \in reports : IsReport(r, copy)
        /\ \A r, s \in reports : r # s => \A t \in DOMAIN r.data : t \notin DOMAIN s.data
    BY <2>1, <2>2, ReportsOfTraces
  <2> HIDE DEF E, reports
  <2>5. Decode(encode(reports, Period)) = TimeOf(E, copy, Period)
    BY <2>1, <2>3, <2>4, EncodeTells
  <2> DEFINE Sum(k) == MapThenSumSet(LAMBDA e : copy[e], {e \in E : Shown(e) = k})
  <2>6. ASSUME NEW k PROVE Sum(k) = Total(copy, {e \in E : Shown(e) = k})
    <3> DEFINE S == {e \in E : Shown(e) = k}
    <3> HIDE DEF S
    <3>1. MapThenSumSet(LAMBDA e : copy[e], S) = Total(copy, S)
      BY SumOfCounts
    <3> QED BY <3>1 DEF S
  <2>7. Profiled(copy) = [k \in {Shown(e) : e \in E} |-> Period * Sum(k)]
    BY DEF Profiled, BagToSet, Shown, Kept, Labels, E
  <2> HIDE DEF Sum
  <2>8. Profiled(copy) = TimeOf(E, copy, Period)
    BY <2>6, <2>7 DEF TimeOf
  <2> QED BY <2>5, <2>8 DEF reports
<1> QED BY <1>1, InvAlways, PTL

\* Once shutdown() of Pyspy or Pprof has returned, their samplers touch nothing any more.
THEOREM ShutdownIsQuiet == Spec => QuietAfterShutdown
<1>1. Inv /\ [Next]_vars =>
        [slot = "none" /\ pc = "idle" /\ kind # "rbspy" => UNCHANGED <<taken, buffer>>]_vars
  <2> SUFFICES ASSUME Inv, [Next]_vars, slot = "none", pc = "idle", kind # "rbspy"
               PROVE  UNCHANGED <<taken, buffer>>
    BY DEF vars
  <2>1. ~guard /\ hand = <<>> /\ pending = <<>> /\ sampler # "running"
    <3>1. kind \in {"pyspy", "pprof"}
      BY BackendsAssumption DEF BackendsAssumption, Inv, TypeOK
    <3> QED BY <3>1 DEF Inv, PprofInv, PyspyInv
  <2>2. CASE Initialize \/ InitializeFails \/ Shutdown \/ PprofReport \/ SpyReport
    BY <2>2 DEF Initialize, InitializeFails, Shutdown, PprofReport, SpyReport, Calls
  <2>3. ASSUME NEW c \in Changes, TagCall(c) PROVE FALSE
    BY <2>3 DEF TagCall, Calls
  <2>4. CASE CallStep \/ DumpFails
    BY <2>4 DEF CallStep, ReportClears, DumpBuilds, ResetTakes, ResetBuilds, PprofTags, PprofCopies,
                ShutdownJoins, DumpFails
  <2>5. CASE SpyStep
    BY <2>1, <2>5 DEF SpyStep, PyspyStarts, PyspySamples, RbspyEnds, SpyTags, SpyRecords, bounds
  <2>6. CASE RbspySends \/ PprofSamples
    BY <2>1, <2>6 DEF RbspySends, PprofSamples
  <2>7. CASE UNCHANGED vars
    BY <2>7 DEF vars, bounds
  <2> QED BY <2>2, <2>3, <2>4, <2>5, <2>6, <2>7 DEF Next, Caller
<1> QED BY <1>1, InvAlways, PTL DEF Spec, QuietAfterShutdown

=============================================================================
