# A TLA+ development of pyroscope-rs

pyroscope-rs samples the stacks of a running process and sends them, every ten
seconds (fifteen in the signal profiler), to a Pyroscope server. This directory models the parts of it that
keep state: what its threads do to each other, what becomes of a sample
between the profiler and the server, and when `start`, `stop` and `shutdown`
do what their documentation says. The models are checked with TLC on small
instances, and their safety properties, but for one, are proved with TLAPS for
every instance.

Paths below are relative to the repository's root.

## 1. Inventory

### The library, `src/`

**Agent** (`src/pyroscope.rs`). `PyroscopeAgentBuilder::build` initializes the
backend, the timer and the session manager; the result is a
`PyroscopeAgent<PyroscopeAgentReady>`, consumed by `start` to give a
`PyroscopeAgent<PyroscopeAgentRunning>`, consumed by `stop` to give a Ready
one again; `shutdown` consumes either. State: `tx` (the agent's end of the
current main thread's channel), `running` (a flag under a mutex and a
condition variable), the backend, timer and session manager with their thread
handles. Each `start` spawns a *main thread* that takes `TimerSignal`s from an
unbounded channel of its own: `NextSnapshot(t)` makes it lock the backend,
call `report` and send a `Session` to the session manager; `Terminate` makes
it clear `running`, notify and end. Any error ends it too, without the
notification.
Hard: a caller, a timer and a main thread write to and read from the same
channels; `stop` waits on a flag and `shutdown` joins three threads that
block on channels; start after stop reuses the timer, whose list of listeners
still holds the old channels.
Correct when: no sample is lost or reported twice by the agent itself; `stop`
flushes; the calls return.

**Timer** (`src/timer/epoll.rs`; `kqueue.rs` on macOS, `sleep.rs` unused).
A thread over a timerfd that expires at every multiple of 10 s. It ends when
it finds no listener (`txs` empty), else waits on the epoll, reads the
timerfd, reads the clock and sends `NextSnapshot(from)` to every listener,
ignoring send errors. `attach_listener` adds to `txs`, `drop_listeners`
empties it; a dummy listener keeps the thread alive before the first start.
Hard: the clock is read after the timer, so the time stamped is that of a
thread that may be late; EINTR; the end is noticed a turn late.

**Session manager** (`src/session.rs`). A thread over a `sync_channel(10)` of
`SessionSignal`: `Session` is pushed over HTTP with a timeout of 10 s, its
failure logged; `Kill` ends the thread.
Hard: a full channel blocks the main thread, then `stop` and `shutdown`;
what is behind `Kill` is lost.

**Time ranges** (`src/utils.rs`). `get_time_range` and the ranges that the
timer, `stop` and `Session::new` derive from it.

**Backend trait and slot** (`src/backend/backend.rs`). `BackendImpl` holds an
`Option` of a backend under a mutex; `shutdown` takes it out, after which
`report` fails.

**Stack buffer, reports, rulesets** (`src/backend/types.rs`, `ruleset.rs`).
`StackBuffer` counts equal stack traces; its conversion to reports groups them
by the tags of a thread. `Ruleset` is a set of rules under a mutex, one
global or per thread.

**pprof-rs backend** (`src/backend/pprof.rs`). A profiler guard from pprof-rs
and a stack buffer. Adding or removing a tag first dumps what was sampled, so
that samples keep the tags they were taken under; the guard is then rebuilt.
Hard: samples between dump and rebuild; a rebuild that fails.
Correct when: samples keep the tags they were taken under; what was recorded is
reported once, after any failure.

**Profile encoder** (`src/encode/pprof.rs`). Reports to one pprof profile:
tables of strings, functions and locations with interning.

**FFI kit** (`src/ffikit.rs`). A global `SENDER` and one loop thread that owns
an agent, for the Python and Ruby bindings: `run` builds and starts it unless
`SENDER` is set, `send` passes tags and `Kill` to the loop, which stops the
agent, drops it and clears `SENDER`.
Hard: set-up and tear-down in any order from other languages' threads; signals
queued behind a `Kill`; a `stop` that fails.
Correct when: agents do not overlap; a signal that was accepted is applied or
the agent was killed before it; a `Kill` ends the agent and what it started.

### The bindings, `pyroscope_ffi/`

**Python** (`pyroscope_ffi/python/rust`) and **Ruby**
(`pyroscope_ffi/ruby/ext/rbspy`): a backend each, around py-spy and rbspy,
with a sampling thread that fills a stack buffer, and C entry points over the
FFI kit. `report` clones the buffer under one lock and clears it under
another.
Hard: what is recorded between the two locks; a sampler that reads its flag only
when a sample is there, joined by `shutdown` under the backend's mutex; a bounded
channel of raw traces in rbspy.
Correct when: a trace is in one report at most and is lost in that window only;
`shutdown` returns and nothing samples after it.

### The signal profiler, `kit/`

**pysignalprof**: a SIGPROF handler that unwinds the Python stack of the
thread it interrupts, into one of several mutex-protected ring shards, and
notifies an eventfd; a reader thread that drains the rings into a pprof
builder, looks up the name of each code object and flushes every 15 s; a start
sequence of thirteen steps with an error for each. **sig_ring**: the records in a shard. **notlibc**: eventfd,
epoll set, mmap and the shard mutex. **sighandler**: installing handlers.
**kindasafe**, **kindasafe_init**: reads that survive a fault, through a
SIGSEGV handler and a table of crash points. **python_unwind**: the walk over
Python frames. **python_offsets**: struct offsets and the addresses of
CPython's symbols. **pprof_enc**: the pprof builder. **pyroscope_ingest**: one
HTTP request. **coredump**: a reader of core files for tests.
**pysignalprof_capi**: C entry points.
Hard: a handler may interrupt anything, itself included on another thread, and
may only try a lock; a ring may be full; a start may fail halfway and be tried
again; the reader sleeps on a file descriptor it must drain; frames may be
broken when a signal comes; a code object may be gone when its name is read; a
builder whose indices survive its tables.
Correct when: records are whole and drained once; the timer runs only over a
state that is ready and stays; what is recorded is sent; the stack is the top of
the real one; a profile decodes to what was sampled, under current names.

## 2. Modules

| module | models |
|---|---|
| `TimeRange` | `get_time_range` and what is derived from it; operators only |
| `Agent` | one agent from `build` to `shutdown` or drop: caller, timer thread, the main thread of each `start`, session manager, backend slot |
| `SampleLedger` | abstract: what an agent promises about samples, with neither threads nor channels |
| `AgentMC` | `Agent` with the symmetry of samples, for TLC |
| `AgentContract` | abstract: what the caller of one agent may see, as a relation between its states |
| `AgentProofs` | theorems about `Agent` |
| `AgentRefinement` | the proof that `Agent` implements `SampleLedger` |
| `FfiKit` | the global `SENDER`, the Python entry points, and the loop thread of each agent built |
| `FfiKitProofs` | theorems about `FfiKit` |
| `AgentEncode` | the agent's profile encoder, and how a profile is read; operators only |
| `AgentEncodeProofs` | what a profile says of any reports; sums, sets as sequences |
| `Backends` | py-spy, rbspy and pprof-rs behind the trait: calls, samplers, tags, buffer |
| `BackendsMC` | stacks and tag values for TLC |
| `BackendsProofs` | theorems about `Backends` |
| `PythonDiscovery` | how the signal profiler finds the interpreter; operators only |
| `SignalProfiler` | `start()`, the SIGPROF handlers, the shards and the reader threads |
| `SignalProfilerMC` | processes of up to three images, for TLC |
| `SignalProfilerProofs` | theorems about `SignalProfiler` and `PythonDiscovery` |
| `PythonUnwind` | the walk over the interpreter's frames |
| `PythonUnwindMC` | two frames with any contents, for TLC |
| `ProfileTables` | the pprof builder's tables and indices; operators only |
| `ProfileTablesProofs` | what the builder's profile says, for any stacks |
| `PythonProfile` | a sample from the walk to the profile: names, cache, builder, flush |
| `PythonProfileMC` | memories and code objects, for TLC |
| `PythonProfileProofs` | theorems about `PythonUnwind` and `PythonProfile` |

`Agent` EXTENDS `TimeRange`; it instantiates `SampleLedger` with a refinement
mapping (`Batches` and the status of each sample). `Agent` and `FfiKit` meet
in `AgentContract`: `Agent` is shown to take only the steps of that relation
(`HonoursContract`), and `FfiKit` moves its agents by the same steps, several
agents, with three fields each in place of `Agent`'s variables.

`Backends` EXTENDS `AgentEncode`, and encodes each report that it makes. It is
the other side of the mutex at which `Agent` calls a backend: `Agent` has one
buffer that `report` empties, `Backends` says what the three backends make of
that. `SignalProfiler` EXTENDS `PythonDiscovery`, whose `discover` is steps 2 to 5
of `start()`. `PythonProfile` EXTENDS `PythonUnwind` and `ProfileTables` and
composes the handler's walk with the reader's use of what it found; the locks
and rings between the two are in `SignalProfiler`, where a stack is just a
sample.

### How `Agent` corresponds to the code

One action is what a thread does between two points where another can come
between: a lock, a channel operation, a join, a wait.

| state | in the code |
|---|---|
| `caller` | the call in progress on the agent, and how far it is; `"ready"` and `"running"` are the type states, `"gone"` is dropped, `"done"` is shut down |
| `run` | number of `start`s; names the channel and the main thread of each |
| `tx`, `running` | the fields |
| `stopUntil` | the argument of `stop`'s final `NextSnapshot`, computed before the send |
| `timer`, `expired`, `stamp`, `txs` | program counter of the timer thread, readability of the timerfd, the time it is about to send, `Timer.txs` |
| `main[r]`, `chan[r]`, `until[r]`, `report[r]` | program counter of the main thread of run `r`, its channel, its locals |
| `manager`, `sessions`, `hand` | program counter of the session manager, its bounded channel, the session being pushed |
| `slot`, `sampling`, `buffer` | the `Option<Backend>`, whether its profiler runs, what it has sampled and not reported |
| `fate`, `mark`, `shutdownFrom`, `failures` | history: what became of each sample; what was in flight when `stop` was called; from which state `shutdown` was called; a count of failures |

| caller | actions |
|---|---|
| `build` | `Build`, `BuildFails` |
| `start` | `Start` |
| `stop` | `StopBegins`, `StopSendsSnapshot`, `StopSendsTerminate`, `StopReturns`; `StopFails` when a send finds the thread gone |
| `shutdown` | `ShutdownBackend`, `ShutdownListeners`, `ShutdownJoinsTimer`, `ShutdownKills`, `ShutdownJoinsManager`, `ShutdownJoinsMain` |
| drop | `Drop` |

The timer thread's loop is `TimerChecks`, `TimerWakes` / `TimerInterrupted`,
`TimerStamps`, `TimerSends`, and `TimerFails` for the errors that end it. The
sends to the listeners are one action: the code holds the lock on `txs`
through them. The main thread's loop is `MainTakesSnapshot`, `MainReports`,
`MainSends`; its ends are `MainTerminates`, `MainDisconnects`,
`MainFindsNoBackend`, `MainReportFails`, `MainSendFails`. The session
manager's are `ManagerTakesSession`, `ManagerPushes`, `ManagerTakesKill`,
`ManagerDisconnects`. `Tick` is the clock with the timerfd, `Record` the
profiler.

### How `FfiKit` corresponds to the code

`sender` is `SENDER`, naming the agent whose loop thread it leads to;
`loop[k]` the program counter of that thread; `queue[k]` its channel; `tags[k]`
the backend's set of thread tags; `using` the flag `USING_PYSIGNALPROF`;
`accepted[k]` is history. `run` and `send` hold the mutex of `SENDER`
throughout, so each is one action (`RunSucceeds`, `RunFails`, `Send`). `stop`
takes three: `LoopTakesKill` calls `PyroscopeAgent::stop`, `LoopStopped` has its
result and drops it, `LoopClears` takes the mutex; `LoopFailsToStop` is its
error, after which `SENDER` stays. `MainThreadEnds` and `MainThreadDies` are
what `AgentContract` says the agent does on its own. A host that has
`PYROSCOPE_PYSIGNALPROF` set takes `UseSignalProfiler` instead; `drop_agent` and
the tag calls return true at once from then on, so `Send` is off. A thread tag is
one value: the thread, key and value it is made of are compared as a whole.

### How `Backends` corresponds to the code

`kind` is the backend; `slot` the `Option` in `BackendImpl` with its life; `pc`
and `call` the call that holds the mutex. `ruleset` is `ThreadTagsSet`, `buffer`
the `StackBuffer` as a bag of traces, `copy` the clone that `report` makes.
`sampler`, `running`, `pending` and `hand` are a spy's thread, its flag, the raw
traces it has not tagged and the one it has tagged and not recorded; `guard` and
`collected` pprof-rs's `ProfilerGuard` and what it holds. `recorded`, `reported`,
`window` and `replaced` are history, and so are `under` and `calm` in a trace: the tags its
thread had when it was sampled, and whether no call was in progress.

| call | py-spy, rbspy | pprof-rs |
|---|---|---|
| `initialize` | `Initialize` / `InitializeFails`, then `PyspyStarts` in the thread | the same two |
| `report` | `SpyReport`, `ReportClears` | `PprofReport`, `DumpBuilds`, `ResetTakes`, `ResetBuilds`, `PprofCopies`, `ReportClears` |
| `add_tag`, `remove_tag` | `TagCall` | `TagCall`, `DumpBuilds`, `ResetTakes`, `ResetBuilds`, `PprofTags`; at once without a guard |
| `shutdown` | `Shutdown`, and `ShutdownJoins` in py-spy | `Shutdown` |

`DumpFails` is the error of the profiler's report, or of the new guard. The
samplers are `PyspySamples`, `RbspySends`, `RbspyEnds`, `SpyTags`, `SpyRecords` and
`PprofSamples`. A report is found by its metadata, where the code takes a hash of
it; collisions are left out.

The pprof crate counts by what it calls `Frames`: a thread, and the frames in groups,
one for each address with what was inlined there. A `StackTrace` has them in one list
(`frames.concat()`, `src/backend/pprof.rs:218`), so that two entries of a report may
become one trace, and the `collect()` into a `HashMap` at line 187 then keeps the
count of the one it comes to last. It does not add them. `Grouped` has the lists in
groups, `SameTrace` says which entries become one, `Survivors` which of them can be
left, and `DumpBuilds` moves the counts of the rest to `replaced`. The second
`collect()`, after the rules were applied (line 139), meets no two equal traces: the
rules depend on the thread, which is part of a trace. That counts are lost so is an
observation about the code; no document of the repository says otherwise, and it is
therefore not among the findings.

### How `SignalProfiler` corresponds to the code

`caller[c]` is the step of `start()` that a caller is at. Each attempt that gets
to step 10 publishes a `HandlerState` that is never freed, here a number; `reader`,
`at`, `lock`, `frames`, `ring`, `counter`, `eventfd`, `due` and `builder` are the
parts of each, `current` is `HANDLER_STATE`, `lifecycle` `LIFECYCLE`, `kindasafe`
what `kindasafe_init::init` returned. `installed` and `armed` are the process's
action for SIGPROF and its timer. `starts`, `taken`, `oks`, `sent`, `lost` and
`news` are history.

| code | actions |
|---|---|
| `start()`: compare-and-exchange | `Start` |
| 1 kindasafe; 2 to 5 discovery; 6 to 9 rings, eventfd | `InitKindasafe`; `Discover`; `Allocate` |
| 10 publish; 11 reader thread; 12 handler; 12b sanity check; 13 timer | `Publish`; `SpawnReader`; `RegisterHandler`; `SanityCheck`; `StartTimer` |
| `on_sigprof` | `Signal`, `TryLock` up to three times, `Unwind`, `WriteRecord`, `Notify` |
| `reader_thread` | `ReaderSetsUp`; `ReaderWakes`; `ReaderLocks` and `ReaderDrains` for each shard; `ReaderGoesOn` or `Flush` (with `Send`) |

Each fallible step of `start()` has its failure as a disjunct (`Fails`), after
which another call may begin. The counter's read and the notification are one
action, taken under the shard's lock as the unlock is; `eventfd` is level-triggered
and has no action that reads it, since the code has none.

`PythonDiscovery` has what `start()` looks up: `find_python_in_maps`,
`resolve_elf_symbols`, `load_bias`, `resolve_asyncio_debug_symbol`, the version and
the debug offsets' header. `Loaded` is the operating system's part: the process
that results from images at given addresses, with two mappings each, the file of
one of them perhaps replaced on disk since.

### How `PythonUnwind` and `PythonProfile` correspond to the code

`frame_ptr`, `prev_frame` and `buf` are the variables of `unwind`. A turn of its
loop is one of `WalkStops`, `WalkSkips`, `WalkTakes`; `memory` is fixed during a
walk, since the thread that owns it is the one interrupted, and may be anything.
A read that fails is the value `Fault`. In `PythonProfile`, `memory` is chosen at
each `Signal` and is not looked at elsewhere; `Record` writes the stack.

The interpreter's memory is `object` and `string`, what is at the addresses of code
objects and of strings, and `live`, the code objects that are allocated. `Free` leaves
the address as it is, or puts there what another use of the memory would; `Allocate`
makes a code object of strings that exist; `Recycle` frees a string that no allocated
code object has, unmaps it or makes another there; `CacheUtf8` is the host asking for
a string's UTF-8. The reader has no GIL, and any of these may come between any two of
its reads.

| `reader_thread` | actions |
|---|---|
| `entry()`: the address is in the cache | `ResolveCached` |
| `resolve_function_name`: the field of the code object | `ReadPointer` |
| `read_pyunicode`: the state and, unless ASCII, the UTF-8 pointer | `ReadHeader` |
| `read_pyunicode`: the length and the characters | `ReadData` |
| any read fails: `co_name` after `co_qualname`, then `<unknown>` | `NoName`, part of the three |
| `add_sample`, release of the record | `AddRecord` |
| the rest of a turn | `Drained`, `NotDue`, `Flush` |

`reading` is where it is between them, `symbol_cache`, `builder`, `ring` are the variables
of the same name. `stale`, `window` and `whole` in `reading` are history. State and
UTF-8 pointer are one action, and so are length and characters. That merges nothing: all
that can change between the two reads of a string that is not freed is its UTF-8
pointer, from none to some, which the second of them reads; and of one that is freed
once its header was read, `ReadData` gives any text or none (`Garbled`).

`ProfileTables` keeps each table apart from its index, as `ProfileBuilder` does,
for `encode` moves out the one and not the other: `encode(b)` is the profile and
`encoded(b)` what is left. `AgentEncode` makes one sequence of both, since the
agent's encoder is never used again after `encode`.

### Data

A sample is one observation of a stack, identified: what the code aggregates
in a count keeps each one's identity in `Agent` and `SignalProfiler`, so that a
property can follow it; where counts are what the code is about (`Backends`, the
two encoders) they are bags and values. What a request looks like, times in a
profile, and configuration are data no property is about. A mutex poisoned by a
panic is left out.

## 3. Runs

| run | expects | shows |
|---|---|---|
| `agent_safety` | pass | type invariant, `OnePlace`, `StopFlushes`, `OneMainThread`, `NoReportDropped`, `ShutdownLeavesNothing`; `Agent` implements `SampleLedger` and honours `AgentContract` |
| `agent_live` | pass | `StopEnds`, `ShutdownEnds`, `SamplesArePushed` |
| `shutdown_running` | violation | `ShutdownEndsAlways` |
| `stop_after_failure` | violation | `StopWaitsForThread` |
| `stop_profiling` | violation | `StopStopsProfiling` |
| `ffi_kit` | pass | type invariant, `OneAgentRuns`, `LostBehindKill`, `KillFreesSender` |
| `ffi_shutdown` | violation | `KillStopsProfiler` |
| `backends` | pass | type invariant, `ReportedOnce`, `LostOnlyInWindow`, `TagScopes`, `ProfilesDecode`, `QuietAfterShutdown`, `ShutdownReturns` |
| `signal_profiler` | pass | type invariant, `RecordsAreWhole`, `OnePlace`, `ArmedIsReady`, `HandlerNeverWaits`, `DiscoveryIsSound`, `DiscoveryFinds`, `StateIsSettled`, `RecordedIsSent` |
| `reader_spins` | violation | `WaitsForNotification` |
| `python_profile` | pass | type invariant, `FramesAreTheStack`, `ProfileDecodes`, `NamesAreCurrent`, `UnwindEnds` |
| `unwind_cycle` | violation | `UnwindAlwaysEnds` |

The largest are `backends` (1.8 million distinct states), `python_profile` (1.6
million, with liveness) and `signal_profiler` (188 thousand, with liveness); each takes
one to three minutes.

The properties of `agent_safety`:

- `OnePlace`: a sample that was taken and is not settled is in exactly one of
  the buffer, a main thread's report, one session of the channel, the session
  being pushed.
- `StopFlushes`: when `stop` has returned, everything in flight when it was
  called is with the session manager or was pushed. It is the reason for the
  final snapshot *before* Terminate, whatever the timer sends between them.
- `OneMainThread`: two runs never share the backend.
- `NoReportDropped`: once taken from the backend, a report reaches a push
  unless something failed or `shutdown` was called on a Running agent.
- `ShutdownLeavesNothing`: `shutdown` of a stopped agent pushes all that
  `stop` queued, and ends every thread and the profiler.
- `ImplementsLedger`: batches are taken whole and handed over at most once
  each, in the order taken.
- `HonoursContract`: `start` never meets a main thread of an earlier run, `stop`
  returns the agent only if the main thread took its Terminate, and an error
  only if it died; nothing but `build` and `shutdown` switches the profiler
  while the agent is owned.

The properties of `ffi_kit`:

- `OneAgentRuns`: however the host's threads initialize and drop, two agents
  never report at the same time.
- `LostBehindKill`: the loop takes what was accepted in order and loses nothing
  before the first `Kill`; a loop that has ended has taken one.
- `KillFreesSender`: after an accepted `Kill` the agent's main thread ends and
  `SENDER` is free for the next, unless a main thread died. The exception is
  real: a `stop` that fails leaves `SENDER` set for the rest of the process.

The properties of `backends`:

- `ReportedOnce`: with the sampler recording beside `report`, no recorded trace is
  reported twice, or reported and still buffered.
- `LostOnlyInWindow`: nothing recorded disappears, whatever calls fail, with two
  exceptions, both the code's: what a spy records between copy and clear, and with
  pprof-rs the counts that a dump replaces as two entries become one trace. Of these
  the trace itself is reported or buffered, under the same tags.
- `TagScopes`: a sample that pprof-rs takes while no call is in progress is
  reported under the tags its thread had then, though rules are applied at the
  dump, and though a dump or the new guard may have failed in between.
- `ProfilesDecode`: the encoded report, read back through its three tables, has
  each stack with its labels and its count.
- `QuietAfterShutdown`, `ShutdownReturns`: after `shutdown` of py-spy or pprof-rs
  nothing is sampled or recorded, and py-spy's join ends. rbspy does not wait for
  its thread; what that thread still records goes to a buffer nobody reports.

The properties of `signal_profiler`:

- `RecordsAreWhole`: handlers of several threads and the reader share a shard's
  frame buffer and ring; a record never has the frames of another thread.
- `OnePlace`: a signal's sample is in exactly one of a handler, a record, a
  builder, what was sent, or what was dropped for a reason the code has.
- `ArmedIsReady`, `StateIsSettled`: however calls of `start` race and fail, the
  timer runs only after the one that returned Ok, over its state, with a reader
  and crash recovery; that state is not replaced afterwards.
- `HandlerNeverWaits`: a handler always has a step of its own to take.
- `DiscoveryIsSound`, `DiscoveryFinds`: the addresses used are those of a
  supported interpreter's symbols; one that is there and can be told apart is found.
- `RecordedIsSent`: a record is drained, and sent or lost by a failed request,
  unless its reader had no epoll set; `start` cannot tell.

The properties of `python_profile`:

- `FramesAreTheStack`: what the walk returns is the top of the stack in memory:
  its Python frames in order, to the first that cannot be read or `MaxDepth`.
- `ProfileDecodes`: a profile has only valid references and says what was sampled
  since the last, whatever the builder held before.
- `NamesAreCurrent`: the cached name of a code object that has been allocated since
  the last flush is its own, whole or cut at the end of a buffer, though other objects
  and strings are freed between the reads. That of an address that was freed
  meanwhile may be another's or garbled, and the flush forgets it: what it says of
  every address is that no wrong name outlives its window.
- `UnwindEnds`: the walk ends unless it is in a cycle of two or more skipped
  frames, which is finding 6.

### Bounds

- `Samples`: two, in symmetry, so that one can be in a batch and one behind
  it; one for liveness.
- `SessionCap` is 2 where the code has 10 (1 for liveness): a full channel and a
  main thread that waits for room occur with three sessions, and two are enough
  for one to overtake the other.
- `MaxRuns` is 2: a restart meets what the first run left. What a third run
  meets differs only in the number of dead listeners.
- `StartTime` 10, `MaxNow` 20: one full range passes. At `MaxNow` the clock
  stands still and the timer goes on, so that no behaviour is cut short: later
  snapshots repeat a range.
- `MaxBacklog` is 1: a `Tick` waits while a main thread has an unread signal.
  `stop` still puts two signals behind it. This bounds the unbounded channel;
  it excludes a main thread that falls a whole range behind its timer, which
  the proofs include (they hold for every value).
- `MaxFailures`: at most one failure of the timer thread or of `report`; none
  in `agent_live`, as nothing is promised after one.
- `FfiKit`: `MaxAgents` 2, one agent and the one initialized after it;
  `MaxSignals` 3 for each, which holds a tag, a `Kill` and a signal behind it,
  or two `Kill`s; one tag; one main thread dies. `OneAgentRuns` is proved for
  every value.

- `Backends`: one of the three backends; two threads; two stacks that share a frame
  and differ in a line and a file name, the longer of them in two groupings, so that
  entries of the crate's report become one trace; one tag key with two values, so that two
  tags of a thread clash; rbspy's channel of one; two traces, three calls, one
  error. Three calls are a tag, its removal and a report, or a failed report and
  two that come after it.
- `SignalProfiler`: two callers and two calls of `start`, so that they race or one
  follows a failure; two threads and the reader over two shards, so that every
  shard can be taken and a try come round again; rings of one record, so that the
  second is dropped; `Interval` 2 where the code has 32, so that a sample comes
  without a notification; two signals. The processes have an executable, a
  shared libpython and `_asyncio`, each in the variants that discovery can
  meet: 3.13 or 3.14, free-threaded, launchers, linked at 0 or elsewhere, a file
  that is no ELF or was replaced.
- `PythonProfile`: three frames in four memories, of which a walk begins at any frame:
  whole, linked through a skipped frame, broken, linked to itself, a cycle of Python
  frames and one of skipped; `MaxDepth` 2 for 128, so that a stack is cut; `BufLen` 4 for
  256, which makes the limits of characters 2, 2 and 1 for 128, 128 and 64. Two code
  objects with three strings between them: ASCII that fits and that does not, and one
  that is UCS2 or UCS4. Two signals and two flushes: one profile after another, and a
  cache that would outlive the first. Two changes of the interpreter's: a code object and
  its string freed between two reads of it, or a code object freed and another made at
  its address. What is left where one was freed is the same bytes or an unmapped page.
  A cache with a garbled name, one with another's, a string unmapped between pointer and
  header, and one whose UTF-8 is cached between header and characters are all reached.
- `PythonUnwindCycle`: two frames with any contents at all.

Deadlock is not checked: an agent that is done or gone, with its threads
ended, does nothing more. Nor is it in the others, whose host, caller or
interpreter may be done (or at its bound).

### Fairness

`FairSpec` has weak fairness of: the steps of a call in progress
(`CallerStep`), the timer thread, each main thread, the session manager, and
`Tick`. Each is a thread the operating system schedules whose step, when
enabled, stays enabled until it is taken, since it waits on a channel that
only it reads, on a flag, on a join or on a timer. `ManagerPushes` ends
because the HTTP client has a timeout of 10 s. There is none on what a caller
decides (start, stop, shutdown, drop), on samples, on EINTR or on failures.

`FfiKit`'s `Spec` has weak fairness of each loop thread and of the end of a
main thread that `stop` waits for. The second is what `StopEnds` shows of
`Agent` without failures; `LoopFailsToStop` has none, since a `stop` whose main
thread died may also wait forever (finding 2).

`Backends` has weak fairness of a call in progress (`CallStep`) and of a spy's
thread (`SpyStep`), py-spy's sampler included: it samples at its rate, and reads
the flag each time. There is none on what a caller does, on the rbspy crate's
sampler, on signals and on errors. `SignalProfiler` has it of each handler, each
reader thread and of the passing of 15 seconds (`Elapses`); none on `start`, whose
callers may give up, or on signals. `PythonUnwind` and `PythonProfile` have it of the
walk, which is straight-line code.

### Findings

1. `shutdown` of a *Running* agent never returns (`shutdown_running`). It joins
   the main thread while `self.tx`, a sender of that thread's channel, is
   still alive (`src/pyroscope.rs:420`), so the thread's `recv` waits forever.
   `ShutdownEnds` holds for an agent that was stopped first.
2. `stop` waits forever if the main thread fails after both signals were
   queued (`stop_after_failure`): only the Terminate branch clears `running`
   (`src/pyroscope.rs:493`), and errors leave by `?`.
3. `stop` does not stop profiling (`stop_profiling`): the doc comment at
   `src/pyroscope.rs:511` says it does; the backend is not told.
4. An agent dropped through the C interface is stopped, not shut down
   (`ffi_shutdown`): `src/ffikit.rs:73` drops what `stop` returns. py-spy's
   sampling thread (`pyroscope_ffi/python/rust/src/backend.rs:84`) ends only by
   `shutdown`, and goes on; so does the timer's thread, which keeps its dummy
   listener. The Python package logs "Pyroscope Agent successfully shutdown"
   (`pyroscope_ffi/python/python/pyroscope/__init__.py:70`). The model lets the
   profiler of a dropped backend go on or not, as the backends differ in it;
   the behaviour shown is py-spy's.
5. The signal profiler's reader spins (`reader_spins`): nothing reads the eventfd,
   which is registered level-triggered, so after the first notification every wait
   returns at once (`kit/pysignalprof/src/lib.rs:384`). The doc of `wait`
   (`kit/notlibc/src/eventfd.rs:204`) promises to block until one is notified. No
   sample is lost by it (`RecordedIsSent`).
6. The walk may not end (`unwind_cycle`): a frame is compared with the one before
   it only, and skipped frames do not count towards the depth
   (`kit/python_unwind/src/lib.rs:77`), so two skipped frames that point at each
   other keep the signal handler for ever. The doc comment at line 51 says that
   corrupted pointers do not lead to infinite loops. `UnwindEnds` shows that it is
   the only way.

## 4. Proofs

Every theorem holds for every value of the constants that satisfies the module's
assumption: that bounds and capacities are naturals, that buffers have room, and what
a constant that is a set of inputs may contain. Eight modules hold theorems, and TLC
evaluates each assumption in a run.

### `AgentProofs`, from `AgentAssumption`

| theorem | states |
|---|---|
| `TypeCorrect` | `Spec => []TypeOK` |
| `OnlyOneMainThread` | `Spec => []OneMainThread` |
| `ShutdownCorrect` | `Spec => []ShutdownInv` |
| `ReportsAreNotDropped` | `Spec => []NoReportDropped` |
| `SamplesHaveOnePlace` | `Spec => []OnePlace` |
| `ShutdownOfReadyIsClean` | `Spec => []ShutdownLeavesNothing` |
| `StopFlushesAll` | `Spec => []StopFlushes` |
| `ContractIsHonoured` | `Spec => HonoursContract` |
| `RangesTile` | how the ranges of timer, `stop` and sessions fit together |

The argument is one inductive invariant in layers, each inductive given those before it:

1. `TypeOK`.
2. `RunInv`: a live main thread is that of the last `start`, and `running` is
   set. `OneMainThread` alone is not inductive: that `stop`'s return leaves no
   live thread follows from the flag.
3. `ShutdownInv`: what `shutdown`'s progress says of the other threads; the
   session manager ends only by `Kill` or after all senders, and a stopped
   agent has nothing behind `Kill`. From here `NoReportDropped` is inductive.
4. `PlaceInv`: `OnePlace`, and reports only where a program counter allows
   them. With 3, it implies `ShutdownLeavesNothing`.
5. `ChanInv`: channels of dead threads are empty, and a Terminate is in a
   channel only while `stop` waits.
6. `FlushInv`: for each stage of `stop`, where the marked samples are; if one
   is still buffered after the final snapshot was sent, a snapshot is in front
   of whatever Terminate there is. By 5 it suffices to look at the head of the
   channel. It implies `StopFlushes`.
7. `FlagInv`: `running` is set while `stop` sends. With 2 and 5 it gives
   `HonoursContract`, one case per move of the contract: a main thread that
   ends with the flag set has died, and the flag is cleared only under a
   Terminate, which is there only while `stop` waits.

### `AgentRefinement`, from the same

`AgentImplementsLedger` (`Spec => ImplementsLedger`): the initial state maps to the
ledger's, and each step to a step of the ledger or to a stutter. The batches are the
session being pushed, those waiting in the session channel and the one a main thread
is about to send, in this order; `Kill` is no batch, and the mapping skips it (`Killed`).
`MainReports` is `Snapshot`, `ManagerPushes` is `HandOver`; `MainSendFails`, and
`ManagerTakesKill` with a session behind it, are `DropBatch`; `ShutdownBackend` and a
failed report that took the buffer are `Discard`; the others are not seen. `KillInv` is
what the proof needs besides 1 to 4: at most one `Kill` is in the channel, at most one
session is behind it, and then no main thread has another, since the backend is out of
its slot before `Kill` is sent. Without it `Kill` could drop two batches in one step,
which the ledger does not do.

### `FfiKitProofs`, from `FfiKitAssumption`

`FfiTypeCorrect` (`TypeOK`), `OnlyOneAgentRuns` (`OneAgentRuns`) and
`OnlyBehindKillIsLost` (`LostBehindKill`). `SenderInv` says that an agent not built
yet has no thread, that a loop thread that can still take a signal is the one `SENDER`
leads to, and that a main thread lives only while its loop thread runs or stops it; so
`run`, which finds `SENDER` empty, finds nothing alive. `QueueInv` says that a channel
that is still read is a suffix of what was accepted, without a `Kill` in what was taken,
and that a loop that does not read any more was sent one. What a step does to an agent
is taken from `AgentContract`, whose steps `ContractIsHonoured` proves of `Agent`.

### `BackendsProofs`, from `BackendsAssumption`

`TypesAreRight` (`TypeOK`), `SamplesAreReportedOnce` (`ReportedOnce`),
`OnlyTheWindowIsLost` (`LostOnlyInWindow`), `TagsKeepTheirScope` (`TagScopes`),
`ShutdownIsQuiet` (`QuietAfterShutdown`) and `ProfilesSayWhatWasRecorded`
(`ProfilesDecode`). Of stacks it is assumed that they are sequences of frames, which
are records of a name, a file name and a line. The lemmas say what the module's operators on
bags do to the number of copies of one trace: that the reports of a buffer together
are the buffer (`TogetherAgain`), and that a dump counts each entry once, whichever of
`Survivors` are left. The invariant:

- `CallInv`, `PprofInv`, `PyspyInv`: where a call can be, that what pprof-rs collects
  is gone with its guard, and that py-spy's thread has ended when `shutdown` returned.
- `CountInv`: `ReportedOnce` and `LostOnlyInWindow` with the middle of a call in them:
  between copy and clear what counts is the copy, which is contained in the buffer.
- `ReplacedInv`: of a count that was replaced, the trace is reported or buffered under the
  same tags. The entry that was left is of the same stack and thread, so the rules give
  it the same tags.
- `TagInv`: every trace that pprof-rs has tagged has its scope; one that is collected
  and was taken between calls has the rules of its thread unchanged, and when rules
  are about to change none such is collected. That is what the dump before a change is
  for, and that `DumpFails` leaves the call is what makes it inductive.
- `TraceInv`: what is in the buffer, and in its copy, is finitely many traces, and a
  trace has one tag at most of each key that `BackendConfig` asks for, besides those of
  the rules. Without it nothing says that the encoder's loops end, nor that two tags
  of one key are of values it can order.

### `AgentEncodeProofs`, from `AgentEncodeAssumption`

The assumption is that the values of thread tags are listed without repetition: their
strings are ordered. `EncodeDecodes` says of any finite set of reports of which no two
share a trace that `Decode(encode(reports, period))` gives each stack, with its frames
and the greatest value of each key, `period` times its count, summed over the traces
that a reader cannot tell apart. `ReportsOfTraces` shows that a backend's reports are
such a set, and with `TraceInv` that proves `ProfilesDecode`. The argument:

- `Closed`: the tables have no entry twice, and every id in a function, a location or a
  sample is in its table. What an id stands for stays the same as tables grow
  (`Keeps`), so a sample goes on saying what it said when it was added
  (`SampleStays`).
- `FramesAdded`: the ids of a sample's locations lead back to the frames of its stack,
  in order (`Spells`). It is where a location found without its line would show.
- `LabelsAdded`: after any number of tags, each key has the value of the last tag
  with it (`Labelled`). `TagsInOrder` shows that finitely many tags can be sorted and
  that `InOrder`, which chooses some order by key and value, is such a one; the tags of a
  trace and again those of its report then leave the greatest value of each key
  (`LatestIsGreatest`).
- `ReportsEncoded`: each trace becomes one sample, and each sample is of one trace
  (`Tells`), in whatever order the traces and reports were visited.
- `ToldDecodes`: the sums agree, since a sum over a finite set depends neither on the
  order of its elements nor on their names. The community modules define the sum by
  choosing an element of the set that is left; that definition is shown to have a
  value on every finite set, and to be the sum with any element taken first.

The four loops of the encoder, over reports, traces, frames and tags, have one lemma
(`LoopExists`): there is no least number of turns for which the loop has no result.
They are recursive functions for its sake.

### `SignalProfilerProofs`

From `SignalProfilerAssumption`: `TypesAreRight` (`TypeOK`, in which rings are within
their capacity), `RecordsStayWhole` (`RecordsAreWhole`), `TimerRunsReady`
(`ArmedIsReady`), `StateStaysSettled` (`StateIsSettled`), `SamplesHaveOnePlace`
(`OnePlace`), for any number of callers, threads, shards, attempts and signals.

- `StartInv`: one call at most is between `Start` and its end, and `lifecycle` says so;
  each step of `start` knows what the steps before it have set up, `mine` being
  `current` from step 10 on; the timer runs iff a call has returned Ok.
- `ShardInv`: a shard's lock is held by exactly the handler or the reader whose
  program counter says so, and between `Unwind` and `WriteRecord` the frame buffer has
  the sample of the handler that holds the lock. `RecordsAreWhole` is inductive only
  with it.
- `OnePlaceInv`: the set of places of a sample is a singleton once it was taken and
  empty before. Each step leaves the places of a sample as they are or replaces one by
  another (`Moves`), which is what is proved of each action.

From `PythonDiscoveryAssumption`, `DiscoveryStaysSound` (`DiscoveryIsSound`) and
`DiscoveryAlwaysFinds` (`DiscoveryFinds`). The assumption is what a loader does: images
do not overlap; a file that is still on disk is the one in memory, so what its symbols
name is mapped; and what `supported` means is said by what version and header are at
those addresses (`IsInterpreter`). Of a file that was replaced nothing is assumed.
Its lemmas about `discover` show, of any number of images, that a line of the map that is
taken is the first of its image, so that the computed load bias is the loader's; that
what is read at a symbol plus bias is that image's; that version and header then let
through exactly the supported builds; and that asyncio's address is its section's,
whichever of the three places it is found in. `FoundInv` carries it to `start`.

### `ProfileTablesProofs` and `PythonProfileProofs`

`WalkReturnsTheStack` (`UnwindSpec => []FramesAreTheStack`), from
`PythonUnwindAssumption`, which says of memory only that a field has a value or
cannot be read. `WalkInv`: some stack of frames has been taken so far, it is the top of
the real one, and `frame_ptr` is among the addresses that the links below it lead to
(`Beyond`, a least set, so that skipped frames need no induction), `prev_frame` being
the last taken or a skipped one that is not linked to itself.

`RecordedFramesAreTheStack` says the same of the walk as `on_sigprof` calls it, in
`PythonProfile`'s specification; `TypesAreRight` (`TypeOK`) and `NamesStayCurrent`
(`NamesAreCurrent`) are about the reader. `ResolvedInv` keeps what is resolved within
the record. Two invariants make `NamesAreCurrent` inductive. `HeapInv`: the strings of an
allocated code object are not freed. `ReadingInv`: while a name is read, if its code
object has been allocated since the last flush, the string is still the one its field
points at, and whole; so no free between two reads can be of that string. What each change
of the interpreter's leaves is one lemma (`ChangesKeep`). Strings are assumed to be
sequences of characters, each of at least one byte. What the theorem does not say is
what a name is whose code object was freed since the last flush: nothing in the code
decides it.

`ProfilesSayWhatWasSampled` (`ProfileDecodes`) is about the builder, whatever the depth
of the stacks and the number of samples. Its invariant `BuilderInv` has two parts.
`Indexed`: each table and its index agree in both directions, and every id that an entry
holds is in its table. That is what a `reset` that keeps an index would break.
`Counts`: the samples are the stacks of the window, each once, its value the period
times the number of its places in the window. `ProfileTablesProofs` shows that each step
of `add_sample` keeps `Indexed` and the meaning of every id given out before (`Keeps`);
that, since indices lead back, two ids of one frame are the same id and two samples of
one stack the same sample, so `add_sample` merges exactly equal stacks; and that what
`encode` makes of such a builder has only valid references and decodes to what it
counts. The induction over the frames of a stack (`AddsExists`, `FramesAdded`) takes the
least member of the set of numbers for which the claim fails, which needs no operator
parameter; `AddFrames` is a recursive function for its sake.

### Only model-checked

- Liveness and everything under fairness (`StopEnds`, `ShutdownEnds`,
  `SamplesArePushed`, `KillFreesSender`, `ShutdownReturns`, `RecordedIsSent`,
  `UnwindEnds`): the prover does not handle fairness, whose definition has `ENABLED`.
- `HandlerNeverWaits`, which is stated with `ENABLED`.
- The violations, which are counterexamples.

## 5. The plan, and what is not modelled

In order, most important first:

1. *(done)* the core: `Agent`, its ledger, its proofs.
2. *(done)* `FfiKit` over `AgentContract`, its proofs.
3. *(done)* `Backends` with `AgentEncode`.
4. *(done)* `SignalProfiler` with `PythonDiscovery`.
5. *(done)* `PythonUnwind`, `ProfileTables`, `PythonProfile`.
6. *(done)* proofs of these, and of the refinement of `SampleLedger`.
7. *(done)* what the agent's encoder computes (`AgentEncodeProofs`).

Not modelled, and why:

- The ranges of sessions as the server sees them: two snapshots may be stamped
  with one range, or a range earlier than a final one. `Agent` computes the
  ranges; no document says what they should be to a server.
- The macOS timer (`kqueue.rs`) and the sleeping one, which differ from `epoll.rs` in
  how they wait; a wait that EINTR interrupts and that starts again in full; the
  dead listeners that each restart leaves in the timer's list.
- The fallback of the crash handlers to those the host had before, whose addresses
  are stored after the handler is installed: it takes a host with a handler of its
  own that faults on purpose, and nothing here crashes outside a read. `fork`.
- The Ruby entry points, which are the Python ones without the signal profiler; the
  C API of the signal profiler, which converts strings and calls `start`.
- mmap and sets of several eventfds in notlibc, which the profiler does not use;
  the internals of the pprof, py-spy, rbspy and bbqueue crates, which appear as
  their callers use them.
- A sample rate of 0, by which the agent's encoder would divide
  (`src/encode/pprof.rs:115`): `Period` is positive by assumption.
- Profile times, wire formats, generated protobuf code, HTTP and compression,
  the command line of examples, the wording of logs, and `coredump`, which reads
  files for tests.
