--------------------------- MODULE SignalProfiler ---------------------------
(***************************************************************************)
(* The in-process CPython profiler, src/kit/pysignalprof: start(), the     *)
(* SIGPROF handler, which may run in every Python thread at once, and the  *)
(* reader thread.                                                          *)
(*                                                                         *)
(* Each attempt of start() that gets far enough publishes a HandlerState   *)
(* that is never freed; here it is its number.  A state has shards, each   *)
(* with a lock, a frame buffer and a ring of records, an eventfd and a     *)
(* reader thread of its own.                                               *)
(***************************************************************************)
EXTENDS Bags, FiniteSets, FiniteSetsExt, Integers, PythonDiscovery, Sequences

CONSTANTS
  Callers,       \* threads that call start()
  Threads,       \* Python threads, by their tid
  NumShards,     \* shards of a state
  RingCapacity,  \* records that fit in a ring
  Interval,      \* DEFAULT_NOTIFY_INTERVAL
  MaxStarts,     \* bound: calls of start()
  MaxSamples     \* bound: signals that find a Python thread

ASSUME SignalProfilerAssumption ==
  /\ Threads \subseteq Nat
  /\ NumShards \in Nat \ {0} /\ RingCapacity \in Nat \ {0} /\ Interval \in Nat \ {0}
  /\ MaxStarts \in Nat /\ MaxSamples \in Nat

VARIABLES
  lifecycle,   \* LIFECYCLE: the compare-and-exchange of start() succeeded
  kindasafe,   \* kindasafe_init::INIT_LOCK: "none", "ok" or "failed", for ever
  caller,      \* of each caller, the step of start() it is at
  made,        \* states that were published
  found,       \* of each caller, the process it has looked at and what it found
  mine,        \* of each caller, the state its call has published, or 0
  current,     \* HANDLER_STATE, 0 when null
  installed,   \* on_sigprof is the action of SIGPROF
  armed,       \* the ITIMER_PROF timer runs
  reader,      \* of each state, where its reader thread is
  at,          \* of each state, the shard its reader is at
  lock,        \* of each state and shard, what holds the lock
  frames,      \* of each state and shard, the sample whose stack is in frame_buffer
  ring,        \* of each state and shard, the records
  counter,     \* of each state, samples_since_notify, modulo Interval
  eventfd,     \* of each state, the eventfd is readable
  due,         \* of each state, its reader has waited until the next flush
  builder,     \* of each state, the samples in the reader's ProfileBuilder
  handler,     \* of each thread, where its signal handler is
  \* History
  starts, taken,
  oks,         \* states whose start() returned Ok
  sent,        \* samples that were sent to the server
  lost,        \* samples that were dropped, each with the reason
  news         \* of each state, there was a notification since the last wake-up

startVars  == <<lifecycle, kindasafe, caller, found, made, mine, current, installed, armed, starts, oks>>
readerVars == <<reader, at, due, builder, sent>>
shardVars  == <<lock, frames, ring>>
notifyVars == <<counter, eventfd, news>>
vars == <<startVars, readerVars, shardVars, notifyVars, handler, taken, lost>>

States == 1..MaxStarts
Shards == 0..(NumShards - 1)
NoSample == [tid |-> -1, n |-> 0]
Outside == [pc |-> "out", state |-> 0, attempt |-> 0, shard |-> 0, sample |-> NoSample]

Init ==
  /\ lifecycle = "uninitialized" /\ kindasafe = "none"
  /\ caller = [c \in Callers |-> "out"]
  /\ found = [c \in Callers |-> <<>>]
  /\ made = 0 /\ mine = [c \in Callers |-> 0] /\ oks = {}
  /\ current = 0 /\ installed = FALSE /\ armed = FALSE
  /\ reader = [k \in States |-> "none"] /\ at = [k \in States |-> 0]
  /\ lock = [k \in States |-> [i \in Shards |-> "free"]]
  /\ frames = [k \in States |-> [i \in Shards |-> NoSample]]
  /\ ring = [k \in States |-> [i \in Shards |-> <<>>]]
  /\ counter = [k \in States |-> 0]
  /\ eventfd = [k \in States |-> FALSE] /\ due = [k \in States |-> FALSE]
  /\ builder = [k \in States |-> EmptyBag]
  /\ handler = [t \in Threads |-> Outside]
  /\ starts = 0 /\ taken = 0 /\ sent = EmptyBag /\ lost = {}
  /\ news = [k \in States |-> FALSE]

-----------------------------------------------------------------------------
(* start()                                                                 *)

Goes(c, from, to) == caller[c] = from /\ caller' = [caller EXCEPT ![c] = to]

\* An error of init_sequence(): the call returns its code, and a later call may try again.
Fails(c, from) ==
  /\ Goes(c, from, "out")
  /\ lifecycle' = "uninitialized"
  /\ mine' = [mine EXCEPT ![c] = 0]

\* (mutated form) the state is read first and written later, and another call may be between.
StartLoads(c) ==
  /\ starts < MaxStarts /\ starts' = starts + 1
  /\ caller[c] = "out"
  /\ IF lifecycle = "running" /\ \A d \in Callers : caller[d] = "out"
     THEN UNCHANGED caller
     ELSE Goes(c, "out", "init")
  /\ lifecycle' = "running"
  /\ UNCHANGED <<found, kindasafe, made, mine, current, installed, armed, oks, readerVars, shardVars,
                 notifyVars, handler, taken, lost>>

\* The compare-and-exchange; a call that fails it returns AlreadyRunning.
Start(c) ==
  /\ starts < MaxStarts /\ starts' = starts + 1
  /\ caller[c] = "out"
  /\ IF lifecycle = "running" THEN UNCHANGED caller ELSE Goes(c, "out", "init")
  /\ lifecycle' = "running"
  /\ UNCHANGED <<found, kindasafe, made, mine, current, installed, armed, oks, readerVars, shardVars,
                 notifyVars, handler, taken, lost>>

\* Step 1.  init() runs once, whatever it returned.
InitKindasafe(c) ==
  /\ kindasafe' \in IF kindasafe = "none" THEN {"ok", "failed"} ELSE {kindasafe}
  /\ IF kindasafe' = "ok"
     THEN Goes(c, "init", "discover") /\ UNCHANGED <<lifecycle, mine>>
     ELSE Fails(c, "init")
  /\ UNCHANGED <<found, made, current, installed, armed, starts, oks, readerVars, shardVars, notifyVars,
                 handler, taken, lost>>

\* Steps 2 to 5, in one of Processes.
Discover(c) ==
  /\ Goes(c, "discover", "allocate")
  /\ \E images \in Processes :
       found' = [found EXCEPT ![c] = <<images, discover(Loaded(images))>>]
  /\ UNCHANGED <<lifecycle, kindasafe, made, mine, current, installed, armed, starts, oks,
                 readerVars, shardVars, notifyVars, handler, taken, lost>>

\* An error of these steps, or steps 7 to 9: the rings and the eventfd are made, if they can be.
Allocate(c) ==
  /\ \/ /\ Goes(c, "allocate", "publish") /\ UNCHANGED <<lifecycle, mine>>
        /\ found[c][2].error = "none"
     \/ Fails(c, "allocate")
  /\ found' = [found EXCEPT ![c] = <<>>]
  /\ UNCHANGED <<kindasafe, made, current, installed, armed, starts, oks, readerVars, shardVars,
                 notifyVars, handler, taken, lost>>

\* Step 10.
Publish(c) ==
  /\ Goes(c, "publish", "spawn")
  /\ made' = made + 1
  /\ current' = made' /\ mine' = [mine EXCEPT ![c] = made']
  /\ UNCHANGED <<found, lifecycle, kindasafe, installed, armed, starts, oks, readerVars, shardVars,
                 notifyVars, handler, taken, lost>>

\* Step 11.
SpawnReader(c) ==
  /\ \/ /\ Goes(c, "spawn", "register")
        /\ reader' = [reader EXCEPT ![mine[c]] = "setup"]
        /\ UNCHANGED <<lifecycle, mine>>
     \/ Fails(c, "spawn") /\ UNCHANGED reader
  /\ UNCHANGED <<found, kindasafe, made, current, installed, armed, starts, oks, at, due, builder, sent,
                 shardVars, notifyVars, handler, taken, lost>>

\* Step 12.
RegisterHandler(c) ==
  /\ \/ /\ Goes(c, "register", "sanity")
        /\ installed' = TRUE
        /\ UNCHANGED <<lifecycle, mine>>
     \/ Fails(c, "register") /\ UNCHANGED installed
  /\ UNCHANGED <<found, kindasafe, made, current, armed, starts, oks, readerVars, shardVars, notifyVars,
                 handler, taken, lost>>

\* (mutated form) the timer is started before the handler is checked.
SanityCheckLast(c) ==
  /\ armed' = TRUE
  /\ \/ Goes(c, "sanity", "timer") /\ UNCHANGED <<lifecycle, mine>>
     \/ Fails(c, "sanity")
  /\ UNCHANGED <<found, kindasafe, made, current, installed, starts, oks, readerVars, shardVars,
                 notifyVars, handler, taken, lost>>

\* Step 12b.
SanityCheck(c) ==
  /\ \/ Goes(c, "sanity", "timer") /\ UNCHANGED <<lifecycle, mine>>
     \/ Fails(c, "sanity")
  /\ UNCHANGED <<found, kindasafe, made, current, installed, armed, starts, oks, readerVars, shardVars,
                 notifyVars, handler, taken, lost>>

\* Step 13.
StartTimer(c) ==
  /\ \/ /\ Goes(c, "timer", "out")
        /\ armed' = TRUE
        /\ oks' = oks \union {mine[c]}
        /\ mine' = [mine EXCEPT ![c] = 0]
        /\ UNCHANGED lifecycle
     \/ Fails(c, "timer") /\ UNCHANGED <<armed, oks>>
  /\ UNCHANGED <<found, kindasafe, made, current, installed, starts, readerVars, shardVars,
                 notifyVars, handler, taken, lost>>

-----------------------------------------------------------------------------
(* on_sigprof()                                                            *)

Handler(t, from, to) == handler[t].pc = from /\ handler' = [handler EXCEPT ![t].pc = to]
Unlock(k, i) == lock' = [lock EXCEPT ![k][i] = "free"]
Leaves(t, from) ==
  /\ handler[t].pc = from
  /\ handler' = [handler EXCEPT ![t] = Outside]
Loses(s, why) == lost' = lost \union {<<s, why>>}

\* A signal arrives in a thread that runs Python; in any other there is no thread state
\* and the handler returns.  SIGPROF is blocked while the thread handles one.
Signal(t) ==
  /\ armed /\ installed /\ current # 0
  /\ handler[t].pc = "out"
  /\ taken < MaxSamples /\ taken' = taken + 1
  /\ handler' = [handler EXCEPT ![t] = [pc |-> "lock", state |-> current, attempt |-> 0,
                                        shard |-> t % NumShards,
                                        sample |-> [tid |-> t, n |-> taken + 1]]]
  /\ UNCHANGED <<startVars, readerVars, shardVars, notifyVars, lost>>

\* (mutated form) the last try waits for the shard.
WaitLock(t) ==
  /\ handler[t].pc = "lock"
  /\ LET h == handler[t]
         next == (h.shard + 1) % NumShards
     IN  \/ /\ lock[h.state][h.shard] = "free"
            /\ lock' = [lock EXCEPT ![h.state][h.shard] = "handler"]
            /\ handler' = [handler EXCEPT ![t].pc = "unwind"]
         \/ /\ lock[h.state][h.shard] # "free" /\ h.attempt < 2
            /\ handler' = [handler EXCEPT ![t].attempt = @ + 1, ![t].shard = next]
            /\ UNCHANGED lock
  /\ UNCHANGED <<startVars, readerVars, frames, ring, notifyVars, taken, lost>>

\* (mutated form) the last try does without the lock.
TakeAnyway(t) ==
  /\ handler[t].pc = "lock"
  /\ LET h == handler[t]
         next == (h.shard + 1) % NumShards
     IN  \/ /\ lock[h.state][h.shard] = "free" \/ h.attempt = 2
            /\ lock' = [lock EXCEPT ![h.state][h.shard] = "handler"]
            /\ handler' = [handler EXCEPT ![t].pc = "unwind"]
         \/ /\ lock[h.state][h.shard] # "free" /\ h.attempt < 2
            /\ handler' = [handler EXCEPT ![t].attempt = @ + 1, ![t].shard = next]
            /\ UNCHANGED lock
  /\ UNCHANGED <<startVars, readerVars, frames, ring, notifyVars, taken, lost>>

\* Three shards are tried, from the one of the thread's id on; then the sample is dropped.
TryLock(t) ==
  /\ handler[t].pc = "lock"
  /\ LET h == handler[t]
         next == (h.shard + 1) % NumShards
     IN  \/ /\ lock[h.state][h.shard] = "free"
            /\ lock' = [lock EXCEPT ![h.state][h.shard] = "handler"]
            /\ handler' = [handler EXCEPT ![t].pc = "unwind"]
            /\ UNCHANGED lost
         \/ /\ lock[h.state][h.shard] # "free" /\ h.attempt < 2
            /\ handler' = [handler EXCEPT ![t].attempt = @ + 1, ![t].shard = next]
            /\ UNCHANGED <<lock, lost>>
         \/ /\ lock[h.state][h.shard] # "free" /\ h.attempt = 2
            /\ Leaves(t, "lock")
            /\ Loses(h.sample, "contention")
            /\ UNCHANGED lock
  /\ UNCHANGED <<startVars, readerVars, frames, ring, notifyVars, taken>>

\* The stack is written to the shard's frame buffer; a stack without a frame is no sample.
Unwind(t) ==
  /\ LET h == handler[t]
     IN  \/ /\ Handler(t, "unwind", "write")
            /\ frames' = [frames EXCEPT ![h.state][h.shard] = h.sample]
            /\ UNCHANGED <<lock, lost>>
         \/ /\ Leaves(t, "unwind")
            /\ Unlock(h.state, h.shard)
            /\ Loses(h.sample, "no frames")
            /\ UNCHANGED frames
  /\ UNCHANGED <<startVars, readerVars, ring, notifyVars, taken>>

\* (mutated form) the ring has no end.
WriteUnbounded(t) ==
  /\ LET h == handler[t]
         record == [tid |-> t, sample |-> frames[h.state][h.shard]]
     IN  /\ Handler(t, "write", "notify")
         /\ ring' = [ring EXCEPT ![h.state][h.shard] = Append(@, record)]
  /\ UNCHANGED <<startVars, readerVars, lock, frames, notifyVars, taken, lost>>

\* sig_ring::write: a record of the thread id and the buffer's frames, if it fits.
WriteRecord(t) ==
  /\ LET h == handler[t]
         record == [tid |-> t, sample |-> frames[h.state][h.shard]]
     IN  /\ Handler(t, "write", "notify")
         /\ IF Len(ring[h.state][h.shard]) < RingCapacity
            THEN ring' = [ring EXCEPT ![h.state][h.shard] = Append(@, record)] /\ UNCHANGED lost
            ELSE UNCHANGED ring /\ Loses(h.sample, "full")
  /\ UNCHANGED <<startVars, readerVars, lock, frames, notifyVars, taken>>

\* Every Interval-th sample, the first one included, whether it was written or not.
Notify(t) ==
  /\ Leaves(t, "notify")
  /\ LET k == handler[t].state
     IN  /\ counter' = [counter EXCEPT ![k] = (@ + 1) % Interval]
         /\ eventfd' = [eventfd EXCEPT ![k] = @ \/ counter[k] = 0]
         /\ news' = [news EXCEPT ![k] = @ \/ counter[k] = 0]
         /\ Unlock(k, handler[t].shard)
  /\ UNCHANGED <<startVars, readerVars, frames, ring, taken, lost>>

-----------------------------------------------------------------------------
(* reader_thread()                                                         *)

Reads(k, from, to) == reader[k] = from /\ reader' = [reader EXCEPT ![k] = to]

\* The epoll set is made, or the thread ends and nobody knows.
ReaderSetsUp(k) ==
  /\ \E to \in {"wait", "gone"} : Reads(k, "setup", to)
  /\ UNCHANGED <<startVars, at, due, builder, sent, shardVars, notifyVars, handler, taken, lost>>

\* 15 seconds since the last flush; the timeout of the wait is what is left of them.
Elapses(k) ==
  /\ reader[k] \notin {"none", "setup", "gone"} /\ ~ due[k]
  /\ due' = [due EXCEPT ![k] = TRUE]
  /\ UNCHANGED <<startVars, reader, at, builder, sent, shardVars, notifyVars, handler, taken,
                 lost>>

\* wait() returns: the eventfd is readable, and stays so, for nothing reads it, or it is time.
ReaderWakes(k) ==
  /\ eventfd[k] \/ due[k]
  /\ Reads(k, "wait", "lock")
  /\ news' = [news EXCEPT ![k] = FALSE]
  /\ UNCHANGED <<startVars, at, due, builder, sent, shardVars, counter, eventfd, handler, taken,
                 lost>>

ReaderLocks(k) ==
  /\ Reads(k, "lock", "drain")
  /\ lock[k][at[k]] = "free"
  /\ lock' = [lock EXCEPT ![k][at[k]] = "reader"]
  /\ UNCHANGED <<startVars, at, due, builder, sent, frames, ring, notifyVars, handler, taken,
                 lost>>

Samples(records) == [s \in {r.sample : r \in {records[i] : i \in DOMAIN records}} |->
                       Cardinality({i \in DOMAIN records : records[i].sample = s})]

\* (mutated form) the last shard is left out.
ReaderDrainsButLast(k) ==
  /\ reader[k] = "drain"
  /\ builder' = [builder EXCEPT ![k] = @ (+) Samples(ring[k][at[k]])]
  /\ ring' = [ring EXCEPT ![k][at[k]] = <<>>]
  /\ Unlock(k, at[k])
  /\ LET more == at[k] + 2 < NumShards
     IN  /\ at' = [at EXCEPT ![k] = IF more THEN @ + 1 ELSE 0]
         /\ reader' = [reader EXCEPT ![k] = IF more THEN "lock" ELSE "flush"]
  /\ UNCHANGED <<startVars, due, sent, frames, notifyVars, handler, taken, lost>>

\* Every record goes to the builder and is released; the guard, and the next shard.
ReaderDrains(k) ==
  /\ reader[k] = "drain"
  /\ builder' = [builder EXCEPT ![k] = @ (+) Samples(ring[k][at[k]])]
  /\ ring' = [ring EXCEPT ![k][at[k]] = <<>>]
  /\ Unlock(k, at[k])
  /\ LET more == at[k] + 1 < NumShards
     IN  /\ at' = [at EXCEPT ![k] = IF more THEN @ + 1 ELSE 0]
         /\ reader' = [reader EXCEPT ![k] = IF more THEN "lock" ELSE "flush"]
  /\ UNCHANGED <<startVars, due, sent, frames, notifyVars, handler, taken, lost>>

ReaderGoesOn(k) ==
  /\ Reads(k, "flush", "wait") /\ ~ due[k]
  /\ UNCHANGED <<startVars, at, due, builder, sent, shardVars, notifyVars, handler, taken, lost>>

\* (mutated form) a profile that was sent is not reset.
FlushKeeps(k) ==
  /\ Reads(k, "flush", "wait") /\ due[k]
  /\ due' = [due EXCEPT ![k] = FALSE]
  /\ \/ sent' = sent (+) builder[k] /\ UNCHANGED <<builder, lost>>
     \/ /\ builder' = [builder EXCEPT ![k] = EmptyBag]
        /\ lost' = lost \union {<<s, "not sent">> : s \in BagToSet(builder[k])}
        /\ UNCHANGED sent
  /\ UNCHANGED <<startVars, at, shardVars, notifyVars, handler, taken>>

\* pyroscope_ingest::send, once: every sample of the profile, or none.
Send(k) ==
  \/ sent' = sent (+) builder[k] /\ UNCHANGED lost
  \/ lost' = lost \union {<<s, "not sent">> : s \in BagToSet(builder[k])} /\ UNCHANGED sent

\* flush_pprof(): what the builder has is sent, or lost when there is no server or sending
\* fails, and the builder is reset.
Flush(k) ==
  /\ Reads(k, "flush", "wait") /\ due[k]
  /\ due' = [due EXCEPT ![k] = FALSE]
  /\ builder' = [builder EXCEPT ![k] = EmptyBag]
  /\ Send(k)
  /\ UNCHANGED <<startVars, at, shardVars, notifyVars, handler, taken>>

-----------------------------------------------------------------------------
StartStep(c) == InitKindasafe(c) \/ Discover(c) \/ Allocate(c) \/ Publish(c) \/ SpawnReader(c)
                  \/ RegisterHandler(c) \/ SanityCheck(c) \/ StartTimer(c)
HandlerStep(t) == TryLock(t) \/ Unwind(t) \/ WriteRecord(t) \/ Notify(t)
ReaderStep(k) == ReaderSetsUp(k) \/ ReaderWakes(k) \/ ReaderLocks(k) \/ ReaderDrains(k)
                   \/ ReaderGoesOn(k) \/ Flush(k)

Next == \/ \E c \in Callers : Start(c) \/ StartStep(c)
        \/ \E t \in Threads : Signal(t) \/ HandlerStep(t)
        \/ \E k \in States : ReaderStep(k) \/ Elapses(k)

\* Threads go on, and so does time.
Fairness == /\ \A t \in Threads : WF_vars(HandlerStep(t))
            /\ \A k \in States : WF_vars(ReaderStep(k)) /\ WF_vars(Elapses(k))

Spec == Init /\ [][Next]_vars /\ Fairness

-----------------------------------------------------------------------------
AllSamples == [tid : Threads, n : 1..MaxSamples]
AllRecords == [tid : Threads, sample : AllSamples]
InRings    == UNION {{ring[k][i][j] : j \in DOMAIN ring[k][i]} : k \in States, i \in Shards}

Steps == {"out", "init", "discover", "allocate", "publish", "spawn", "register", "sanity", "timer"}
Handlers == [pc : {"out", "lock", "unwind", "write", "notify"}, state : 0..MaxStarts,
             attempt : 0..2, shard : Shards, sample : AllSamples \union {NoSample}]
Losses == AllSamples \X {"contention", "no frames", "full", "not sent"}
IsABagOfSamples(b) == IsABag(b) /\ BagToSet(b) \subseteq AllSamples

StartTypes ==
  /\ lifecycle \in {"uninitialized", "running"} /\ kindasafe \in {"none", "ok", "failed"}
  /\ caller \in [Callers -> Steps] /\ DOMAIN found = Callers
  /\ made \in 0..MaxStarts /\ mine \in [Callers -> 0..made] /\ current \in 0..made
  /\ installed \in BOOLEAN /\ armed \in BOOLEAN
  /\ starts \in 0..MaxStarts /\ oks \subseteq 1..made
ReaderTypes ==
  /\ reader \in [States -> {"none", "setup", "wait", "lock", "drain", "flush", "gone"}]
  /\ at \in [States -> Shards] /\ due \in [States -> BOOLEAN]
  /\ DOMAIN builder = States /\ \A k \in States : IsABagOfSamples(builder[k])
  /\ IsABagOfSamples(sent)
ShardTypes ==
  /\ lock \in [States -> [Shards -> {"free", "reader", "handler"}]]
  /\ frames \in [States -> [Shards -> AllSamples \union {NoSample}]]
  /\ ring \in [States -> [Shards -> Seq(AllRecords)]]
  /\ \A k \in States, i \in Shards : Len(ring[k][i]) <= RingCapacity
NotifyTypes ==
  /\ counter \in [States -> 0..(Interval - 1)]
  /\ eventfd \in [States -> BOOLEAN] /\ news \in [States -> BOOLEAN]

\* The variables have their types, and no ring holds more than fits.
TypeOK ==
  /\ StartTypes /\ ReaderTypes /\ ShardTypes /\ NotifyTypes
  /\ handler \in [Threads -> Handlers] /\ taken \in 0..MaxSamples
  /\ lost \subseteq Losses

\* A record names the thread its frames are from: handlers of several threads and the
\* reader share a shard's frame buffer and ring, and its lock keeps them apart.
RecordsAreWhole == \A r \in InRings : r.tid = r.sample.tid

\* The places of sample n, each of a kind and told apart by three more values: the threads
\* whose handler has not written it, the records, the copies in each builder and in what was
\* sent, the reasons it was dropped for.
HandlerPlaces(n) ==
  {<<"handler", t, 0, 0>> : t \in {u \in Threads : handler[u].sample.n = n /\ handler[u].pc # "notify"}}
RingPlaces(n) ==
  UNION {{<<"ring", k, i, j>> : j \in {x \in DOMAIN ring[k][i] : ring[k][i][x].sample.n = n}} :
           k \in States, i \in Shards}
BagPlaces(kind, k, b, n) ==
  UNION {{<<kind, k, s, copy>> : copy \in 1..b[s]} : s \in {x \in BagToSet(b) : x.n = n}}
BuilderPlaces(n) == UNION {BagPlaces("builder", k, builder[k], n) : k \in States}
LostPlaces(n) == {<<"lost", 0, l[1], l[2]>> : l \in {x \in lost : x[1].n = n}}
Places(n) ==
  HandlerPlaces(n) \union RingPlaces(n) \union BuilderPlaces(n)
    \union BagPlaces("sent", 0, sent, n) \union LostPlaces(n)

\* A sample is at one place from the signal on: in the handler, in one record, in one builder,
\* sent or dropped; none is drained, sent or counted twice, and none disappears.
OnePlace == \A n \in 1..taken : Cardinality(Places(n)) = 1

\* The timer runs only when a call of start() has returned Ok, only one ever does, and then
\* the published state is that call's, with a reader thread and working crash recovery.
ArmedIsReady ==
  /\ armed <=> oks # {}
  /\ armed => /\ oks = {current} /\ Cardinality(oks) = 1
              /\ installed /\ kindasafe = "ok" /\ reader[current] # "none"

\* From then on the state that handlers load and the reader serves stays the same.
StateIsSettled == [][armed => UNCHANGED <<current, installed, armed>>]_vars

\* The handler never waits for another thread: it has a step to do until it returns.
HandlerNeverWaits == \A t \in Threads : handler[t].pc # "out" => ENABLED HandlerStep(t)

\* A sample that was written to a ring is sent or fails to be, as long as the reader thread
\* got its epoll set: whichever shard it is in and however few samples there are.
Recorded(k, n) == \E i \in Shards : \E j \in DOMAIN ring[k][i] : ring[k][i][j].sample.n = n
Settled(n) == \/ \E s \in BagToSet(sent) : s.n = n
              \/ \E l \in lost : l[1].n = n
RecordedIsSent ==
  \A k \in States, n \in 1..MaxSamples :
    Recorded(k, n) /\ reader[k] # "gone" ~> Settled(n) \/ reader[k] = "gone"

\* "Block until at least one registered `EventFd` is notified": the reader's wait() returns
\* because the time is over, or because a handler has notified since it last returned.
WaitsForNotification ==
  [][\A k \in States : reader[k] = "wait" /\ reader'[k] = "lock" => due[k] \/ news[k]]_vars

\* What start() goes on with is right: each address is where the loader has put that symbol of
\* an interpreter that is supported, and asyncio's offsets, if any, are those of the module.
DiscoveryIsSound ==
  \A c \in Callers : found[c] # <<>> => IsRight(found[c][1], found[c][2])

\* An interpreter in a shared library is found behind any launcher, one in the executable
\* when no such library is loaded, at whatever address it was linked and loaded.
DiscoveryFinds ==
  \A c \in Callers : found[c] # <<>> => (HasOneInterpreter(found[c][1]) => found[c][2].error = "none")
=============================================================================
