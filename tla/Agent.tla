------------------------------- MODULE Agent -------------------------------
(***************************************************************************)
(* One PyroscopeAgent, from PyroscopeAgentBuilder::build to shutdown or to *)
(* its drop: src/pyroscope.rs, src/timer/epoll.rs, src/session.rs and      *)
(* src/backend/backend.rs.                                                 *)
(*                                                                         *)
(* Four kinds of threads share it:                                         *)
(*   - the caller, who owns the agent by value: build, start, stop,        *)
(*     shutdown, or drops it;                                              *)
(*   - the timer thread, which every 10 s sends NextSnapshot to every      *)
(*     registered listener;                                                *)
(*   - one main thread per start(), which turns a NextSnapshot into a      *)
(*     report of the backend and a Session, until it takes a Terminate;    *)
(*   - the session manager, which pushes Sessions to the server.           *)
(* The backend is seen through its trait: a buffer of samples that report  *)
(* returns and empties under the backend mutex.                            *)
(*                                                                         *)
(* Mutexes are held for one action here; where the code releases one and   *)
(* takes it again, the model has two actions.  Every step between two      *)
(* channel or lock operations is an action of its own.                     *)
(***************************************************************************)
EXTENDS TimeRange, AgentContract, Sequences

CONSTANTS
  Samples,      \* the samples the profiler can ever take
  SessionCap,   \* capacity of the session channel: sync_channel(10)
  StartTime,    \* the clock when the process starts
  MaxNow,       \* bound: the clock stands still here, its timer goes on
  MaxRuns,      \* bound: calls of start()
  MaxBacklog,   \* bound: unread signals of a main thread before time passes
  MaxFailures   \* bound: failures of the timer thread and of report()

ASSUME AgentAssumption ==
  /\ SessionCap \in Nat \ {0}
  /\ StartTime \in Nat /\ StartTime >= RangeSecs
  /\ MaxNow \in Nat /\ MaxRuns \in Nat /\ MaxBacklog \in Nat /\ MaxFailures \in Nat

Runs == 1..MaxRuns

VARIABLES
  now,          \* CLOCK_REALTIME
  \* The caller, and the agent it owns
  caller,       \* what it is doing with the agent
  run,          \* number of start() calls so far; a run's number is its channel's
  tx,           \* PyroscopeAgent.tx: the channel it can send to, 0 for None
  stopUntil,    \* the argument of stop()'s final NextSnapshot
  running,      \* PyroscopeAgent.running: the flag under the condition variable
  \* The timer
  timer,        \* where its thread is
  expired,      \* the timerfd is readable
  stamp,        \* the snapshot time it is about to send
  txs,          \* Timer.txs: the channels registered; 0 is the dummy
  \* The main thread of each run
  main,         \* where it is
  chan,         \* its channel, oldest signal first
  until,        \* the NextSnapshot it handles
  report,       \* the report it is about to send
  \* The session manager
  manager,      \* where its thread is
  sessions,     \* its bounded channel
  hand,         \* the reports of the session it is pushing
  \* The backend, external beyond its trait
  slot,         \* BackendImpl.backend is Some
  sampling,     \* the profiler takes samples
  buffer,       \* samples taken and not reported
  \* History
  fate,         \* what became of each sample
  mark,         \* the samples in flight when stop() was called
  shutdownFrom, \* the state in which shutdown() was called
  failures      \* failures so far

callerVars  == <<caller, run, tx, stopUntil>>
timerVars   == <<timer, expired, stamp, txs>>
mainVars    == <<main, chan, until, report>>
managerVars == <<manager, sessions, hand>>
backendVars == <<slot, sampling, buffer>>
history     == <<fate, mark, shutdownFrom, failures>>
vars == <<now, callerVars, running, timerVars, mainVars, managerVars, backendVars, history>>

-----------------------------------------------------------------------------
\* TimerSignal of timer/mod.rs; a Terminate has no time.
NextSnapshot(t) == [signal |-> "NextSnapshot", until |-> t]
Terminate       == [signal |-> "Terminate", until |-> 0]
TimerSignal     == [signal : {"NextSnapshot", "Terminate"}, until : Nat]

\* SessionSignal of session.rs; Session(t, S) is what Session::new(t, _, S) returns.
Session(t, S) == [signal |-> "Session", range |-> SessionRange(t), reports |-> S]
Kill          == [signal |-> "Kill", range |-> [from |-> 0, until |-> 0], reports |-> {}]
SessionSignal == [signal : {"Session", "Kill"}, range : [from : Int, until : Int],
                  reports : SUBSET Samples]
IsKill(m)     == m.signal = "Kill"

Alive(r)  == main[r] \in {"recv", "report", "send"}
Queued    == UNION {sessions[i].reports : i \in DOMAIN sessions}
Live      == {s \in Samples : fate[s] = "live"}
Settle(S, how) == [s \in Samples |-> IF s \in S THEN how ELSE fate[s]]

\* A Sender of channel r exists: the agent's own, or the timer's clone.  The list of
\* clones is shared by the Timer and its thread.
SenderAlive(r) == \/ tx = r
                  \/ r \in txs /\ (timer # "exited" \/ caller # "gone")

Init ==
  /\ now = StartTime
  /\ caller = "builder" /\ run = 0 /\ tx = 0 /\ stopUntil = 0
  /\ running = FALSE
  /\ timer = "none" /\ expired = FALSE /\ stamp = 0 /\ txs = {}
  /\ main = [r \in Runs |-> "none"]
  /\ chan = [r \in Runs |-> <<>>]
  /\ until = [r \in Runs |-> 0]
  /\ report = [r \in Runs |-> {}]
  /\ manager = "none" /\ sessions = <<>> /\ hand = {}
  /\ slot = FALSE /\ sampling = FALSE /\ buffer = {}
  /\ fate = [s \in Samples |-> "unrecorded"]
  /\ mark = {} /\ shutdownFrom = "none" /\ failures = 0

-----------------------------------------------------------------------------
(* The caller: build, start, drop.                                         *)

\* build(): the backend is initialized (and samples from then on), the timer armed and
\* its thread and the session manager's started.
Build ==
  /\ caller = "builder"
  /\ caller' = "ready"
  /\ slot' = TRUE /\ sampling' = TRUE
  /\ timer' = "check" /\ txs' = {0}
  /\ manager' = "recv"
  /\ UNCHANGED <<now, run, tx, stopUntil, running, expired, stamp, mainVars,
                 sessions, hand, buffer, history>>

\* build() returns Err: the backend may have been initialized before Timer::initialize
\* failed, and it is dropped without its shutdown.
BuildFails ==
  /\ caller = "builder"
  /\ caller' = "gone"
  /\ sampling' \in BOOLEAN
  /\ UNCHANGED <<now, run, tx, stopUntil, running, timerVars, mainVars, managerVars,
                 slot, buffer, history>>

\* (mutated form) start() forgets attach_listener.
StartUnattached ==
  /\ caller = "ready"
  /\ run < MaxRuns
  /\ run' = run + 1
  /\ running' = TRUE
  /\ tx' = run + 1
  /\ main' = [main EXCEPT ![run + 1] = "recv"]
  /\ caller' = "running"
  /\ mark' = {}
  /\ UNCHANGED <<now, stopUntil, timerVars, chan, until, report,
                 managerVars, backendVars, fate, shutdownFrom, failures>>

\* start(): a new channel, registered with the timer beside the earlier ones, and a new
\* main thread.  The backend is not told.
Start ==
  /\ caller = "ready"
  /\ run < MaxRuns
  /\ run' = run + 1
  /\ running' = TRUE
  /\ txs' = txs \union {run + 1}
  /\ tx' = run + 1
  /\ main' = [main EXCEPT ![run + 1] = "recv"]
  /\ caller' = "running"
  /\ mark' = {}
  /\ UNCHANGED <<now, stopUntil, timer, expired, stamp, chan, until, report,
                 managerVars, backendVars, fate, shutdownFrom, failures>>

\* The agent is dropped without shutdown(): its tx goes, its thread handles are
\* detached.  The backend goes with the last reference to it, which a live main thread
\* holds; its profiler may outlive it (pyspy.rs keeps its thread) or not (pprof.rs).
AgentDropped ==
  /\ caller' = "gone"
  /\ tx' = 0
  /\ IF \E r \in Runs : Alive(r) THEN UNCHANGED sampling ELSE sampling' \in {sampling, FALSE}

Drop ==
  /\ caller \in {"ready", "running"}
  /\ AgentDropped
  /\ UNCHANGED <<now, run, stopUntil, running, timerVars, mainVars, managerVars,
                 slot, buffer, history>>

-----------------------------------------------------------------------------
(* The caller: stop().                                                     *)

\* stop() takes the sender and computes the end of the current range.
StopBegins ==
  /\ caller = "running"
  /\ caller' = "stop_snapshot"
  /\ stopUntil' = FinalSnapshot(now)
  /\ mark' = Live
  /\ UNCHANGED <<now, run, tx, running, timerVars, mainVars, managerVars, backendVars,
                 fate, shutdownFrom, failures>>

\* (mutated form) the final snapshot is never sent.
StopSkipsSnapshot ==
  /\ caller = "stop_snapshot"
  /\ Alive(tx)
  /\ caller' = "stop_terminate"
  /\ UNCHANGED <<now, run, tx, stopUntil, running, timerVars, mainVars,
                 managerVars, backendVars, history>>

StopSendsSnapshot ==
  /\ caller = "stop_snapshot"
  /\ Alive(tx)
  /\ chan' = [chan EXCEPT ![tx] = Append(@, NextSnapshot(stopUntil))]
  /\ caller' = "stop_terminate"
  /\ UNCHANGED <<now, run, tx, stopUntil, running, timerVars, main, until, report,
                 managerVars, backendVars, history>>

\* The sender is dropped when both signals are sent.
StopSendsTerminate ==
  /\ caller = "stop_terminate"
  /\ Alive(tx)
  /\ chan' = [chan EXCEPT ![tx] = Append(@, Terminate)]
  /\ caller' = "stop_wait"
  /\ tx' = 0
  /\ UNCHANGED <<now, run, stopUntil, running, timerVars, main, until, report,
                 managerVars, backendVars, history>>

\* A send fails when the main thread is gone: stop() returns Err and drops the agent.
StopFails ==
  /\ caller \in {"stop_snapshot", "stop_terminate"}
  /\ ~ Alive(tx)
  /\ AgentDropped
  /\ UNCHANGED <<now, run, stopUntil, running, timerVars, mainVars, managerVars,
                 slot, buffer, history>>

\* (mutated form) stop() does not wait.
StopReturnsEarly ==
  /\ caller = "stop_wait"
  /\ caller' = "ready"
  /\ UNCHANGED <<now, run, tx, stopUntil, running, timerVars, mainVars, managerVars,
                 backendVars, history>>

\* Condvar::wait_while(running).
StopReturns ==
  /\ caller = "stop_wait"
  /\ ~ running
  /\ caller' = "ready"
  /\ UNCHANGED <<now, run, tx, stopUntil, running, timerVars, mainVars, managerVars,
                 backendVars, history>>

-----------------------------------------------------------------------------
(* The caller: shutdown(), of a Ready or of a Running agent.               *)

\* BackendImpl::shutdown takes the backend out under its mutex and shuts it down; what
\* it had not reported goes with it.
ShutdownBackend ==
  /\ caller \in {"ready", "running"}
  /\ shutdownFrom' = caller
  /\ caller' = "shutdown_listeners"
  /\ slot' = FALSE /\ sampling' = FALSE
  /\ fate' = Settle(buffer, "discarded")
  /\ buffer' = {}
  /\ UNCHANGED <<now, run, tx, stopUntil, running, timerVars, mainVars, managerVars,
                 mark, failures>>

\* (mutated form) only the listeners of dead channels are removed: the dummy stays.
ShutdownKeepsDummy ==
  /\ caller = "shutdown_listeners"
  /\ txs' = {0}
  /\ caller' = "shutdown_timer"
  /\ UNCHANGED <<now, run, tx, stopUntil, running, timer, expired, stamp, mainVars,
                 managerVars, backendVars, history>>

\* Timer::drop_listeners.
ShutdownListeners ==
  /\ caller = "shutdown_listeners"
  /\ txs' = {}
  /\ caller' = "shutdown_timer"
  /\ UNCHANGED <<now, run, tx, stopUntil, running, timer, expired, stamp, mainVars,
                 managerVars, backendVars, history>>

ShutdownJoinsTimer ==
  /\ caller = "shutdown_timer"
  /\ timer = "exited"
  /\ caller' = "shutdown_kill"
  /\ UNCHANGED <<now, run, tx, stopUntil, running, timerVars, mainVars, managerVars,
                 backendVars, history>>

\* SessionManager::push(Kill) waits for room in the channel.
ShutdownKills ==
  /\ caller = "shutdown_kill"
  /\ Len(sessions) < SessionCap
  /\ sessions' = Append(sessions, Kill)
  /\ caller' = "shutdown_manager"
  /\ UNCHANGED <<now, run, tx, stopUntil, running, timerVars, mainVars, manager, hand,
                 backendVars, history>>

\* (mutated form) the session manager is not joined.
ShutdownSkipsManager ==
  /\ caller = "shutdown_manager"
  /\ caller' = "shutdown_main"
  /\ UNCHANGED <<now, run, tx, stopUntil, running, timerVars, mainVars, managerVars,
                 backendVars, history>>

ShutdownJoinsManager ==
  /\ caller = "shutdown_manager"
  /\ manager = "exited"
  /\ caller' = "shutdown_main"
  /\ UNCHANGED <<now, run, tx, stopUntil, running, timerVars, mainVars, managerVars,
                 backendVars, history>>

\* The handle is that of the last start(), None if there was none.  The agent, and its
\* tx, are dropped when shutdown returns, after the join.
ShutdownJoinsMain ==
  /\ caller = "shutdown_main"
  /\ run # 0 => main[run] = "exited"
  /\ caller' = "done"
  /\ tx' = 0
  /\ UNCHANGED <<now, run, stopUntil, running, timerVars, mainVars, managerVars,
                 backendVars, history>>

-----------------------------------------------------------------------------
(* The timer thread.                                                       *)

\* The thread ends when there is no listener, and waits on the epoll otherwise.
TimerChecks ==
  /\ timer = "check"
  /\ timer' = IF txs = {} THEN "exited" ELSE "wait"
  /\ UNCHANGED <<now, callerVars, running, expired, stamp, txs, mainVars, managerVars,
                 backendVars, history>>

\* Timer::epoll_wait: the timerfd is readable, and is read.
TimerWakes ==
  /\ timer = "wait"
  /\ expired
  /\ expired' = FALSE
  /\ timer' = "stamp"
  /\ UNCHANGED <<now, callerVars, running, stamp, txs, mainVars, managerVars,
                 backendVars, history>>

\* epoll_wait returns EINTR, which it does only while nothing is readable: the loop
\* starts over.
TimerInterrupted ==
  /\ timer = "wait"
  /\ ~ expired
  /\ timer' = "check"
  /\ UNCHANGED <<now, callerVars, running, expired, stamp, txs, mainVars, managerVars,
                 backendVars, history>>

\* The clock is read after the timerfd.
TimerStamps ==
  /\ timer = "stamp"
  /\ stamp' = PeriodicSnapshot(now)
  /\ timer' = "send"
  /\ UNCHANGED <<now, callerVars, running, expired, txs, mainVars, managerVars,
                 backendVars, history>>

\* Under the lock of txs; a channel whose receiver is gone is skipped and stays.
TimerSends ==
  /\ timer = "send"
  /\ chan' = [r \in Runs |-> IF r \in txs /\ Alive(r)
                             THEN Append(chan[r], NextSnapshot(stamp))
                             ELSE chan[r]]
  /\ timer' = "check"
  /\ UNCHANGED <<now, callerVars, running, expired, stamp, txs, main, until, report,
                 managerVars, backendVars, history>>

\* Any other error of epoll_wait or read, or of the clock, ends the thread.
TimerFails ==
  /\ timer \in {"wait", "stamp"}
  /\ failures < MaxFailures
  /\ failures' = failures + 1
  /\ timer' = "exited"
  /\ UNCHANGED <<now, callerVars, running, expired, stamp, txs, mainVars, managerVars,
                 backendVars, fate, mark, shutdownFrom>>

-----------------------------------------------------------------------------
(* The main thread of run r: the closure spawned by start().               *)

\* The thread returns: its receiver is dropped with what the channel holds, and its
\* reference to the backend.
MainExits(r) ==
  /\ main' = [main EXCEPT ![r] = "exited"]
  /\ chan' = [chan EXCEPT ![r] = <<>>]
  /\ IF caller = "gone" THEN sampling' \in {sampling, FALSE} ELSE UNCHANGED sampling

MainTakesSnapshot(r) ==
  /\ main[r] = "recv"
  /\ chan[r] # <<>> /\ Head(chan[r]).signal = "NextSnapshot"
  /\ until' = [until EXCEPT ![r] = Head(chan[r]).until]
  /\ chan' = [chan EXCEPT ![r] = Tail(@)]
  /\ main' = [main EXCEPT ![r] = "report"]
  /\ UNCHANGED <<now, callerVars, running, timerVars, report, managerVars, backendVars,
                 history>>

\* (mutated form) the stop function is not notified.
MainForgetsRunning(r) ==
  /\ main[r] = "recv"
  /\ chan[r] # <<>> /\ Head(chan[r]).signal = "Terminate"
  /\ MainExits(r)
  /\ UNCHANGED <<now, callerVars, running, timerVars, until, report, managerVars, slot,
                 buffer, history>>

MainTerminates(r) ==
  /\ main[r] = "recv"
  /\ chan[r] # <<>> /\ Head(chan[r]).signal = "Terminate"
  /\ running' = FALSE
  /\ MainExits(r)
  /\ UNCHANGED <<now, callerVars, timerVars, until, report, managerVars, slot, buffer,
                 history>>

\* recv() fails when the channel is empty and has no sender: the loop ends.
MainDisconnects(r) ==
  /\ main[r] = "recv"
  /\ chan[r] = <<>>
  /\ ~ SenderAlive(r)
  /\ MainExits(r)
  /\ UNCHANGED <<now, callerVars, running, timerVars, until, report, managerVars, slot,
                 buffer, history>>

\* (mutated form) report() returns a copy and leaves the buffer.
MainCopiesReport(r) ==
  /\ main[r] = "report"
  /\ slot
  /\ report' = [report EXCEPT ![r] = buffer]
  /\ main' = [main EXCEPT ![r] = "send"]
  /\ UNCHANGED <<now, callerVars, running, timerVars, chan, until, managerVars,
                 backendVars, history>>

\* Backend::report, under the backend mutex.
MainReports(r) ==
  /\ main[r] = "report"
  /\ slot
  /\ report' = [report EXCEPT ![r] = buffer]
  /\ buffer' = {}
  /\ main' = [main EXCEPT ![r] = "send"]
  /\ UNCHANGED <<now, callerVars, running, timerVars, chan, until, managerVars, slot,
                 sampling, history>>

\* shutdown() has taken the backend: "Failed to unwrap backend" ends the thread.
MainFindsNoBackend(r) ==
  /\ main[r] = "report"
  /\ ~ slot
  /\ MainExits(r)
  /\ UNCHANGED <<now, callerVars, running, timerVars, until, report, managerVars, slot,
                 buffer, history>>

\* report() returns Err, before it touched its samples or after: `?` ends the thread and
\* nobody is notified.
MainReportFails(r) ==
  /\ main[r] = "report"
  /\ slot
  /\ failures < MaxFailures
  /\ failures' = failures + 1
  /\ MainExits(r)
  /\ \E S \in {{}, buffer} : /\ buffer' = buffer \ S
                             /\ fate' = Settle(S, "dropped")
  /\ UNCHANGED <<now, callerVars, running, timerVars, until, report, managerVars, slot,
                 mark, shutdownFrom>>

\* (mutated form) the channel has no capacity.
MainSendsUnbounded(r) ==
  /\ main[r] = "send"
  /\ manager # "exited"
  /\ sessions' = Append(sessions, Session(until[r], report[r]))
  /\ report' = [report EXCEPT ![r] = {}]
  /\ main' = [main EXCEPT ![r] = "recv"]
  /\ UNCHANGED <<now, callerVars, running, timerVars, chan, until, manager, hand,
                 backendVars, history>>

\* SyncSender::send waits for room.
MainSends(r) ==
  /\ main[r] = "send"
  /\ manager # "exited"
  /\ Len(sessions) < SessionCap
  /\ sessions' = Append(sessions, Session(until[r], report[r]))
  /\ report' = [report EXCEPT ![r] = {}]
  /\ main' = [main EXCEPT ![r] = "recv"]
  /\ UNCHANGED <<now, callerVars, running, timerVars, chan, until, manager, hand,
                 backendVars, history>>

\* The session manager has exited: the send fails, also one that waits.
MainSendFails(r) ==
  /\ main[r] = "send"
  /\ manager = "exited"
  /\ fate' = Settle(report[r], "dropped")
  /\ report' = [report EXCEPT ![r] = {}]
  /\ MainExits(r)
  /\ UNCHANGED <<now, callerVars, running, timerVars, until, managerVars, slot, buffer,
                 mark, shutdownFrom, failures>>

-----------------------------------------------------------------------------
(* The session manager.                                                    *)

ManagerTakesSession ==
  /\ manager = "recv"
  /\ sessions # <<>> /\ Head(sessions).signal = "Session"
  /\ hand' = Head(sessions).reports
  /\ sessions' = Tail(sessions)
  /\ manager' = "push"
  /\ UNCHANGED <<now, callerVars, running, timerVars, mainVars, backendVars, history>>

\* Kill: the thread returns, and what the channel still holds is dropped.
ManagerTakesKill ==
  /\ manager = "recv"
  /\ sessions # <<>> /\ Head(sessions).signal = "Kill"
  /\ fate' = Settle(Queued, "dropped")
  /\ sessions' = <<>>
  /\ manager' = "exited"
  /\ UNCHANGED <<now, callerVars, running, timerVars, mainVars, hand, backendVars, mark,
                 shutdownFrom, failures>>

\* (mutated form) a push that failed is tried again behind the others.
ManagerRetries ==
  /\ manager = "push"
  /\ \/ fate' = Settle(hand, "delivered") /\ UNCHANGED sessions
     \/ /\ Len(sessions) < SessionCap
        /\ sessions' = Append(sessions, Session(now, hand))
        /\ UNCHANGED fate
  /\ hand' = {}
  /\ manager' = "recv"
  /\ UNCHANGED <<now, callerVars, running, timerVars, mainVars, backendVars, mark,
                 shutdownFrom, failures>>

\* Session::push returns within its 10 s timeout.  A failure, and an answer other than
\* 2xx, is logged and the session is gone.
ManagerPushes ==
  /\ manager = "push"
  /\ \E how \in {"delivered", "rejected"} : fate' = Settle(hand, how)
  /\ hand' = {}
  /\ manager' = "recv"
  /\ UNCHANGED <<now, callerVars, running, timerVars, mainVars, sessions, backendVars,
                 mark, shutdownFrom, failures>>

\* The agent's sender and those of the main threads are gone.
ManagerDisconnects ==
  /\ manager = "recv"
  /\ sessions = <<>>
  /\ caller = "gone"
  /\ \A r \in Runs : ~ Alive(r)
  /\ manager' = "exited"
  /\ UNCHANGED <<now, callerVars, running, timerVars, mainVars, sessions, hand,
                 backendVars, history>>

-----------------------------------------------------------------------------
(* The environment: the clock and the profiler.                            *)

\* The clock enters the next range, at whose start the timerfd expires.  At MaxNow it
\* stands still and the timer goes on.
Tick ==
  /\ \A r \in Runs : Len(chan[r]) < MaxBacklog
  /\ now' = IF now < MaxNow THEN now + RangeSecs ELSE now
  /\ expired' = (timer \notin {"none", "exited"})
  /\ UNCHANGED <<callerVars, running, timer, stamp, txs, mainVars, managerVars,
                 backendVars, history>>

\* The profiler takes a sample, whatever the agent's state.
Record(s) ==
  /\ sampling
  /\ fate[s] = "unrecorded"
  /\ fate' = [fate EXCEPT ![s] = "live"]
  /\ buffer' = buffer \union {s}
  /\ UNCHANGED <<now, callerVars, running, timerVars, mainVars, managerVars, slot,
                 sampling, mark, shutdownFrom, failures>>

-----------------------------------------------------------------------------
\* What a call in progress does next, and what its caller decides to do.
CallerStep == \/ StopSendsSnapshot \/ StopSendsTerminate \/ StopFails \/ StopReturns
              \/ ShutdownListeners \/ ShutdownJoinsTimer \/ ShutdownKills
              \/ ShutdownJoinsManager \/ ShutdownJoinsMain
CallerChoice == \/ Build \/ BuildFails \/ Start \/ Drop \/ StopBegins \/ ShutdownBackend
TimerStep  == \/ TimerChecks \/ TimerWakes \/ TimerStamps \/ TimerSends
TimerFault == \/ TimerInterrupted \/ TimerFails
MainStep(r) == \/ MainTakesSnapshot(r) \/ MainTerminates(r) \/ MainDisconnects(r)
               \/ MainReports(r) \/ MainFindsNoBackend(r) \/ MainSends(r)
               \/ MainSendFails(r)
ManagerStep == \/ ManagerTakesSession \/ ManagerTakesKill \/ ManagerPushes
               \/ ManagerDisconnects

Next ==
  \/ CallerChoice
  \/ CallerStep
  \/ TimerStep
  \/ TimerFault
  \/ \E r \in Runs : MainStep(r)
  \/ \E r \in Runs : MainReportFails(r)
  \/ ManagerStep
  \/ Tick
  \/ \E s \in Samples : Record(s)

Spec == Init /\ [][Next]_vars

\* Threads that can run do run, the timer expires, and a push ends by its timeout.  What
\* the caller decides, samples, signals and failures are nobody's duty.
Fairness ==
  /\ WF_vars(CallerStep)
  /\ WF_vars(TimerStep)
  /\ \A r \in Runs : WF_vars(MainStep(r))
  /\ WF_vars(ManagerStep)
  /\ WF_vars(Tick)

FairSpec == Spec /\ Fairness

-----------------------------------------------------------------------------
(* Safety.                                                                 *)

\* Where a sample that was taken and is not settled can be.
Sent(s)   == s \in Queued \/ s \in hand
Carried(s) == \E r \in Runs : s \in report[r]

\* The variables have their types, and the session channel keeps its capacity.
TypeOK ==
  /\ now \in Nat /\ now >= RangeSecs
  /\ caller \in {"builder", "ready", "running", "stop_snapshot", "stop_terminate",
                 "stop_wait", "shutdown_listeners", "shutdown_timer", "shutdown_kill",
                 "shutdown_manager", "shutdown_main", "done", "gone"}
  /\ run \in 0..MaxRuns /\ tx \in 0..MaxRuns /\ stopUntil \in Nat
  /\ running \in BOOLEAN
  /\ timer \in {"none", "check", "wait", "stamp", "send", "exited"}
  /\ expired \in BOOLEAN /\ stamp \in Nat /\ txs \subseteq 0..MaxRuns
  /\ main \in [Runs -> {"none", "recv", "report", "send", "exited"}]
  /\ chan \in [Runs -> Seq(TimerSignal)]
  /\ until \in [Runs -> Nat]
  /\ report \in [Runs -> SUBSET Samples]
  /\ manager \in {"none", "recv", "push", "exited"}
  /\ sessions \in Seq(SessionSignal) /\ Len(sessions) <= SessionCap
  /\ hand \subseteq Samples
  /\ slot \in BOOLEAN /\ sampling \in BOOLEAN /\ buffer \subseteq Samples
  /\ fate \in [Samples -> {"unrecorded", "live", "delivered", "rejected", "discarded",
                           "dropped"}]
  /\ mark \subseteq Samples
  /\ shutdownFrom \in {"none", "ready", "running"}
  /\ failures \in 0..MaxFailures

\* Every sample taken and not settled is in exactly one place - the backend's buffer, one
\* main thread's report, one session of the channel, the session being pushed - so no
\* sample is lost on the way or sent to the server in two sessions, whatever starts,
\* stops, timer events and failures come between.
OnePlace ==
  /\ Live = {s \in Samples : s \in buffer \/ Carried(s) \/ Sent(s)}
  /\ \A s \in buffer : ~ Carried(s) /\ ~ Sent(s)
  /\ \A r \in Runs : \A s \in report[r] :
       ~ Sent(s) /\ \A q \in Runs \ {r} : s \notin report[q]
  /\ hand \intersect Queued = {}
  /\ \A i, j \in DOMAIN sessions :
       i # j => sessions[i].reports \intersect sessions[j].reports = {}

\* "stop ... send a last report to the server": once stop() has returned the agent, every
\* sample that was in flight when it was called has left the backend and the main thread:
\* it is with the session manager, or was pushed.
StopFlushes ==
  caller = "ready" => \A s \in mark : Sent(s) \/ fate[s] \in {"delivered", "rejected"}

\* Two main threads never drain the same backend, and none is left of an earlier run
\* when start() may be called: at most one is alive, the last one started.
OneMainThread ==
  /\ \A r \in Runs : Alive(r) => r = run
  /\ caller = "ready" => \A r \in Runs : ~ Alive(r)

\* A report that was taken from the backend reaches a push: it is dropped on the way only
\* if something failed or shutdown() was called on a Running agent.
NoReportDropped ==
  (\E s \in Samples : fate[s] = "dropped") => failures > 0 \/ shutdownFrom = "running"

\* shutdown() of a stopped agent ends every thread, and leaves no sample in flight:
\* the sessions that stop() queued were all pushed first.
ShutdownLeavesNothing ==
  caller = "done" /\ shutdownFrom = "ready" =>
    /\ timer = "exited" /\ manager = "exited" /\ ~ sampling
    /\ \A r \in Runs : ~ Alive(r)
    /\ Live = {}

\* The agent as a first-in first-out pipe of report batches, see SampleLedger: the batch
\* being pushed, those of the channel, where one Kill may stand among the sessions, and
\* the one about to be sent.
Killed(q, n) == \E i \in 1..n : IsKill(q[i])
Waiting(q) ==
  [i \in 1..(IF Killed(q, Len(q)) THEN Len(q) - 1 ELSE Len(q)) |->
     q[IF Killed(q, i) THEN i + 1 ELSE i].reports]
Pushing == IF manager = "push" THEN <<hand>> ELSE <<>>
Sending == IF run # 0 /\ main[run] = "send" THEN <<report[run]>> ELSE <<>>
Batches == Pushing \o Waiting(sessions) \o Sending

Status(s) ==
  CASE fate[s] = "live" -> IF s \in buffer THEN "buffered" ELSE "reported"
    [] fate[s] \in {"rejected", "discarded", "dropped"} -> "lost"
    [] OTHER -> fate[s]

Ledger == INSTANCE SampleLedger WITH
  batches <- Batches, status <- [s \in Samples |-> Status(s)]

\* Samples move through the agent as SampleLedger says: each snapshot takes everything
\* that is buffered, and the batches are pushed once each, in the order they were taken.
ImplementsLedger == Ledger!Spec

\* What the agent's caller can rely on: see AgentContract.
Phase ==
  CASE caller \in {"stop_snapshot", "stop_terminate", "stop_wait"} -> "stopping"
    [] caller \in {"shutdown_listeners", "shutdown_timer", "shutdown_kill",
                   "shutdown_manager", "shutdown_main"} -> "shutting"
    [] OTHER -> caller

MainFate ==
  IF run = 0 THEN "none"
  ELSE IF Alive(run) THEN "alive" ELSE IF running THEN "died" ELSE "ended"

CallerView == AgentIs(Phase, MainFate, sampling)

\* A caller that has its agent back from stop() can start it again, as its main thread
\* took the Terminate; stop() gives an error only for a main thread that has died.
HonoursContract == CallerView = NewAgent /\ [][Moves(CallerView, CallerView')]_CallerView

\* stop: "The agent will stop profiling" (pyroscope.rs:511): no sample is taken between
\* the return of stop() and the next start().
StopStopsProfiling ==
  [][caller = "ready" /\ run > 0 => \A s \in Samples : ~ Record(s)]_vars

-----------------------------------------------------------------------------
(* Liveness, under FairSpec.                                               *)

\* stop() returns, with the agent or with an error, however slow the server is.
StopEnds == caller = "stop_snapshot" ~> caller \in {"ready", "gone"}

\* shutdown() of a stopped agent returns.
ShutdownEnds == (caller = "shutdown_listeners" /\ shutdownFrom = "ready") ~> caller = "done"

\* While the agent runs, a sample reaches a push without the caller doing anything.
SamplesArePushed ==
  \A s \in Samples :
    (s \in buffer /\ caller = "running") ~> (caller # "running" \/ fate[s] # "live")

\* "Wait for the Thread to finish" (pyroscope.rs:532): stop() does not wait for a main
\* thread that has finished.
StopWaitsForThread ==
  (caller = "stop_wait" /\ main[run] = "exited") ~> caller # "stop_wait"

\* "Properly shutdown the agent" (pyroscope.rs:379): shutdown() returns, whatever the
\* state of the agent.
ShutdownEndsAlways == caller = "shutdown_listeners" ~> caller = "done"
=============================================================================
