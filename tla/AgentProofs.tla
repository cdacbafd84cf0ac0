---------------------------- MODULE AgentProofs ----------------------------
(***************************************************************************)
(* Theorems about Agent, for every value of its constants.                 *)
(***************************************************************************)
EXTENDS Agent, SequenceTheorems, TLAPS

-----------------------------------------------------------------------------
(* The inductive invariant, one part per theorem.                          *)

\* The `running` flag is set while a main thread is alive, so only the last one is.
RunInv ==
  /\ \A r \in Runs : Alive(r) => r = run /\ running
  /\ caller \in {"builder", "ready"} => \A r \in Runs : ~ Alive(r)

\* How far shutdown() is, and what of the session manager it implies.
Shutting == {"shutdown_listeners", "shutdown_timer", "shutdown_kill", "shutdown_manager",
             "shutdown_main", "done"}

ShutdownInv ==
  /\ caller = "builder" => manager = "none"
  /\ caller \in Shutting <=> shutdownFrom # "none"
  /\ shutdownFrom = "ready" => \A r \in Runs : ~ Alive(r)
  /\ shutdownFrom # "none" => ~ sampling /\ buffer = {}
  /\ manager = "exited" =>
       /\ sessions = <<>>
       /\ \/ caller \in {"shutdown_manager", "shutdown_main", "done"}
          \/ caller = "gone" /\ \A r \in Runs : ~ Alive(r)
  /\ \A i \in DOMAIN sessions :
       IsKill(sessions[i]) => /\ caller = "shutdown_manager" /\ sessions[i].reports = {}
                              /\ shutdownFrom = "ready" => i = Len(sessions)
  /\ caller \in {"shutdown_main", "done"} => manager = "exited"
  /\ caller \in {"shutdown_kill", "shutdown_manager", "shutdown_main", "done"}
       => timer = "exited"

\* Reports are carried only by the states that carry them.
PlaceInv ==
  /\ \A r \in Runs : main[r] # "send" => report[r] = {}
  /\ manager # "push" => hand = {}
  /\ OnePlace

\* Signals wait only for live threads, and only a stop() that waits has sent Terminate.
ChanInv ==
  /\ \A r \in Runs : ~ Alive(r) => chan[r] = <<>>
  /\ \A r \in Runs : \A i \in DOMAIN chan[r] :
       chan[r][i].signal = "Terminate" => caller = "stop_wait"
  /\ caller \in {"running", "stop_snapshot", "stop_terminate"} => tx = run
  /\ caller \in {"running", "stop_snapshot", "stop_terminate", "stop_wait"} => run \in Runs

\* A snapshot will be taken before a Terminate is.
SnapshotAhead(r) ==
  \/ main[r] = "report"
  \/ main[r] \in {"recv", "send"} /\ chan[r] # <<>> /\ Head(chan[r]).signal = "NextSnapshot"

Flushed(s) == Sent(s) \/ fate[s] \in {"delivered", "rejected"}

\* What was in flight when stop() was called is on its way, as far as stop() has come.
FlushInv ==
  /\ caller = "builder" => mark = {}
  /\ caller = "stop_snapshot" /\ Alive(run) =>
       \A s \in mark : Flushed(s) \/ s \in report[run] \/ s \in buffer
  /\ caller \in {"stop_terminate", "stop_wait"} /\ Alive(run) =>
       \A s \in mark : \/ Flushed(s) \/ s \in report[run]
                       \/ s \in buffer /\ SnapshotAhead(run)
  /\ caller = "stop_wait" /\ ~ running => \A s \in mark : Flushed(s)
  /\ caller = "ready" => \A s \in mark : Flushed(s)

-----------------------------------------------------------------------------
(* Types.                                                                  *)

\* The timer fires at range boundaries only; a session of a periodic snapshot claims the
\* whole range before the boundary, and stop()'s final session the range stop() is in, so
\* that the two are adjacent: get_time_range, set_timerfd and Session::new fit together.
THEOREM RangesTile ==
  ASSUME NEW t \in Nat
  PROVE  /\ t < FirstFire(t) /\ FirstFire(t) <= t + RangeSecs
         /\ \A k \in Nat : PeriodicSnapshot(FirstFire(t) + RangeSecs * k)
                             = FirstFire(t) + RangeSecs * k
         /\ SessionRange(FinalSnapshot(t)).from <= t
         /\ t < SessionRange(FinalSnapshot(t)).until
         /\ SessionRange(PeriodicSnapshot(t)).until = SessionRange(FinalSnapshot(t)).from
  BY DEF FirstFire, PeriodicSnapshot, FinalSnapshot, SessionRange, get_time_range, RangeSecs

\* What the time ranges are, so that no other proof opens their definitions.
LEMMA RangeFacts ==
  ASSUME NEW t \in Nat, t >= RangeSecs
  PROVE  /\ PeriodicSnapshot(t) \in Nat /\ FinalSnapshot(t) \in Nat
         /\ t + RangeSecs \in Nat /\ t + RangeSecs >= RangeSecs
  BY DEF PeriodicSnapshot, FinalSnapshot, get_time_range, RangeSecs

\* Session::new and the signals of both kinds have their types.
LEMMA SessionType ==
  ASSUME NEW t \in Nat, NEW S \in SUBSET Samples
  PROVE  Session(t, S) \in SessionSignal
  BY DEF Session, SessionSignal, SessionRange, get_time_range, RangeSecs

LEMMA SignalTypes ==
  /\ Terminate \in TimerSignal
  /\ Kill \in SessionSignal
  /\ \A t \in Nat : NextSnapshot(t) \in TimerSignal
  BY DEF Terminate, Kill, NextSnapshot, TimerSignal, SessionSignal

\* The elements of a channel after a send and after a receive.
LEMMA AppendAt ==
  ASSUME NEW T, NEW q \in Seq(T), NEW e \in T
  PROVE  /\ DOMAIN q = 1..Len(q) /\ DOMAIN Append(q, e) = 1..(Len(q) + 1)
         /\ Len(Append(q, e)) = Len(q) + 1 /\ Len(q) \in Nat
         /\ \A i \in 1..Len(q) : Append(q, e)[i] = q[i]
         /\ Append(q, e)[Len(q) + 1] = e
  OBVIOUS

LEMMA TailAt ==
  ASSUME NEW T, NEW q \in Seq(T), q # <<>>
  PROVE  /\ DOMAIN q = 1..Len(q) /\ DOMAIN Tail(q) = 1..(Len(q) - 1)
         /\ Len(Tail(q)) = Len(q) - 1 /\ Len(q) \in Nat \ {0}
         /\ \A i \in 1..(Len(q) - 1) : Tail(q)[i] = q[i + 1]
         /\ Head(q) = q[1]
  OBVIOUS

\* Appending to one channel of a family, which may not have it.
LEMMA AppendType ==
  ASSUME NEW I, NEW T, NEW f \in [I -> Seq(T)], NEW i, NEW e \in T
  PROVE  [f EXCEPT ![i] = Append(@, e)] \in [I -> Seq(T)]
<1>1. CASE i \in I
  <2>1. Append(f[i], e) \in Seq(T)
    BY <1>1
  <2> QED BY <1>1, <2>1
<1>2. CASE i \notin I
  BY <1>2
<1> QED BY <1>1, <1>2

\* Types: the initial state, then the steps of each actor.
LEMMA TypeInit == Init => TypeOK
<1> SUFFICES ASSUME Init PROVE TypeOK
  OBVIOUS
<1>1. sessions \in Seq(SessionSignal) /\ Len(sessions) <= SessionCap
  BY EmptySeq, AgentAssumption DEF AgentAssumption, Init
<1>2. chan \in [Runs -> Seq(TimerSignal)]
  BY EmptySeq DEF Init
<1>3. fate \in [Samples -> {"unrecorded", "live", "delivered", "rejected", "discarded",
                           "dropped"}]
  BY DEF Init
<1>4. main \in [Runs -> {"none", "recv", "report", "send", "exited"}]
  BY DEF Init
<1>5. until \in [Runs -> Nat] /\ report \in [Runs -> SUBSET Samples]
  BY DEF Init
<1>6. /\ now \in Nat /\ now >= RangeSecs
      /\ run \in 0..MaxRuns /\ tx \in 0..MaxRuns /\ failures \in 0..MaxFailures
      /\ stopUntil \in Nat /\ stamp \in Nat
  BY AgentAssumption DEF AgentAssumption, Init
<1>7. /\ caller = "builder" /\ timer = "none" /\ manager = "none" /\ shutdownFrom = "none"
      /\ running \in BOOLEAN /\ expired \in BOOLEAN /\ slot \in BOOLEAN
      /\ sampling \in BOOLEAN
      /\ txs = {} /\ hand = {} /\ buffer = {} /\ mark = {}
  BY DEF Init
<1> QED BY <1>1, <1>2, <1>3, <1>4, <1>5, <1>6, <1>7 DEF TypeOK

LEMMA TypeCaller == TypeOK /\ CallerChoice => TypeOK'
<1> SUFFICES ASSUME TypeOK, CallerChoice PROVE TypeOK'
  OBVIOUS
<1> USE AgentAssumption DEF AgentAssumption, TypeOK, timerVars, mainVars, managerVars, backendVars, history
<1>1. CASE Build BY <1>1 DEF Build
<1>2. CASE BuildFails BY <1>2 DEF BuildFails
<1>3. CASE Start BY <1>3 DEF Start, Runs
<1>4. CASE Drop
  <2>1. sampling' \in BOOLEAN
    BY <1>4, Zenon DEF Drop, AgentDropped
  <2> QED BY <1>4, <2>1 DEF Drop, AgentDropped
<1>5. CASE StopBegins
  <2>1. stopUntil' \in Nat
    BY <1>5, RangeFacts DEF StopBegins
  <2>2. mark' \subseteq Samples
    BY <1>5 DEF StopBegins, Live
  <2>3. /\ caller' = "stop_snapshot"
        /\ UNCHANGED <<now, run, tx, running, timerVars, mainVars, managerVars, backendVars,
                       fate, shutdownFrom, failures>>
    BY <1>5 DEF StopBegins
  <2> QED BY <2>1, <2>2, <2>3
<1>6. CASE ShutdownBackend BY <1>6 DEF ShutdownBackend, Settle
<1> QED BY <1>1, <1>2, <1>3, <1>4, <1>5, <1>6 DEF CallerChoice

LEMMA TypeCallerStep == TypeOK /\ CallerStep => TypeOK'
<1> SUFFICES ASSUME TypeOK, CallerStep PROVE TypeOK'
  OBVIOUS
<1> USE AgentAssumption DEF AgentAssumption, TypeOK, timerVars, mainVars, managerVars,
        backendVars, history
<1>1. CASE StopSendsSnapshot
  <2>1. NextSnapshot(stopUntil) \in TimerSignal
    BY SignalTypes
  <2>2. chan' \in [Runs -> Seq(TimerSignal)]
    BY <1>1, <2>1, AppendType DEF StopSendsSnapshot
  <2> QED BY <1>1, <2>2 DEF StopSendsSnapshot
<1>2. CASE StopSendsTerminate
  <2>1. chan' \in [Runs -> Seq(TimerSignal)]
    BY <1>2, SignalTypes, AppendType DEF StopSendsTerminate
  <2> QED BY <1>2, <2>1 DEF StopSendsTerminate
<1>3. CASE StopFails
  <2>1. sampling' \in BOOLEAN
    BY <1>3, Zenon DEF StopFails, AgentDropped
  <2> QED BY <1>3, <2>1 DEF StopFails, AgentDropped
<1>4. CASE StopReturns BY <1>4 DEF StopReturns
<1>5. CASE ShutdownListeners BY <1>5 DEF ShutdownListeners
<1>6. CASE ShutdownJoinsTimer BY <1>6 DEF ShutdownJoinsTimer
<1>7. CASE ShutdownKills BY <1>7, SignalTypes DEF ShutdownKills
<1>8. CASE ShutdownJoinsManager BY <1>8 DEF ShutdownJoinsManager
<1>9. CASE ShutdownJoinsMain BY <1>9 DEF ShutdownJoinsMain
<1> QED BY <1>1, <1>2, <1>3, <1>4, <1>5, <1>6, <1>7, <1>8, <1>9 DEF CallerStep

\* What a step of the timer thread leaves alone keeps its type.
LEMMA TimerFrame ==
  ASSUME TypeOK,
         UNCHANGED <<now, callerVars, running, main, until, report, managerVars,
                     backendVars, mark, fate, shutdownFrom>>,
         timer' \in {"none", "check", "wait", "stamp", "send", "exited"},
         expired' \in BOOLEAN, stamp' \in Nat, txs' \subseteq 0..MaxRuns,
         chan' \in [Runs -> Seq(TimerSignal)], failures' \in 0..MaxFailures
  PROVE  TypeOK'
<1>1. /\ now' = now /\ caller' = caller /\ run' = run /\ tx' = tx
      /\ stopUntil' = stopUntil /\ running' = running /\ main' = main
      /\ until' = until /\ report' = report /\ manager' = manager
      /\ sessions' = sessions /\ hand' = hand /\ slot' = slot
      /\ sampling' = sampling /\ buffer' = buffer /\ mark' = mark
      /\ fate' = fate /\ shutdownFrom' = shutdownFrom
  BY Zenon DEF callerVars, managerVars, backendVars
<1>2. /\ now' \in Nat /\ now' >= RangeSecs
      /\ caller' \in {"builder", "ready", "running", "stop_snapshot", "stop_terminate",
                     "stop_wait", "shutdown_listeners", "shutdown_timer", "shutdown_kill",
                     "shutdown_manager", "shutdown_main", "done", "gone"}
      /\ run' \in 0..MaxRuns /\ tx' \in 0..MaxRuns /\ stopUntil' \in Nat
      /\ running' \in BOOLEAN
  BY <1>1, Zenon DEF TypeOK
<1>3. /\ main' \in [Runs -> {"none", "recv", "report", "send", "exited"}]
      /\ until' \in [Runs -> Nat]
      /\ report' \in [Runs -> SUBSET Samples]
      /\ manager' \in {"none", "recv", "push", "exited"}
      /\ sessions' \in Seq(SessionSignal) /\ Len(sessions') <= SessionCap
      /\ hand' \subseteq Samples
  BY <1>1, Zenon DEF TypeOK
<1>4. /\ slot' \in BOOLEAN /\ sampling' \in BOOLEAN /\ buffer' \subseteq Samples
      /\ fate' \in [Samples -> {"unrecorded", "live", "delivered", "rejected", "discarded",
                               "dropped"}]
      /\ mark' \subseteq Samples
      /\ shutdownFrom' \in {"none", "ready", "running"}
  BY <1>1, Zenon DEF TypeOK
<1> QED BY <1>2, <1>3, <1>4, Zenon DEF TypeOK

LEMMA TypeTimer == TypeOK /\ (TimerStep \/ TimerFault) => TypeOK'
<1> SUFFICES ASSUME TypeOK, TimerStep \/ TimerFault PROVE TypeOK'
  OBVIOUS
<1>0. /\ timer \in {"none", "check", "wait", "stamp", "send", "exited"}
      /\ expired \in BOOLEAN /\ stamp \in Nat /\ txs \subseteq 0..MaxRuns
      /\ chan \in [Runs -> Seq(TimerSignal)] /\ failures \in 0..MaxFailures
      /\ now \in Nat /\ now >= RangeSecs
  BY DEF TypeOK
<1> USE DEF callerVars, mainVars, managerVars, backendVars, history
<1>1. CASE TimerChecks
  <2>1. timer' \in {"exited", "wait"}
    BY <1>1, Zenon DEF TimerChecks
  <2> QED BY <1>0, <1>1, <2>1, TimerFrame DEF TimerChecks
<1>2. CASE TimerWakes
  <2>1. timer' = "stamp" /\ expired' \in BOOLEAN
    BY <1>2, Zenon DEF TimerWakes
  <2> QED BY <1>0, <1>2, <2>1, TimerFrame DEF TimerWakes
<1>3. CASE TimerStamps
  <2>1. timer' = "send" /\ stamp' \in Nat
    BY <1>0, <1>3, RangeFacts DEF TimerStamps
  <2> QED BY <1>0, <1>3, <2>1, TimerFrame DEF TimerStamps
<1>4. CASE TimerSends
  <2>1. stamp \in Nat /\ NextSnapshot(stamp) \in TimerSignal
    BY <1>0, SignalTypes
  <2>2. chan' \in [Runs -> Seq(TimerSignal)]
    BY <1>0, <1>4, <2>1 DEF TimerSends
  <2>3. timer' = "check"
    BY <1>4 DEF TimerSends
  <2> QED BY <1>0, <1>4, <2>2, <2>3, TimerFrame DEF TimerSends
<1>5. CASE TimerInterrupted
  BY <1>0, <1>5, TimerFrame DEF TimerInterrupted
<1>6. CASE TimerFails
  <2>1. timer' = "exited" /\ failures' \in 0..MaxFailures
    BY <1>0, <1>6, AgentAssumption DEF AgentAssumption, TimerFails
  <2> QED BY <1>0, <1>6, <2>1, TimerFrame DEF TimerFails
<1> QED BY <1>1, <1>2, <1>3, <1>4, <1>5, <1>6 DEF TimerStep, TimerFault

LEMMA TypeMain ==
  ASSUME NEW r \in Runs, TypeOK, MainStep(r) \/ MainReportFails(r)
  PROVE  TypeOK'
<1> USE AgentAssumption DEF AgentAssumption, TypeOK, callerVars, timerVars, managerVars,
        history
<1>0. ASSUME MainExits(r)
      PROVE  /\ sampling' \in BOOLEAN
             /\ main' \in [Runs -> {"none", "recv", "report", "send", "exited"}]
             /\ chan' \in [Runs -> Seq(TimerSignal)]
  <2>1. sampling' \in BOOLEAN
    BY <1>0, Zenon DEF MainExits
  <2>2. chan' \in [Runs -> Seq(TimerSignal)]
    BY <1>0, EmptySeq DEF MainExits
  <2> QED BY <1>0, <2>1, <2>2 DEF MainExits
<1>1. CASE MainTakesSnapshot(r)
  <2>1. Head(chan[r]) \in TimerSignal /\ Tail(chan[r]) \in Seq(TimerSignal)
    BY <1>1 DEF MainTakesSnapshot
  <2> QED BY <1>1, <2>1 DEF MainTakesSnapshot, backendVars, TimerSignal
<1>2. CASE MainTerminates(r)
  <2>1. MainExits(r)
    BY <1>2 DEF MainTerminates
  <2>2. running' \in BOOLEAN
    BY <1>2, Zenon DEF MainTerminates
  <2>3. UNCHANGED <<now, callerVars, timerVars, until, report, managerVars, slot, buffer,
                    history>>
    BY <1>2 DEF MainTerminates
  <2> QED BY <1>0, <2>1, <2>2, <2>3
<1>3. CASE MainDisconnects(r) BY <1>0, <1>3 DEF MainDisconnects
<1>4. CASE MainReports(r)
  <2>1. report' \in [Runs -> SUBSET Samples]
    BY <1>4 DEF MainReports
  <2>2. main' \in [Runs -> {"none", "recv", "report", "send", "exited"}]
    BY <1>4 DEF MainReports
  <2> QED BY <1>4, <2>1, <2>2 DEF MainReports
<1>5. CASE MainFindsNoBackend(r) BY <1>0, <1>5 DEF MainFindsNoBackend
<1>6. CASE MainSends(r)
  <2>1. Session(until[r], report[r]) \in SessionSignal
    BY SessionType
  <2>2. sessions' \in Seq(SessionSignal) /\ Len(sessions') <= SessionCap
    BY <1>6, <2>1 DEF MainSends
  <2>3. report' \in [Runs -> SUBSET Samples]
    BY <1>6 DEF MainSends
  <2>4. main' \in [Runs -> {"none", "recv", "report", "send", "exited"}]
    BY <1>6 DEF MainSends
  <2>5. UNCHANGED <<now, callerVars, running, timerVars, chan, until, manager, hand,
                    backendVars, history>>
    BY <1>6 DEF MainSends
  <2> QED BY <2>2, <2>3, <2>4, <2>5 DEF backendVars
<1>7. CASE MainSendFails(r) BY <1>0, <1>7 DEF MainSendFails, Settle
<1>8. CASE MainReportFails(r) BY <1>0, <1>8 DEF MainReportFails, Settle
<1> QED BY <1>1, <1>2, <1>3, <1>4, <1>5, <1>6, <1>7, <1>8 DEF MainStep

LEMMA TypeManager == TypeOK /\ ManagerStep => TypeOK'
<1> SUFFICES ASSUME TypeOK, ManagerStep PROVE TypeOK'
  OBVIOUS
<1> USE AgentAssumption DEF AgentAssumption, TypeOK, callerVars, timerVars, mainVars,
        backendVars, history
<1>1. CASE ManagerTakesSession
  <2>1. /\ Head(sessions) \in SessionSignal /\ Tail(sessions) \in Seq(SessionSignal)
        /\ Len(Tail(sessions)) <= SessionCap
    BY <1>1 DEF ManagerTakesSession
  <2>2. hand' \subseteq Samples
    BY <1>1, <2>1 DEF ManagerTakesSession, SessionSignal
  <2>3. sessions' \in Seq(SessionSignal) /\ Len(sessions') <= SessionCap
    BY <1>1, <2>1 DEF ManagerTakesSession
  <2>4. /\ manager' = "push"
        /\ UNCHANGED <<now, callerVars, running, timerVars, mainVars, backendVars, history>>
    BY <1>1 DEF ManagerTakesSession
  <2> QED BY <2>2, <2>3, <2>4
<1>2. CASE ManagerTakesKill
  <2>1. sessions' \in Seq(SessionSignal) /\ Len(sessions') <= SessionCap
    BY <1>2, EmptySeq DEF ManagerTakesKill
  <2> QED BY <1>2, <2>1 DEF ManagerTakesKill, Settle
<1>3. CASE ManagerPushes BY <1>3 DEF ManagerPushes, Settle
<1>4. CASE ManagerDisconnects BY <1>4 DEF ManagerDisconnects
<1> QED BY <1>1, <1>2, <1>3, <1>4 DEF ManagerStep

LEMMA TypeEnvironment == TypeOK /\ (Tick \/ \E s \in Samples : Record(s)) => TypeOK'
<1> SUFFICES ASSUME TypeOK, Tick \/ \E s \in Samples : Record(s) PROVE TypeOK'
  OBVIOUS
<1> USE AgentAssumption DEF AgentAssumption, TypeOK, callerVars, timerVars, mainVars,
        managerVars, backendVars, history
<1>1. CASE Tick
  <2>1. now' \in Nat /\ now' >= RangeSecs
    BY <1>1, RangeFacts DEF Tick
  <2>2. expired' \in BOOLEAN
    BY <1>1, Zenon DEF Tick
  <2> QED BY <1>1, <2>1, <2>2 DEF Tick
<1>2. ASSUME NEW s \in Samples, Record(s) PROVE TypeOK' BY <1>2 DEF Record
<1> QED BY <1>1, <1>2

\* Type correctness of the agent: it covers every step of every thread.
THEOREM TypeCorrect == Spec => []TypeOK
<1>1. TypeOK /\ [Next]_vars => TypeOK'
  <2> SUFFICES ASSUME TypeOK, [Next]_vars PROVE TypeOK'
    OBVIOUS
  <2>1. CASE UNCHANGED vars
    BY <2>1 DEF TypeOK, vars, callerVars, timerVars, mainVars, managerVars, backendVars,
                history
  <2>2. CASE Next
    BY <2>2, TypeCaller, TypeCallerStep, TypeTimer, TypeMain, TypeManager,
       TypeEnvironment DEF Next
  <2> QED BY <2>1, <2>2
<1> QED BY TypeInit, <1>1, PTL DEF Spec

-----------------------------------------------------------------------------
(* The main threads.                                                       *)

\* The initial state; then only start() creates a live thread, when none is left.
LEMMA RunInit == Init => RunInv
  BY DEF Init, RunInv, Alive

LEMMA RunStep == TypeOK /\ RunInv /\ [Next]_vars => RunInv'
<1> SUFFICES ASSUME TypeOK, RunInv, [Next]_vars PROVE RunInv'
  OBVIOUS
<1> USE DEF RunInv, Alive, callerVars, timerVars, mainVars, managerVars, backendVars, history
<1>1. ASSUME UNCHANGED <<caller, run, running, main>> PROVE RunInv'
  BY <1>1
<1>2. CASE UNCHANGED vars
  BY <1>1, <1>2 DEF vars
<1>3. CASE CallerChoice
  <2>1. CASE Build BY <2>1 DEF Build
  <2>2. CASE BuildFails BY <2>2 DEF BuildFails
  <2>3. CASE Start
    <3>1. \A r \in Runs : main'[r] = IF r = run + 1 THEN "recv" ELSE main[r]
      BY <2>3 DEF Start, TypeOK
    <3>2. running' /\ run' = run + 1 /\ caller' = "running" /\ caller = "ready"
      BY <2>3 DEF Start
    <3> QED BY <3>1, <3>2
  <2>4. CASE Drop BY <2>4 DEF Drop, AgentDropped
  <2>5. CASE StopBegins BY <2>5 DEF StopBegins
  <2>6. CASE ShutdownBackend BY <2>6 DEF ShutdownBackend
  <2> QED BY <1>3, <2>1, <2>2, <2>3, <2>4, <2>5, <2>6 DEF CallerChoice
<1>4. CASE CallerStep
  <2>1. CASE StopSendsSnapshot BY <2>1 DEF StopSendsSnapshot
  <2>2. CASE StopSendsTerminate BY <2>2 DEF StopSendsTerminate
  <2>3. CASE StopFails BY <2>3 DEF StopFails, AgentDropped
  <2>4. CASE StopReturns BY <2>4 DEF StopReturns
  <2>5. CASE ShutdownListeners BY <2>5 DEF ShutdownListeners
  <2>6. CASE ShutdownJoinsTimer BY <2>6 DEF ShutdownJoinsTimer
  <2>7. CASE ShutdownKills BY <2>7 DEF ShutdownKills
  <2>8. CASE ShutdownJoinsManager BY <2>8 DEF ShutdownJoinsManager
  <2>9. CASE ShutdownJoinsMain BY <2>9 DEF ShutdownJoinsMain
  <2> QED BY <1>4, <2>1, <2>2, <2>3, <2>4, <2>5, <2>6, <2>7, <2>8, <2>9 DEF CallerStep
<1>5. CASE TimerStep \/ TimerFault
  BY <1>1, <1>5 DEF TimerStep, TimerFault, TimerChecks, TimerWakes, TimerStamps, TimerSends,
                    TimerInterrupted, TimerFails
<1>6. CASE ManagerStep
  BY <1>1, <1>6 DEF ManagerStep, ManagerTakesSession, ManagerTakesKill, ManagerPushes,
                    ManagerDisconnects
<1>7. CASE Tick \/ \E s \in Samples : Record(s)
  BY <1>1, <1>7 DEF Tick, Record
<1>8. ASSUME NEW r \in Runs, MainStep(r) \/ MainReportFails(r) PROVE RunInv'
  \* A step of a live thread: it is the last one, and stays alive or is the only to go.
  <2>1. ASSUME main[r] \in {"recv", "report", "send"}, UNCHANGED <<caller, run>>,
               main' = [main EXCEPT ![r] = "exited"], running' \in {running, FALSE}
        PROVE  RunInv'
    BY <2>1 DEF TypeOK
  <2>2. ASSUME main[r] \in {"recv", "report", "send"}, UNCHANGED <<caller, run, running>>,
               NEW to \in {"recv", "report", "send"}, main' = [main EXCEPT ![r] = to]
        PROVE  RunInv'
    BY <2>2 DEF TypeOK
  <2>3. CASE MainTakesSnapshot(r) BY <2>2, <2>3 DEF MainTakesSnapshot
  <2>4. CASE MainTerminates(r) BY <2>1, <2>4 DEF MainTerminates, MainExits
  <2>5. CASE MainDisconnects(r) BY <2>1, <2>5 DEF MainDisconnects, MainExits
  <2>6. CASE MainReports(r) BY <2>2, <2>6 DEF MainReports
  <2>7. CASE MainFindsNoBackend(r) BY <2>1, <2>7 DEF MainFindsNoBackend, MainExits
  <2>8. CASE MainSends(r) BY <2>2, <2>8 DEF MainSends
  <2>9. CASE MainSendFails(r) BY <2>1, <2>9 DEF MainSendFails, MainExits
  <2>10. CASE MainReportFails(r) BY <2>1, <2>10 DEF MainReportFails, MainExits
  <2> QED BY <1>8, <2>3, <2>4, <2>5, <2>6, <2>7, <2>8, <2>9, <2>10 DEF MainStep
<1> QED BY <1>2, <1>3, <1>4, <1>5, <1>6, <1>7, <1>8 DEF Next

\* At most one main thread is ever alive, and none while the agent is Ready: a run never
\* shares the backend with an earlier one.
THEOREM OnlyOneMainThread == Spec => []OneMainThread
<1>1. RunInv => OneMainThread
  BY DEF RunInv, OneMainThread
<1> QED BY RunInit, RunStep, TypeCorrect, <1>1, PTL DEF Spec

-----------------------------------------------------------------------------
(* Shutdown and the session manager's end.                                 *)

\* The initial state, then the steps of each actor.
LEMMA ShutdownInit == Init => ShutdownInv
  BY DEF Init, ShutdownInv, Shutting

LEMMA ShutdownCaller ==
  TypeOK /\ RunInv /\ ShutdownInv /\ (CallerChoice \/ CallerStep) => ShutdownInv'
<1> SUFFICES ASSUME TypeOK, RunInv, ShutdownInv, CallerChoice \/ CallerStep
             PROVE  ShutdownInv'
  OBVIOUS
<1> USE DEF ShutdownInv, RunInv, Alive, Shutting, IsKill, callerVars, timerVars, mainVars,
        managerVars, backendVars, history
<1>1. CASE Build BY <1>1 DEF Build
<1>2. CASE BuildFails BY <1>2 DEF BuildFails
<1>3. CASE Start BY <1>3 DEF Start
<1>4. CASE Drop BY <1>4 DEF Drop, AgentDropped
<1>5. CASE StopBegins BY <1>5 DEF StopBegins
<1>6. CASE ShutdownBackend BY <1>6 DEF ShutdownBackend
<1>7. CASE StopSendsSnapshot BY <1>7 DEF StopSendsSnapshot
<1>8. CASE StopSendsTerminate BY <1>8 DEF StopSendsTerminate
<1>9. CASE StopFails BY <1>9 DEF StopFails, AgentDropped
<1>10. CASE StopReturns BY <1>10 DEF StopReturns
<1>11. CASE ShutdownListeners BY <1>11 DEF ShutdownListeners
<1>12. CASE ShutdownJoinsTimer BY <1>12 DEF ShutdownJoinsTimer
<1>13. CASE ShutdownKills
  <2>1. /\ DOMAIN sessions = 1..Len(sessions) /\ DOMAIN sessions' = 1..(Len(sessions) + 1)
        /\ Len(sessions') = Len(sessions) + 1
        /\ \A i \in 1..Len(sessions) : sessions'[i] = sessions[i]
        /\ Len(sessions) \in Nat /\ sessions'[Len(sessions) + 1] = Kill
    BY <1>13, SignalTypes, AppendAt DEF ShutdownKills, TypeOK
  <2> QED BY <1>13, <2>1 DEF ShutdownKills, Kill
<1>14. CASE ShutdownJoinsManager BY <1>14 DEF ShutdownJoinsManager
<1>15. CASE ShutdownJoinsMain BY <1>15 DEF ShutdownJoinsMain
<1> QED BY <1>1, <1>2, <1>3, <1>4, <1>5, <1>6, <1>7, <1>8, <1>9, <1>10, <1>11, <1>12,
           <1>13, <1>14, <1>15 DEF CallerChoice, CallerStep

LEMMA ShutdownTimer ==
  TypeOK /\ ShutdownInv /\ (TimerStep \/ TimerFault) => ShutdownInv'
<1> SUFFICES ASSUME TypeOK, ShutdownInv, TimerStep \/ TimerFault PROVE ShutdownInv'
  OBVIOUS
<1> USE DEF ShutdownInv, Alive, Shutting, IsKill, callerVars, mainVars, managerVars,
        backendVars, history
<1>1. CASE TimerChecks BY <1>1 DEF TimerChecks
<1>2. CASE TimerWakes BY <1>2 DEF TimerWakes
<1>3. CASE TimerStamps BY <1>3 DEF TimerStamps
<1>4. CASE TimerSends BY <1>4 DEF TimerSends
<1>5. CASE TimerInterrupted BY <1>5 DEF TimerInterrupted
<1>6. CASE TimerFails BY <1>6 DEF TimerFails
<1> QED BY <1>1, <1>2, <1>3, <1>4, <1>5, <1>6 DEF TimerStep, TimerFault

LEMMA ShutdownMain ==
  ASSUME NEW r \in Runs, TypeOK, RunInv, ShutdownInv, MainStep(r) \/ MainReportFails(r)
  PROVE  ShutdownInv'
<1> USE DEF ShutdownInv, RunInv, Alive, Shutting, IsKill, callerVars, timerVars, managerVars,
        history
\* A thread that exits leaves the agent where it is.
<1>1. ASSUME Alive(r), MainExits(r), UNCHANGED <<caller, timer, manager, sessions, shutdownFrom>>,
             buffer' \subseteq buffer
      PROVE  ShutdownInv'
  <2>1. sampling' => sampling
    BY <1>1, Zenon DEF MainExits
  <2>2. \A q \in Runs : Alive(q)' => Alive(q)
    BY <1>1 DEF MainExits, TypeOK
  <2> QED BY <1>1, <2>1, <2>2
<1>2. CASE MainTakesSnapshot(r) BY <1>2 DEF MainTakesSnapshot, backendVars, TypeOK
<1>3. CASE MainTerminates(r) BY <1>1, <1>3 DEF MainTerminates
<1>4. CASE MainDisconnects(r) BY <1>1, <1>4 DEF MainDisconnects
<1>5. CASE MainReports(r) BY <1>5 DEF MainReports, TypeOK
<1>6. CASE MainFindsNoBackend(r) BY <1>1, <1>6 DEF MainFindsNoBackend
<1>7. CASE MainSends(r)
  <2>1. /\ DOMAIN sessions = 1..Len(sessions) /\ DOMAIN sessions' = 1..(Len(sessions) + 1)
        /\ \A i \in 1..Len(sessions) : sessions'[i] = sessions[i]
        /\ sessions'[Len(sessions) + 1] = Session(until[r], report[r])
    BY <1>7, SessionType, AppendAt DEF MainSends, TypeOK
  <2>2. \A i \in DOMAIN sessions' : IsKill(sessions'[i]) => i \in DOMAIN sessions /\ IsKill(sessions[i])
    BY <2>1 DEF Session
  <2>3. shutdownFrom # "ready" /\ manager # "exited"
    BY <1>7 DEF MainSends
  <2>4. \A q \in Runs : Alive(q)' => Alive(q)
    BY <1>7 DEF MainSends, TypeOK
  <2> QED BY <1>7, <2>2, <2>3, <2>4 DEF MainSends, backendVars
<1>8. CASE MainSendFails(r) BY <1>1, <1>8 DEF MainSendFails
<1>9. CASE MainReportFails(r) BY <1>1, <1>9 DEF MainReportFails
<1> QED BY <1>2, <1>3, <1>4, <1>5, <1>6, <1>7, <1>8, <1>9 DEF MainStep

LEMMA ShutdownManager == TypeOK /\ ShutdownInv /\ ManagerStep => ShutdownInv'
<1> SUFFICES ASSUME TypeOK, ShutdownInv, ManagerStep PROVE ShutdownInv'
  OBVIOUS
<1> USE DEF ShutdownInv, Alive, Shutting, IsKill, callerVars, timerVars, mainVars,
        backendVars, history
<1>1. CASE ManagerTakesSession
  <2>1. /\ DOMAIN sessions = 1..Len(sessions) /\ DOMAIN sessions' = 1..(Len(sessions) - 1)
        /\ Len(sessions') = Len(sessions) - 1 /\ Len(sessions) \in Nat \ {0}
        /\ \A i \in 1..(Len(sessions) - 1) : sessions'[i] = sessions[i + 1]
    BY <1>1, TailAt DEF ManagerTakesSession, TypeOK
  <2> QED BY <1>1, <2>1 DEF ManagerTakesSession
<1>2. CASE ManagerTakesKill
  <2>1. 1 \in DOMAIN sessions /\ IsKill(sessions[1])
    BY <1>2, TailAt DEF ManagerTakesKill, TypeOK
  <2> QED BY <1>2, <2>1 DEF ManagerTakesKill
<1>3. CASE ManagerPushes BY <1>3 DEF ManagerPushes
<1>4. CASE ManagerDisconnects BY <1>4 DEF ManagerDisconnects
<1> QED BY <1>1, <1>2, <1>3, <1>4 DEF ManagerStep

LEMMA ShutdownStep == TypeOK /\ RunInv /\ ShutdownInv /\ [Next]_vars => ShutdownInv'
<1> SUFFICES ASSUME TypeOK, RunInv, ShutdownInv, [Next]_vars PROVE ShutdownInv'
  OBVIOUS
<1>1. CASE UNCHANGED vars
  BY <1>1 DEF ShutdownInv, Alive, vars, callerVars, timerVars, mainVars, managerVars,
              backendVars, history
<1>2. CASE Tick \/ \E s \in Samples : Record(s)
  BY <1>2 DEF Tick, Record, ShutdownInv, Alive, callerVars, timerVars, mainVars, managerVars,
              backendVars, history
<1> QED BY <1>1, <1>2, ShutdownCaller, ShutdownTimer, ShutdownMain, ShutdownManager DEF Next

\* shutdown() goes through its steps in order: the timer is gone before Kill is sent, the
\* session manager ends only by Kill or after every sender, and a stopped agent queues
\* nothing behind Kill.
THEOREM ShutdownCorrect == Spec => []ShutdownInv
BY ShutdownInit, ShutdownStep, RunInit, RunStep, TypeCorrect, PTL DEF Spec

\* A report is dropped by a failure, by a send to a manager that has ended, or behind
\* Kill; the last two need a shutdown() of a Running agent.
LEMMA DropStep ==
  TypeOK /\ ShutdownInv /\ NoReportDropped /\ [Next]_vars => NoReportDropped'
<1> SUFFICES ASSUME TypeOK, ShutdownInv, NoReportDropped, [Next]_vars PROVE NoReportDropped'
  OBVIOUS
<1> USE DEF NoReportDropped, callerVars, timerVars, mainVars, managerVars, backendVars, history
<1>1. CASE UNCHANGED <<fate, failures, shutdownFrom>>
  BY <1>1
<1>3. CASE CallerChoice
  <2>1. CASE ShutdownBackend
    <3>1. shutdownFrom = "none"
      BY <2>1 DEF ShutdownBackend, ShutdownInv, Shutting, TypeOK
    <3> QED BY <2>1, <3>1 DEF ShutdownBackend, Settle, TypeOK
  <2> QED BY <1>1, <1>3, <2>1 DEF CallerChoice, Build, BuildFails, Start, Drop, StopBegins
<1>4. CASE CallerStep
  BY <1>1, <1>4 DEF CallerStep, StopSendsSnapshot, StopSendsTerminate, StopFails, StopReturns,
     ShutdownListeners, ShutdownJoinsTimer, ShutdownKills, ShutdownJoinsManager,
     ShutdownJoinsMain
<1>5. CASE TimerStep \/ TimerFault
  BY <1>5, AgentAssumption DEF AgentAssumption, TypeOK, TimerStep, TimerFault, TimerChecks,
     TimerWakes, TimerStamps, TimerSends, TimerInterrupted, TimerFails
<1>6. ASSUME NEW r \in Runs, MainStep(r) PROVE NoReportDropped'
  <2>1. CASE MainSendFails(r)
    \* Only shutdown() of a Running agent ends the manager before the main thread.
    <3>1. shutdownFrom = "running"
      BY <2>1 DEF MainSendFails, ShutdownInv, Shutting, Alive, TypeOK
    <3> QED BY <2>1, <3>1 DEF MainSendFails
  <2> QED BY <1>1, <1>6, <2>1 DEF MainStep, MainTakesSnapshot, MainTerminates, MainDisconnects,
          MainReports, MainFindsNoBackend, MainSends
<1>7. ASSUME NEW r \in Runs, MainReportFails(r) PROVE NoReportDropped'
  BY <1>7, AgentAssumption DEF AgentAssumption, TypeOK, MainReportFails
<1>8. CASE ManagerStep
  <2>1. CASE ManagerTakesKill
    <3>1. 1 \in DOMAIN sessions /\ IsKill(sessions[1]) /\ DOMAIN sessions = 1..Len(sessions)
      BY <2>1, TailAt DEF ManagerTakesKill, TypeOK, IsKill
    <3>2. CASE shutdownFrom = "ready"
      \* stop() has emptied the agent: nothing is behind Kill.
      <4>1. Len(sessions) = 1
        BY <3>1, <3>2 DEF ShutdownInv
      <4>2. Queued = {}
        BY <3>1, <4>1 DEF ShutdownInv, Queued
      <4> QED BY <2>1, <4>2 DEF ManagerTakesKill, Settle, TypeOK
    <3>3. CASE shutdownFrom = "running"
      BY <2>1, <3>3 DEF ManagerTakesKill
    <3> QED BY <3>1, <3>2, <3>3 DEF ShutdownInv, Shutting, TypeOK
  <2>2. CASE ManagerPushes
    BY <2>2 DEF ManagerPushes, Settle, TypeOK
  <2> QED BY <1>1, <1>8, <2>1, <2>2 DEF ManagerStep, ManagerTakesSession, ManagerDisconnects
<1>9. CASE Tick \/ \E s \in Samples : Record(s)
  BY <1>9 DEF Tick, Record, TypeOK
<1>10. CASE UNCHANGED vars
  BY <1>1, <1>10 DEF vars
<1> QED BY <1>3, <1>4, <1>5, <1>6, <1>7, <1>8, <1>9, <1>10 DEF Next

\* A report that main took from the backend is pushed, unless something failed or
\* shutdown() was called on a Running agent.
THEOREM ReportsAreNotDropped == Spec => []NoReportDropped
<1>1. Init => NoReportDropped
  BY DEF Init, NoReportDropped
<1> QED BY <1>1, DropStep, ShutdownCorrect, TypeCorrect, PTL DEF Spec

-----------------------------------------------------------------------------
(* Where samples are.                                                      *)

\* The samples of the session channel when it is empty, after a send and after a receive.
LEMMA QueuedNone == sessions = <<>> => Queued = {}
  BY DEF Queued

LEMMA QueuedAppend ==
  ASSUME sessions \in Seq(SessionSignal), NEW m \in SessionSignal,
         sessions' = Append(sessions, m)
  PROVE  /\ Queued' = Queued \union m.reports
         /\ (/\ \A i, j \in DOMAIN sessions :
                 i # j => sessions[i].reports \intersect sessions[j].reports = {}
             /\ m.reports \intersect Queued = {})
            => \A i, j \in DOMAIN sessions' :
                 i # j => sessions'[i].reports \intersect sessions'[j].reports = {}
<1>1. /\ DOMAIN sessions = 1..Len(sessions) /\ DOMAIN sessions' = 1..(Len(sessions) + 1)
      /\ \A i \in 1..Len(sessions) : sessions'[i] = sessions[i]
      /\ sessions'[Len(sessions) + 1] = m /\ Len(sessions) \in Nat
  BY AppendAt
<1>2. DOMAIN sessions' = DOMAIN sessions \union {Len(sessions) + 1}
  BY <1>1
<1>3. \A i \in DOMAIN sessions : sessions'[i] = sessions[i]
  BY <1>1
<1>4. Len(sessions) + 1 \notin DOMAIN sessions
  BY <1>1
<1>5. Queued' = Queued \union m.reports
  <2>1. \A s \in Queued' : s \in Queued \union m.reports
    <3> SUFFICES ASSUME NEW s \in Queued' PROVE s \in Queued \union m.reports
      OBVIOUS
    <3>1. PICK i \in DOMAIN sessions' : s \in sessions'[i].reports
      BY DEF Queued
    <3> QED BY <3>1, <1>1, <1>2, <1>3 DEF Queued
  <2>2. \A s \in Queued : s \in Queued'
    BY <1>2, <1>3 DEF Queued
  <2>3. \A s \in m.reports : s \in Queued'
    BY <1>1, <1>2 DEF Queued
  <2> QED BY <2>1, <2>2, <2>3
<1>6. \A i \in DOMAIN sessions : sessions[i].reports \subseteq Queued
  BY DEF Queued
<1> QED BY <1>1, <1>2, <1>3, <1>4, <1>5, <1>6

LEMMA QueuedTail ==
  ASSUME sessions \in Seq(SessionSignal), sessions # <<>>, sessions' = Tail(sessions),
         \A i, j \in DOMAIN sessions :
           i # j => sessions[i].reports \intersect sessions[j].reports = {}
  PROVE  /\ Queued = Head(sessions).reports \union Queued'
         /\ Head(sessions).reports \intersect Queued' = {}
         /\ \A i, j \in DOMAIN sessions' :
              i # j => sessions'[i].reports \intersect sessions'[j].reports = {}
<1>1. /\ DOMAIN sessions = 1..Len(sessions) /\ DOMAIN sessions' = 1..(Len(sessions) - 1)
      /\ \A i \in 1..(Len(sessions) - 1) : sessions'[i] = sessions[i + 1]
      /\ Head(sessions) = sessions[1] /\ Len(sessions) \in Nat \ {0}
  BY TailAt
<1>2. \A i \in DOMAIN sessions' :
        i + 1 \in DOMAIN sessions /\ i + 1 # 1 /\ sessions'[i] = sessions[i + 1]
  BY <1>1
<1>3. ASSUME NEW i \in DOMAIN sessions, i # 1
      PROVE  i - 1 \in DOMAIN sessions' /\ sessions'[i - 1] = sessions[i]
  <2>1. i - 1 \in 1..(Len(sessions) - 1) /\ (i - 1) + 1 = i
    BY <1>1, <1>3
  <2> QED BY <1>1, <2>1
<1>4. 1 \in DOMAIN sessions
  BY <1>1
<1>5. \A i, j \in DOMAIN sessions' : i # j => i + 1 # j + 1
  BY <1>1
<1>6. Queued = Head(sessions).reports \union Queued'
  <2>1. \A s \in Queued' : s \in Queued
    BY <1>2 DEF Queued
  <2>2. \A s \in Queued : s \in Head(sessions).reports \/ s \in Queued'
    <3> SUFFICES ASSUME NEW s \in Queued PROVE s \in Head(sessions).reports \/ s \in Queued'
      OBVIOUS
    <3>1. PICK i \in DOMAIN sessions : s \in sessions[i].reports
      BY DEF Queued
    <3> QED BY <3>1, <1>1, <1>3 DEF Queued
  <2>3. Head(sessions).reports \subseteq Queued
    BY <1>1, <1>4 DEF Queued
  <2> QED BY <2>1, <2>2, <2>3
<1>7. Head(sessions).reports \intersect Queued' = {}
  BY <1>1, <1>2, <1>4 DEF Queued
<1>8. ASSUME NEW i \in DOMAIN sessions', NEW j \in DOMAIN sessions', i # j
      PROVE  sessions'[i].reports \intersect sessions'[j].reports = {}
  BY <1>2, <1>5, <1>8
<1> QED BY <1>6, <1>7, <1>8

\* The initial state, then the steps of each actor.
LEMMA PlaceInit == Init => PlaceInv
<1> SUFFICES ASSUME Init PROVE PlaceInv
  OBVIOUS
<1>1. Queued = {}
  BY QueuedNone DEF Init
<1>2. DOMAIN sessions = {}
  BY DEF Init
<1> QED BY <1>1, <1>2 DEF Init, PlaceInv, OnePlace, Live, Carried, Sent

\* The steps that neither move a sample nor settle one.
LEMMA PlaceStutter ==
  PlaceInv /\ UNCHANGED <<main, report, manager, sessions, hand, buffer, fate>> => PlaceInv'
  BY DEF PlaceInv, OnePlace, Live, Carried, Sent, Queued

LEMMA PlaceMain ==
  ASSUME NEW r \in Runs, TypeOK, PlaceInv, MainStep(r) \/ MainReportFails(r)
  PROVE  PlaceInv'
<1> USE DEF callerVars, timerVars, managerVars, history
\* A thread that exits, and whose report was empty or is settled.
<1>1. ASSUME MainExits(r), UNCHANGED <<manager, sessions, hand, buffer, fate, report>>,
             main[r] # "send"
      PROVE  PlaceInv'
  <2>1. UNCHANGED Queued
    BY <1>1 DEF Queued
  <2>2. \A q \in Runs : main'[q] # "send" => report[q] = {}
    BY <1>1 DEF MainExits, PlaceInv, TypeOK
  <2> QED BY <1>1, <2>1, <2>2 DEF PlaceInv, OnePlace, Live, Carried, Sent
<1>2. CASE MainTakesSnapshot(r)
  <2>1. UNCHANGED Queued
    BY <1>2 DEF MainTakesSnapshot, Queued
  <2>2. \A q \in Runs : main'[q] # "send" => report[q] = {}
    BY <1>2 DEF MainTakesSnapshot, PlaceInv, TypeOK
  <2> QED BY <1>2, <2>1, <2>2
       DEF MainTakesSnapshot, backendVars, PlaceInv, OnePlace, Live, Carried, Sent
<1>3. CASE MainTerminates(r) BY <1>1, <1>3 DEF MainTerminates
<1>4. CASE MainDisconnects(r) BY <1>1, <1>4 DEF MainDisconnects
<1>5. CASE MainReports(r)
  <2>1. UNCHANGED Queued
    BY <1>5 DEF MainReports, Queued
  <2>2. report[r] = {}
    BY <1>5 DEF MainReports, PlaceInv
  <2>3. /\ \A q \in Runs : report'[q] = IF q = r THEN buffer ELSE report[q]
        /\ \A q \in Runs : main'[q] = IF q = r THEN "send" ELSE main[q]
        /\ buffer' = {} /\ UNCHANGED <<fate, hand, manager, sessions>>
    BY <1>5 DEF MainReports, TypeOK
  <2>4. \A s \in Samples : Carried(s)' <=> Carried(s) \/ s \in buffer
    BY <2>2, <2>3 DEF Carried
  <2>5. \A s \in Samples : Sent(s)' <=> Sent(s)
    BY <2>1, <2>3 DEF Sent
  <2>6. buffer \subseteq Samples /\ \A q \in Runs : report[q] \subseteq Samples
    BY DEF TypeOK
  <2> QED BY <2>1, <2>2, <2>3, <2>4, <2>5, <2>6 DEF PlaceInv, OnePlace, Live, Carried
<1>6. CASE MainFindsNoBackend(r) BY <1>1, <1>6 DEF MainFindsNoBackend
<1>7. CASE MainSends(r)
  <2>1. /\ sessions \in Seq(SessionSignal) /\ Session(until[r], report[r]) \in SessionSignal
        /\ sessions' = Append(sessions, Session(until[r], report[r]))
        /\ Session(until[r], report[r]).reports = report[r]
    BY <1>7, SessionType DEF MainSends, TypeOK, Session
  <2>2. /\ \A q \in Runs : report'[q] = IF q = r THEN {} ELSE report[q]
        /\ \A q \in Runs : main'[q] = IF q = r THEN "recv" ELSE main[q]
        /\ UNCHANGED <<fate, hand, manager, buffer>>
    BY <1>7 DEF MainSends, TypeOK, backendVars
  <2>3. report[r] \intersect Queued = {}
    BY DEF PlaceInv, OnePlace, Sent
  <2>4. /\ Queued' = Queued \union report[r]
        /\ \A i, j \in DOMAIN sessions' :
             i # j => sessions'[i].reports \intersect sessions'[j].reports = {}
    BY <2>1, <2>3, QueuedAppend DEF PlaceInv, OnePlace
  <2>5. \A s \in Samples : Carried(s)' \/ Sent(s)' <=> Carried(s) \/ Sent(s)
    BY <2>2, <2>4 DEF Carried, Sent
  <2>6. Live' = {s \in Samples : s \in buffer' \/ Carried(s)' \/ Sent(s)'}
    BY <2>2, <2>5 DEF PlaceInv, OnePlace, Live
  <2>7. \A s \in buffer' : ~ Carried(s)' /\ ~ Sent(s)'
    BY <2>2, <2>4 DEF PlaceInv, OnePlace, Carried, Sent
  <2>8. \A q \in Runs : \A s \in report'[q] :
          ~ Sent(s)' /\ \A p \in Runs \ {q} : s \notin report'[p]
    BY <2>2, <2>4 DEF PlaceInv, OnePlace, Sent
  <2>9. hand' \intersect Queued' = {}
    BY <2>2, <2>4 DEF PlaceInv, OnePlace, Sent
  <2> QED BY <2>2, <2>4, <2>6, <2>7, <2>8, <2>9 DEF PlaceInv, OnePlace
<1>8. CASE MainSendFails(r)
  <2>1. UNCHANGED Queued
    BY <1>8 DEF MainSendFails, managerVars, Queued
  <2>2. /\ \A q \in Runs : report'[q] = IF q = r THEN {} ELSE report[q]
        /\ \A q \in Runs : main'[q] = IF q = r THEN "exited" ELSE main[q]
        /\ \A s \in Samples : fate'[s] = IF s \in report[r] THEN "dropped" ELSE fate[s]
        /\ UNCHANGED <<hand, manager, buffer, sessions>>
    BY <1>8 DEF MainSendFails, MainExits, TypeOK, Settle
  <2>3. \A s \in Samples : Carried(s)' <=> Carried(s) /\ s \notin report[r]
    BY <2>2 DEF PlaceInv, OnePlace, Carried
  <2>4. \A s \in Samples : Sent(s)' <=> Sent(s)
    BY <2>1, <2>2 DEF Sent
  <2>5. \A s \in report[r] : s \notin buffer /\ ~ Sent(s)
    BY DEF PlaceInv, OnePlace, Carried
  <2>6. Live' = {s \in Samples : s \in buffer' \/ Carried(s)' \/ Sent(s)'}
    BY <2>2, <2>3, <2>4, <2>5 DEF PlaceInv, OnePlace, Live
  <2>7. \A s \in buffer : ~ Carried(s)' /\ ~ Sent(s)'
    BY <2>3, <2>4 DEF PlaceInv, OnePlace, TypeOK
  <2>8. \A q \in Runs : \A s \in report'[q] :
          ~ Sent(s)' /\ \A p \in Runs \ {q} : s \notin report'[p]
    BY <2>1, <2>2 DEF PlaceInv, OnePlace, Sent
  <2> QED BY <2>1, <2>2, <2>6, <2>7, <2>8 DEF PlaceInv, OnePlace
<1>9. CASE MainReportFails(r)
  <2>1. UNCHANGED Queued
    BY <1>9 DEF MainReportFails, managerVars, Queued
  <2>2. PICK S \in {{}, buffer} : buffer' = buffer \ S /\ fate' = Settle(S, "dropped")
    BY <1>9 DEF MainReportFails
  <2>3. /\ \A q \in Runs : main'[q] = IF q = r THEN "exited" ELSE main[q]
        /\ main[r] # "send"
        /\ \A s \in Samples : fate'[s] = IF s \in S THEN "dropped" ELSE fate[s]
        /\ UNCHANGED <<hand, manager, report, sessions>>
    BY <1>9, <2>2 DEF MainReportFails, MainExits, TypeOK, Settle
  <2>4. \A s \in Samples : (Carried(s)' <=> Carried(s)) /\ (Sent(s)' <=> Sent(s))
    BY <2>1, <2>3 DEF Carried, Sent
  <2>5. Live' = {s \in Samples : s \in buffer' \/ Carried(s)' \/ Sent(s)'}
    BY <2>2, <2>3, <2>4 DEF PlaceInv, OnePlace, Live
  <2>6. \A s \in buffer' : ~ Carried(s)' /\ ~ Sent(s)'
    BY <2>2, <2>4 DEF PlaceInv, OnePlace, TypeOK
  <2> QED BY <2>1, <2>2, <2>3, <2>5, <2>6 DEF PlaceInv, OnePlace, Sent
<1> QED BY <1>2, <1>3, <1>4, <1>5, <1>6, <1>7, <1>8, <1>9 DEF MainStep

LEMMA PlaceManager ==
  TypeOK /\ ShutdownInv /\ PlaceInv /\ ManagerStep => PlaceInv'
<1> SUFFICES ASSUME TypeOK, ShutdownInv, PlaceInv, ManagerStep PROVE PlaceInv'
  OBVIOUS
<1> USE DEF mainVars, backendVars, history
<1>1. CASE ManagerTakesSession
  <2>1. /\ sessions \in Seq(SessionSignal) /\ sessions # <<>> /\ sessions' = Tail(sessions)
        /\ hand' = Head(sessions).reports /\ hand = {} /\ manager' = "push"
        /\ UNCHANGED <<main, report, buffer, fate>>
    BY <1>1 DEF ManagerTakesSession, TypeOK, PlaceInv
  <2>2. /\ Queued = hand' \union Queued' /\ hand' \intersect Queued' = {}
        /\ \A i, j \in DOMAIN sessions' :
             i # j => sessions'[i].reports \intersect sessions'[j].reports = {}
    BY <2>1, QueuedTail DEF PlaceInv, OnePlace
  <2>3. \A s : Sent(s)' <=> Sent(s)
    BY <2>1, <2>2 DEF Sent
  <2>4. \A s : Carried(s)' <=> Carried(s)
    BY <2>1 DEF Carried
  <2> QED BY <2>1, <2>2, <2>3, <2>4 DEF PlaceInv, OnePlace, Live
<1>2. CASE ManagerTakesKill
  <2>1. /\ sessions' = <<>> /\ hand' = {} /\ hand = {} /\ manager' = "exited"
        /\ \A s \in Samples : fate'[s] = IF s \in Queued THEN "dropped" ELSE fate[s]
        /\ UNCHANGED <<main, report, buffer>>
    BY <1>2 DEF ManagerTakesKill, TypeOK, PlaceInv, Settle
  <2>2. Queued' = {} /\ DOMAIN sessions' = {}
    BY <2>1 DEF Queued
  <2>3. \A s : (Sent(s) <=> s \in Queued) /\ ~ Sent(s)'
    BY <2>1, <2>2 DEF Sent
  <2>4. \A s : Carried(s)' <=> Carried(s)
    BY <2>1 DEF Carried
  <2>5. \A s \in Queued : s \notin buffer /\ ~ Carried(s)
    BY <2>3 DEF PlaceInv, OnePlace, Carried
  <2>6. Live' = {s \in Samples : s \in buffer' \/ Carried(s)' \/ Sent(s)'}
    BY <2>1, <2>3, <2>4, <2>5 DEF PlaceInv, OnePlace, Live
  <2> QED BY <2>1, <2>2, <2>3, <2>4, <2>6 DEF PlaceInv, OnePlace
<1>3. CASE ManagerPushes
  <2>1. PICK how \in {"delivered", "rejected"} : fate' = Settle(hand, how)
    BY <1>3 DEF ManagerPushes
  <2>2. /\ hand' = {} /\ \A s \in Samples : fate'[s] = IF s \in hand THEN how ELSE fate[s]
        /\ UNCHANGED <<main, report, buffer, sessions>>
    BY <1>3, <2>1 DEF ManagerPushes, Settle
  <2>3. UNCHANGED Queued
    BY <2>2 DEF Queued
  <2>4. \A s : (Carried(s)' <=> Carried(s)) /\ (Sent(s)' <=> s \in Queued)
    BY <2>2, <2>3 DEF Carried, Sent
  <2>5. \A s \in hand : s \notin buffer /\ ~ Carried(s) /\ s \notin Queued
    BY DEF PlaceInv, OnePlace, Carried, Sent
  <2>6. Live' = {s \in Samples : s \in buffer' \/ Carried(s)' \/ Sent(s)'}
    BY <2>1, <2>2, <2>4, <2>5 DEF PlaceInv, OnePlace, Live, Sent
  <2> QED BY <2>2, <2>3, <2>4, <2>6 DEF PlaceInv, OnePlace, Sent
<1>4. CASE ManagerDisconnects
  <2>1. UNCHANGED Queued
    BY <1>4 DEF ManagerDisconnects, Queued
  <2> QED BY <1>4, <2>1 DEF ManagerDisconnects, PlaceInv, OnePlace, Live, Carried, Sent
<1> QED BY <1>1, <1>2, <1>3, <1>4 DEF ManagerStep

LEMMA PlaceRest ==
  ASSUME TypeOK, RunInv, ShutdownInv, PlaceInv,
         CallerChoice \/ CallerStep \/ TimerStep \/ TimerFault \/ Tick
           \/ \E s \in Samples : Record(s)
  PROVE  PlaceInv'
<1> USE DEF mainVars, backendVars, managerVars, history
<1>1. CASE Build
  <2>1. hand = {} /\ UNCHANGED <<main, report, sessions, hand, buffer, fate>>
    BY <1>1 DEF Build, PlaceInv, ShutdownInv
  <2>2. UNCHANGED Queued
    BY <2>1 DEF Queued
  <2> QED BY <2>1, <2>2 DEF PlaceInv, OnePlace, Live, Carried, Sent
<1>2. CASE Start
  <2>1. \A r \in Runs : main'[r] # "send" => report[r] = {}
    BY <1>2 DEF Start, PlaceInv, RunInv, Alive, TypeOK
  <2>2. UNCHANGED <<report, manager, sessions, hand, buffer, fate>>
    BY <1>2 DEF Start
  <2>3. UNCHANGED Queued
    BY <2>2 DEF Queued
  <2> QED BY <2>1, <2>2, <2>3 DEF PlaceInv, OnePlace, Live, Carried, Sent
<1>3. CASE ShutdownBackend
  <2>1. /\ buffer' = {} /\ UNCHANGED <<main, report, manager, sessions, hand>>
        /\ \A s \in Samples : fate'[s] = IF s \in buffer THEN "discarded" ELSE fate[s]
    BY <1>3 DEF ShutdownBackend, Settle
  <2>2. UNCHANGED Queued
    BY <2>1 DEF Queued
  <2>3. \A s : (Carried(s)' <=> Carried(s)) /\ (Sent(s)' <=> Sent(s))
    BY <2>1, <2>2 DEF Carried, Sent
  <2> QED BY <2>1, <2>2, <2>3 DEF PlaceInv, OnePlace, Live
<1>4. CASE ShutdownKills
  <2>1. /\ sessions \in Seq(SessionSignal) /\ Kill \in SessionSignal
        /\ sessions' = Append(sessions, Kill) /\ Kill.reports = {}
        /\ UNCHANGED <<main, report, manager, hand, buffer, fate>>
    BY <1>4, SignalTypes DEF ShutdownKills, TypeOK, Kill
  <2>2. /\ Queued' = Queued
        /\ \A i, j \in DOMAIN sessions' :
             i # j => sessions'[i].reports \intersect sessions'[j].reports = {}
    BY <2>1, QueuedAppend DEF PlaceInv, OnePlace
  <2>3. \A s : (Carried(s)' <=> Carried(s)) /\ (Sent(s)' <=> Sent(s))
    BY <2>1, <2>2 DEF Carried, Sent
  <2> QED BY <2>1, <2>2, <2>3 DEF PlaceInv, OnePlace, Live
<1>5. ASSUME NEW s \in Samples, Record(s) PROVE PlaceInv'
  <2>1. /\ fate[s] = "unrecorded" /\ buffer' = buffer \union {s}
        /\ \A q \in Samples : fate'[q] = IF q = s THEN "live" ELSE fate[q]
        /\ UNCHANGED <<main, report, manager, sessions, hand>>
    BY <1>5 DEF Record, TypeOK
  <2>2. UNCHANGED Queued
    BY <2>1 DEF Queued
  <2>3. \A q : (Carried(q)' <=> Carried(q)) /\ (Sent(q)' <=> Sent(q))
    BY <2>1, <2>2 DEF Carried, Sent
  <2>4. s \notin buffer /\ ~ Carried(s) /\ ~ Sent(s)
    BY <2>1 DEF PlaceInv, OnePlace, Live
  <2> QED BY <2>1, <2>2, <2>3, <2>4 DEF PlaceInv, OnePlace, Live
<1>6. CASE UNCHANGED <<main, report, manager, sessions, hand, buffer, fate>>
  BY <1>6, PlaceStutter
<1>7. CASE \/ BuildFails \/ Drop \/ StopBegins \/ TimerStep \/ TimerFault \/ Tick
           \/ CallerStep /\ ~ ShutdownKills
  BY <1>6, <1>7 DEF BuildFails, Drop, StopBegins, TimerStep, TimerFault, Tick, CallerStep,
     StopSendsSnapshot, StopSendsTerminate, StopFails, StopReturns, ShutdownListeners,
     ShutdownJoinsTimer, ShutdownJoinsManager, ShutdownJoinsMain, TimerChecks, TimerWakes,
     TimerStamps, TimerSends, TimerInterrupted, TimerFails
<1> QED BY <1>1, <1>2, <1>3, <1>4, <1>5, <1>7 DEF CallerChoice

LEMMA PlaceStep == TypeOK /\ RunInv /\ ShutdownInv /\ PlaceInv /\ [Next]_vars => PlaceInv'
<1> SUFFICES ASSUME TypeOK, RunInv, ShutdownInv, PlaceInv, [Next]_vars PROVE PlaceInv'
  OBVIOUS
<1>1. CASE UNCHANGED vars
  BY <1>1, PlaceStutter DEF vars, mainVars, managerVars, backendVars, history
<1> QED BY <1>1, PlaceMain, PlaceManager, PlaceRest DEF Next

\* No step of any thread loses a sample on the way or leaves it in two places: report()
\* moves all of the buffer, a send moves the report, a receive moves the session.
THEOREM SamplesHaveOnePlace == Spec => []OnePlace
<1>1. PlaceInv => OnePlace
  BY DEF PlaceInv
<1> QED BY PlaceInit, PlaceStep, RunInit, RunStep, ShutdownCorrect, TypeCorrect, <1>1, PTL DEF Spec

\* shutdown() of a stopped agent: every thread is gone and nothing is in flight, since
\* Kill was the last of the channel and the manager was joined.
THEOREM ShutdownOfReadyIsClean == Spec => []ShutdownLeavesNothing
<1>1. TypeOK /\ ShutdownInv /\ PlaceInv => ShutdownLeavesNothing
  <2> SUFFICES ASSUME TypeOK, ShutdownInv, PlaceInv, caller = "done", shutdownFrom = "ready"
               PROVE  /\ timer = "exited" /\ manager = "exited" /\ ~ sampling
                      /\ \A r \in Runs : ~ Alive(r)
                      /\ Live = {}
    BY DEF ShutdownLeavesNothing
  <2>1. /\ timer = "exited" /\ manager = "exited" /\ ~ sampling /\ buffer = {}
        /\ sessions = <<>> /\ \A r \in Runs : ~ Alive(r)
    BY DEF ShutdownInv
  <2>2. Queued = {} /\ hand = {} /\ \A r \in Runs : report[r] = {}
    BY <2>1, QueuedNone DEF PlaceInv, Alive
  <2>3. Live = {}
    BY <2>1, <2>2 DEF PlaceInv, OnePlace, Carried, Sent
  <2> QED BY <2>1, <2>3
<1> QED BY <1>1, PlaceInit, PlaceStep, RunInit, RunStep, ShutdownCorrect, TypeCorrect, PTL DEF Spec

-----------------------------------------------------------------------------
(* What the channels of the main threads hold.                             *)

\* The initial state.
LEMMA ChanInit == Init => ChanInv
  BY DEF Init, ChanInv, Alive

\* A channel that gets one more signal of type e keeps what ChanInv says of the others.
LEMMA ChanAppend ==
  ASSUME NEW q \in Seq(TimerSignal), NEW e \in TimerSignal
  PROVE  \A i \in DOMAIN Append(q, e) :
           Append(q, e)[i].signal = "Terminate" =>
             e.signal = "Terminate" \/ \E j \in DOMAIN q : q[j].signal = "Terminate"
  BY AppendAt

\* Signals are sent to live threads only, and Terminate only by StopSendsTerminate, which
\* leads to the wait.
LEMMA ChanStep == TypeOK /\ RunInv /\ ChanInv /\ [Next]_vars => ChanInv'
<1> SUFFICES ASSUME TypeOK, RunInv, ChanInv, [Next]_vars PROVE ChanInv'
  OBVIOUS
<1> USE DEF callerVars, timerVars, mainVars, managerVars, backendVars, history
<1>1. CASE UNCHANGED vars
  BY <1>1 DEF vars, ChanInv, Alive
<1>2. CASE CallerChoice
  <2>1. CASE Start
    <3>1. run + 1 \in Runs /\ run' = run + 1 /\ tx' = run'
      BY <2>1, AgentAssumption DEF AgentAssumption, Start, Runs, TypeOK
    <3>2. \A r \in Runs : chan'[r] = <<>>
      BY <2>1 DEF Start, RunInv, ChanInv
    <3>3. caller' = "running"
      BY <2>1 DEF Start
    <3> QED BY <3>1, <3>2, <3>3 DEF ChanInv
  <2>2. CASE Build BY <2>2 DEF Build, ChanInv, Alive
  <2>3. CASE BuildFails BY <2>3 DEF BuildFails, ChanInv, Alive
  <2>4. CASE Drop BY <2>4 DEF Drop, AgentDropped, ChanInv, Alive
  <2>5. CASE StopBegins BY <2>5 DEF StopBegins, ChanInv, Alive
  <2>6. CASE ShutdownBackend BY <2>6 DEF ShutdownBackend, ChanInv, Alive
  <2> QED BY <1>2, <2>1, <2>2, <2>3, <2>4, <2>5, <2>6 DEF CallerChoice
<1>3. CASE CallerStep
  <2>1. CASE StopSendsSnapshot
    <3>1. tx = run /\ run \in Runs /\ Alive(run) /\ chan[run] \in Seq(TimerSignal)
          /\ caller # "stop_wait"
      BY <2>1 DEF StopSendsSnapshot, ChanInv, TypeOK
    <3>2. \A r \in Runs : chan'[r] = IF r = run THEN Append(chan[r], NextSnapshot(stopUntil))
                                              ELSE chan[r]
      BY <2>1, <3>1 DEF StopSendsSnapshot, TypeOK
    <3>3. NextSnapshot(stopUntil) \in TimerSignal /\ NextSnapshot(stopUntil).signal # "Terminate"
      BY SignalTypes DEF NextSnapshot, TypeOK
    <3>4. \A i \in DOMAIN chan'[run] : chan'[run][i].signal # "Terminate"
      BY <3>1, <3>2, <3>3, ChanAppend DEF ChanInv
    <3>5. /\ caller' = "stop_terminate" /\ UNCHANGED <<main, run, tx>>
      BY <2>1 DEF StopSendsSnapshot
    <3> QED BY <3>1, <3>2, <3>4, <3>5 DEF ChanInv, Alive
  <2>2. CASE StopSendsTerminate
    <3>1. tx = run /\ run \in Runs /\ Alive(run)
      BY <2>2 DEF StopSendsTerminate, ChanInv
    <3>2. \A r \in Runs : r # run => chan'[r] = chan[r]
      BY <2>2, <3>1 DEF StopSendsTerminate, TypeOK
    <3>3. /\ caller' = "stop_wait" /\ UNCHANGED <<main, run>>
      BY <2>2 DEF StopSendsTerminate
    <3> QED BY <3>1, <3>2, <3>3 DEF ChanInv, Alive
  <2>3. CASE StopReturns
    <3>1. \A r \in Runs : chan'[r] = <<>>
      BY <2>3 DEF StopReturns, RunInv, ChanInv
    <3> QED BY <2>3, <3>1 DEF StopReturns, ChanInv
  <2>4. CASE StopFails BY <2>4 DEF StopFails, AgentDropped, ChanInv, Alive
  <2>5. CASE \/ ShutdownListeners \/ ShutdownJoinsTimer \/ ShutdownKills
             \/ ShutdownJoinsManager \/ ShutdownJoinsMain
    BY <2>5 DEF ShutdownListeners, ShutdownJoinsTimer, ShutdownKills, ShutdownJoinsManager,
                ShutdownJoinsMain, ChanInv, Alive
  <2> QED BY <1>3, <2>1, <2>2, <2>3, <2>4, <2>5 DEF CallerStep
<1>4. CASE TimerSends
  <2>1. /\ NextSnapshot(stamp) \in TimerSignal
        /\ NextSnapshot(stamp).signal # "Terminate"
    BY SignalTypes DEF NextSnapshot, TypeOK
  <2>2. ASSUME NEW r \in Runs
        PROVE  \/ chan'[r] = chan[r]
               \/ Alive(r) /\ chan'[r] = Append(chan[r], NextSnapshot(stamp))
    <3>1. chan'[r] = IF r \in txs /\ Alive(r) THEN Append(chan[r], NextSnapshot(stamp))
                                             ELSE chan[r]
      BY <1>4 DEF TimerSends
    <3> QED BY <3>1
  <2>3. UNCHANGED <<caller, main, run, tx>>
    BY <1>4 DEF TimerSends
  <2>4. ASSUME NEW r \in Runs, NEW i \in DOMAIN chan'[r], chan'[r][i].signal = "Terminate"
        PROVE  caller = "stop_wait"
    <3>1. chan[r] \in Seq(TimerSignal)
      BY DEF TypeOK
    <3>2. \E j \in DOMAIN chan[r] : chan[r][j].signal = "Terminate"
      BY <2>1, <2>2, <2>4, <3>1, ChanAppend
    <3> QED BY <3>2 DEF ChanInv
  <2> QED BY <2>2, <2>3, <2>4 DEF ChanInv, Alive
<1>5. CASE TimerChecks \/ TimerWakes \/ TimerStamps \/ TimerFault
  BY <1>5 DEF TimerChecks, TimerWakes, TimerStamps, TimerFault, TimerInterrupted, TimerFails,
              ChanInv, Alive
<1>6. ASSUME NEW r \in Runs, MainStep(r) \/ MainReportFails(r) PROVE ChanInv'
  <2>1. ASSUME MainExits(r), UNCHANGED <<caller, run, tx>> PROVE ChanInv'
    BY <2>1 DEF MainExits, ChanInv, Alive, TypeOK
  <2>2. CASE MainTakesSnapshot(r)
    <3>1. chan[r] \in Seq(TimerSignal) /\ chan[r] # <<>> /\ Alive(r)
      BY <2>2 DEF MainTakesSnapshot, Alive, TypeOK
    <3>2. \A q \in Runs : chan'[q] = IF q = r THEN Tail(chan[r]) ELSE chan[q]
      BY <2>2 DEF MainTakesSnapshot, TypeOK
    <3>3. \A i \in DOMAIN chan'[r] : i + 1 \in DOMAIN chan[r] /\ chan'[r][i] = chan[r][i + 1]
      <4>1. /\ DOMAIN chan[r] = 1..Len(chan[r]) /\ DOMAIN Tail(chan[r]) = 1..(Len(chan[r]) - 1)
            /\ \A i \in 1..(Len(chan[r]) - 1) : Tail(chan[r])[i] = chan[r][i + 1]
            /\ Len(chan[r]) \in Nat
        BY <3>1, TailAt
      <4>2. chan'[r] = Tail(chan[r])
        BY <3>2
      <4> QED BY <4>1, <4>2
    <3>4. \A q \in Runs : Alive(q)' <=> Alive(q)
      BY <2>2 DEF MainTakesSnapshot, Alive, TypeOK
    <3>5. UNCHANGED <<caller, run, tx>>
      BY <2>2 DEF MainTakesSnapshot
    <3> QED BY <3>1, <3>2, <3>3, <3>4, <3>5 DEF ChanInv
  <2>3. CASE MainReports(r) BY <2>3 DEF MainReports, ChanInv, Alive, TypeOK
  <2>4. CASE MainSends(r) BY <2>4 DEF MainSends, ChanInv, Alive, TypeOK
  <2>5. CASE \/ MainTerminates(r) \/ MainDisconnects(r) \/ MainFindsNoBackend(r)
             \/ MainSendFails(r) \/ MainReportFails(r)
    BY <2>1, <2>5 DEF MainTerminates, MainDisconnects, MainFindsNoBackend, MainSendFails,
                      MainReportFails
  <2> QED BY <1>6, <2>2, <2>3, <2>4, <2>5 DEF MainStep
<1>7. CASE ManagerStep \/ Tick \/ \E s \in Samples : Record(s)
  BY <1>7 DEF ManagerStep, ManagerTakesSession, ManagerTakesKill, ManagerPushes,
              ManagerDisconnects, Tick, Record, ChanInv, Alive
<1> QED BY <1>1, <1>2, <1>3, <1>4, <1>5, <1>6, <1>7 DEF Next, TimerStep

\* A Terminate is taken only while stop() waits.
LEMMA TerminateWaits ==
  ASSUME TypeOK, ChanInv, NEW r \in Runs, chan[r] # <<>>, Head(chan[r]).signal = "Terminate"
  PROVE  caller = "stop_wait"
<1>1. chan[r] \in Seq(TimerSignal)
  BY DEF TypeOK
<1>2. 1 \in DOMAIN chan[r] /\ Head(chan[r]) = chan[r][1]
  BY <1>1, TailAt
<1> QED BY <1>2 DEF ChanInv

-----------------------------------------------------------------------------
(* stop() flushes.                                                         *)

\* The initial state.
LEMMA FlushInit == Init => FlushInv
  BY DEF Init, FlushInv

\* What has been handed to the session manager stays with it or is pushed, as long as
\* the manager does not take Kill.
LEMMA FlushedStays ==
  ASSUME TypeOK, PlaceInv, ManagerTakesSession \/ ManagerPushes, NEW s \in Samples, Flushed(s)
  PROVE  Flushed(s)'
<1> USE DEF mainVars, backendVars, history
<1>1. CASE ManagerTakesSession
  <2>1. /\ sessions \in Seq(SessionSignal) /\ sessions # <<>> /\ sessions' = Tail(sessions)
        /\ hand' = Head(sessions).reports /\ hand = {} /\ fate' = fate
    BY <1>1 DEF ManagerTakesSession, TypeOK, PlaceInv
  <2>2. Queued = hand' \union Queued'
    BY <2>1, QueuedTail DEF PlaceInv, OnePlace
  <2> QED BY <2>1, <2>2 DEF Flushed, Sent
<1>2. CASE ManagerPushes
  <2>1. PICK how \in {"delivered", "rejected"} : fate' = Settle(hand, how)
    BY <1>2 DEF ManagerPushes
  <2>2. fate'[s] = IF s \in hand THEN how ELSE fate[s]
    BY <2>1 DEF Settle
  <2>3. UNCHANGED Queued
    BY <1>2 DEF ManagerPushes, Queued
  <2> QED BY <2>1, <2>2, <2>3 DEF Flushed, Sent
<1> QED BY <1>1, <1>2

\* A step that leaves the samples and the main thread alone.
LEMMA FlushStutter ==
  FlushInv /\ UNCHANGED <<caller, run, running, main, chan, report, sessions, hand, buffer,
                         fate, mark>>
    => FlushInv'
  BY DEF FlushInv, Flushed, Sent, Queued, SnapshotAhead, Alive

\* A snapshot at the head of a channel stays there when another signal is sent.
LEMMA AheadStays ==
  ASSUME TypeOK, NEW r \in Runs, NEW e \in TimerSignal, SnapshotAhead(r),
         chan'[r] \in {chan[r], Append(chan[r], e)}, main' = main
  PROVE  SnapshotAhead(r)'
<1>1. chan[r] \in Seq(TimerSignal)
  BY DEF TypeOK
<1>2. chan[r] # <<>> => Append(chan[r], e) # <<>> /\ Head(Append(chan[r], e)) = Head(chan[r])
  BY <1>1, AppendAt
<1> QED BY <1>2 DEF SnapshotAhead

\* The caller: stop() marks what is in flight, puts its snapshot behind whatever the timer
\* sent, and its Terminate behind that.
LEMMA FlushCaller ==
  TypeOK /\ RunInv /\ PlaceInv /\ ChanInv /\ FlushInv /\ (CallerChoice \/ CallerStep)
    => FlushInv'
<1> SUFFICES ASSUME TypeOK, RunInv, PlaceInv, ChanInv, FlushInv, CallerChoice \/ CallerStep
             PROVE  FlushInv'
  OBVIOUS
<1> USE DEF mainVars, managerVars, backendVars, history
<1>1. CASE Build BY <1>1 DEF Build, FlushInv
<1>2. CASE Start BY <1>2 DEF Start, FlushInv
<1>3. CASE StopBegins
  <2>1. /\ caller' = "stop_snapshot" /\ mark' = Live
        /\ UNCHANGED <<run, main, report, sessions, hand, buffer, fate>>
    BY <1>3 DEF StopBegins
  \* Only the last main thread can carry a report.
  <2>2. \A s : Carried(s) => s \in report[run]
    BY DEF Carried, PlaceInv, RunInv, Alive
  <2>3. \A s \in Live : Flushed(s) \/ s \in report[run] \/ s \in buffer
    BY <2>2 DEF PlaceInv, OnePlace, Flushed
  <2>4. \A s : Flushed(s)' <=> Flushed(s)
    BY <2>1 DEF Flushed, Sent, Queued
  <2> QED BY <2>1, <2>3, <2>4 DEF FlushInv
<1>4. CASE StopSendsSnapshot
  <2>1. /\ caller' = "stop_terminate" /\ caller = "stop_snapshot" /\ tx = run /\ run \in Runs
        /\ UNCHANGED <<run, running, main, report, sessions, hand, buffer, fate, mark>>
    BY <1>4 DEF StopSendsSnapshot, ChanInv
  <2>2. chan'[run] = Append(chan[run], NextSnapshot(stopUntil)) /\ chan[run] \in Seq(TimerSignal)
    BY <1>4, <2>1 DEF StopSendsSnapshot, TypeOK
  <2>3. /\ NextSnapshot(stopUntil) \in TimerSignal
        /\ NextSnapshot(stopUntil).signal = "NextSnapshot"
    BY SignalTypes DEF NextSnapshot, TypeOK
  \* No Terminate is before it.
  <2>4. ASSUME NEW i \in DOMAIN chan[run] PROVE chan[run][i].signal = "NextSnapshot"
    <3>1. chan[run][i] \in TimerSignal
      BY <2>2
    <3>2. chan[run][i].signal # "Terminate"
      BY <2>1, <2>4 DEF ChanInv
    <3> QED BY <3>1, <3>2 DEF TimerSignal
  <2>5. chan'[run] # <<>> /\ Head(chan'[run]).signal = "NextSnapshot"
    <3>1. /\ DOMAIN chan[run] = 1..Len(chan[run]) /\ Len(chan[run]) \in Nat
          /\ Len(chan'[run]) = Len(chan[run]) + 1 /\ chan'[run] \in Seq(TimerSignal)
          /\ \A i \in 1..Len(chan[run]) : chan'[run][i] = chan[run][i]
          /\ chan'[run][Len(chan[run]) + 1] = NextSnapshot(stopUntil)
      BY <2>2, <2>3, AppendAt
    <3>2. chan'[run] # <<>> /\ Head(chan'[run]) = chan'[run][1]
      BY <3>1
    <3>3. CASE Len(chan[run]) = 0
      BY <2>3, <3>1, <3>2, <3>3
    <3>4. CASE Len(chan[run]) # 0
      <4>1. 1 \in 1..Len(chan[run])
        BY <3>1, <3>4
      <4> QED BY <2>4, <3>1, <3>2, <4>1
    <3> QED BY <3>3, <3>4
  <2>6. Alive(run) => SnapshotAhead(run)'
    BY <2>1, <2>5 DEF SnapshotAhead, Alive
  <2>7. \A s : Flushed(s)' <=> Flushed(s)
    BY <2>1 DEF Flushed, Sent, Queued
  <2> QED BY <2>1, <2>6, <2>7 DEF FlushInv, Alive
<1>5. CASE StopSendsTerminate
  <2>1. /\ caller' = "stop_wait" /\ caller = "stop_terminate" /\ tx = run /\ run \in Runs
        /\ Alive(run)
        /\ UNCHANGED <<run, running, main, report, sessions, hand, buffer, fate, mark>>
    BY <1>5 DEF StopSendsTerminate, ChanInv
  <2>2. chan'[run] = Append(chan[run], Terminate)
    BY <1>5, <2>1 DEF StopSendsTerminate, TypeOK
  <2>3. SnapshotAhead(run) => SnapshotAhead(run)'
    <3>1. chan'[run] \in {chan[run], Append(chan[run], Terminate)}
      BY <2>2
    <3> QED BY <2>1, <3>1, AheadStays, SignalTypes
  <2>4. \A s : Flushed(s)' <=> Flushed(s)
    BY <2>1 DEF Flushed, Sent, Queued
  <2>5. running' /\ Alive(run)'
    BY <2>1 DEF RunInv, Alive
  <2> QED BY <2>1, <2>3, <2>4, <2>5 DEF FlushInv
<1>6. CASE StopReturns
  <2>1. \A s : Flushed(s)' <=> Flushed(s)
    BY <1>6 DEF StopReturns, Flushed, Sent, Queued
  <2> QED BY <1>6, <2>1 DEF StopReturns, FlushInv
<1>7. CASE \/ BuildFails \/ Drop \/ ShutdownBackend \/ StopFails \/ ShutdownListeners
           \/ ShutdownJoinsTimer \/ ShutdownKills \/ ShutdownJoinsManager
           \/ ShutdownJoinsMain
  <2>1. caller' \in {"gone", "shutdown_listeners", "shutdown_timer", "shutdown_kill",
                     "shutdown_manager", "shutdown_main", "done"}
    BY <1>7 DEF BuildFails, Drop, ShutdownBackend, StopFails, AgentDropped, ShutdownListeners,
                ShutdownJoinsTimer, ShutdownKills, ShutdownJoinsManager, ShutdownJoinsMain
  <2> QED BY <2>1 DEF FlushInv
<1> QED BY <1>1, <1>2, <1>3, <1>4, <1>5, <1>6, <1>7 DEF CallerChoice, CallerStep

\* The main thread: a snapshot moves the marked samples out of the buffer, a send hands
\* them over, and at the Terminate none is left.
LEMMA FlushMain ==
  ASSUME NEW r \in Runs, TypeOK, RunInv, ShutdownInv, PlaceInv, ChanInv, FlushInv,
         MainStep(r) \/ MainReportFails(r)
  PROVE  FlushInv'
<1> USE DEF callerVars, managerVars, history
<1>1. Alive(r) /\ r = run /\ running /\ caller \notin {"builder", "ready"}
  BY DEF MainStep, MainTakesSnapshot, MainTerminates, MainDisconnects, MainReports,
         MainFindsNoBackend, MainSends, MainSendFails, MainReportFails, RunInv, Alive
\* A thread that ends without taking Terminate leaves the flag set: stop() goes on waiting.
<1>2. ASSUME MainExits(r), UNCHANGED <<caller, run, running>> PROVE FlushInv'
  BY <1>1, <1>2 DEF MainExits, FlushInv, Alive, TypeOK
<1>3. CASE MainDisconnects(r) BY <1>2, <1>3 DEF MainDisconnects
<1>4. CASE MainFindsNoBackend(r) BY <1>2, <1>4 DEF MainFindsNoBackend
<1>5. CASE MainSendFails(r) BY <1>2, <1>5 DEF MainSendFails
<1>6. CASE MainReportFails(r) BY <1>2, <1>6 DEF MainReportFails
<1>7. CASE MainTerminates(r)
  <2>1. main[r] = "recv" /\ chan[r] # <<>> /\ Head(chan[r]).signal = "Terminate"
        /\ UNCHANGED <<caller, run, sessions, hand, buffer, fate, mark>>
    BY <1>7 DEF MainTerminates
  <2>2. caller = "stop_wait"
    BY <2>1, TerminateWaits
  <2>3. ~ SnapshotAhead(run) /\ report[run] = {}
    BY <1>1, <2>1 DEF SnapshotAhead, PlaceInv
  <2>4. \A s \in mark : Flushed(s)
    BY <1>1, <2>2, <2>3 DEF FlushInv
  <2>5. \A s : Flushed(s)' <=> Flushed(s)
    BY <2>1 DEF Flushed, Sent, Queued
  <2>6. ~ Alive(run)'
    BY <1>1, <1>7, <2>1 DEF MainTerminates, MainExits, Alive, TypeOK
  <2> QED BY <2>1, <2>2, <2>4, <2>5, <2>6 DEF FlushInv
<1>8. CASE MainTakesSnapshot(r)
  <2>1. main'[run] = "report"
        /\ UNCHANGED <<caller, run, running, report, sessions, hand, buffer, fate, mark>>
    BY <1>1, <1>8 DEF MainTakesSnapshot, backendVars, TypeOK
  <2>2. \A s : Flushed(s)' <=> Flushed(s)
    BY <2>1 DEF Flushed, Sent, Queued
  <2>3. SnapshotAhead(run)' /\ Alive(run)
    BY <1>1, <2>1 DEF SnapshotAhead
  <2> QED BY <1>1, <2>1, <2>2, <2>3 DEF FlushInv
<1>9. CASE MainReports(r)
  <2>1. /\ report'[run] = buffer /\ report[run] = {}
        /\ UNCHANGED <<caller, run, running, sessions, hand, fate, mark>>
    BY <1>1, <1>9 DEF MainReports, PlaceInv, TypeOK
  <2>2. \A s : Flushed(s)' <=> Flushed(s)
    BY <2>1 DEF Flushed, Sent, Queued
  <2> QED BY <1>1, <2>1, <2>2 DEF FlushInv
<1>10. CASE MainSends(r)
  <2>1. /\ sessions \in Seq(SessionSignal) /\ Session(until[r], report[r]) \in SessionSignal
        /\ sessions' = Append(sessions, Session(until[r], report[r]))
        /\ Session(until[r], report[r]).reports = report[run]
    BY <1>1, <1>10, SessionType DEF MainSends, TypeOK, Session
  <2>2. Queued' = Queued \union report[run]
    BY <2>1, QueuedAppend
  <2>3. /\ main[run] = "send" /\ main'[run] = "recv"
        /\ UNCHANGED <<caller, run, running, chan, hand, buffer, fate, mark>>
    BY <1>1, <1>10 DEF MainSends, backendVars, TypeOK
  <2>4. \A s : Flushed(s)' <=> Flushed(s) \/ s \in report[run]
    BY <2>2, <2>3 DEF Flushed, Sent
  <2>5. SnapshotAhead(run) => SnapshotAhead(run)'
    BY <2>3 DEF SnapshotAhead
  <2> QED BY <1>1, <2>3, <2>4, <2>5 DEF FlushInv
<1> QED BY <1>3, <1>4, <1>5, <1>6, <1>7, <1>8, <1>9, <1>10 DEF MainStep

\* The timer only puts further snapshots in the channel, the manager only pushes, the
\* profiler only adds.
LEMMA FlushRest ==
  ASSUME TypeOK, RunInv, ShutdownInv, PlaceInv, ChanInv, FlushInv,
         TimerStep \/ TimerFault \/ ManagerStep \/ Tick \/ \E s \in Samples : Record(s)
  PROVE  FlushInv'
<1> USE DEF callerVars, mainVars, backendVars, managerVars, history
<1>1. CASE TimerSends
  <2>1. UNCHANGED <<caller, run, running, main, report, sessions, hand, buffer, fate, mark>>
    BY <1>1 DEF TimerSends
  <2>2. NextSnapshot(stamp) \in TimerSignal
    BY SignalTypes DEF TypeOK
  <2>3. ASSUME run \in Runs, SnapshotAhead(run) PROVE SnapshotAhead(run)'
    <3>1. chan'[run] \in {chan[run], Append(chan[run], NextSnapshot(stamp))}
      BY <1>1, <2>3 DEF TimerSends
    <3> QED BY <2>1, <2>2, <2>3, <3>1, AheadStays
  <2>4. \A s : Flushed(s)' <=> Flushed(s)
    BY <2>1 DEF Flushed, Sent, Queued
  <2> QED BY <2>1, <2>3, <2>4 DEF FlushInv, ChanInv, Alive
<1>2. CASE ManagerTakesSession \/ ManagerPushes
  <2>1. UNCHANGED <<caller, run, running, main, chan, report, buffer, mark>>
    BY <1>2 DEF ManagerTakesSession, ManagerPushes
  <2>2. \A s \in mark : Flushed(s) => Flushed(s)'
    BY <1>2, FlushedStays DEF TypeOK
  <2> QED BY <2>1, <2>2 DEF FlushInv, Alive, SnapshotAhead
<1>3. CASE ManagerTakesKill
  <2>1. 1 \in DOMAIN sessions /\ IsKill(sessions[1])
    BY <1>3, TailAt DEF ManagerTakesKill, TypeOK, IsKill
  <2>2. caller' = "shutdown_manager"
    BY <1>3, <2>1 DEF ManagerTakesKill, ShutdownInv
  <2> QED BY <2>2 DEF FlushInv
<1>4. ASSUME NEW s \in Samples, Record(s) PROVE FlushInv'
  <2>1. /\ fate[s] = "unrecorded" /\ buffer' = buffer \union {s}
        /\ \A q \in Samples : fate'[q] = IF q = s THEN "live" ELSE fate[q]
        /\ UNCHANGED <<caller, run, running, main, chan, report, sessions, hand, mark>>
    BY <1>4 DEF Record, TypeOK
  <2>2. UNCHANGED Queued
    BY <2>1 DEF Queued
  <2>3. \A q \in Samples : Flushed(q) => Flushed(q)'
    BY <2>1, <2>2 DEF Flushed, Sent
  <2>4. mark \subseteq Samples
    BY DEF TypeOK
  <2> QED BY <2>1, <2>3, <2>4 DEF FlushInv, Alive, SnapshotAhead
<1>5. CASE TimerChecks \/ TimerWakes \/ TimerStamps \/ TimerFault \/ ManagerDisconnects \/ Tick
  BY <1>5, FlushStutter DEF TimerChecks, TimerWakes, TimerStamps, TimerFault, TimerInterrupted,
     TimerFails, ManagerDisconnects, Tick
<1> QED BY <1>1, <1>2, <1>3, <1>4, <1>5 DEF TimerStep, ManagerStep

LEMMA FlushStep ==
  TypeOK /\ RunInv /\ ShutdownInv /\ PlaceInv /\ ChanInv /\ FlushInv /\ [Next]_vars => FlushInv'
<1>1. FlushInv /\ UNCHANGED vars => FlushInv'
  BY FlushStutter DEF vars, callerVars, mainVars, managerVars, backendVars, history
<1> QED BY <1>1, FlushCaller, FlushMain, FlushRest DEF Next

\* When stop() returns the agent, everything that was in flight when it was called has
\* been reported: its NextSnapshot is in front of its Terminate, and the main thread
\* clears `running` only when it takes the Terminate.
THEOREM StopFlushesAll == Spec => []StopFlushes
<1>1. FlushInv => StopFlushes
  BY DEF FlushInv, StopFlushes, Flushed
<1> QED BY <1>1, FlushInit, FlushStep, ChanInit, ChanStep, PlaceInit, PlaceStep, RunInit, RunStep,
           ShutdownCorrect, TypeCorrect, PTL DEF Spec

-----------------------------------------------------------------------------
(* What the caller sees.                                                   *)

\* Only stop()'s Terminate clears `running`, so it is set as long as stop() sends.
FlagInv ==
  /\ caller \in {"builder", "ready"} => ~ running
  /\ caller \in {"running", "stop_snapshot", "stop_terminate"} => running

\* The initial state, then every step.
LEMMA FlagInit == Init => FlagInv
  BY DEF Init, FlagInv

LEMMA FlagStep == TypeOK /\ RunInv /\ ChanInv /\ FlagInv /\ [Next]_vars => FlagInv'
<1> SUFFICES ASSUME TypeOK, RunInv, ChanInv, FlagInv, [Next]_vars PROVE FlagInv'
  OBVIOUS
<1> USE DEF FlagInv, callerVars
<1>1. CASE UNCHANGED <<caller, running>>
  BY <1>1
<1>2. CASE CallerChoice
  <2>1. CASE Drop
    <3>1. caller' = "gone"
      BY <2>1 DEF Drop, AgentDropped
    <3> QED BY <3>1
  <2>2. CASE Start
    <3>1. caller' = "running" /\ running' = TRUE
      BY <2>2 DEF Start
    <3> QED BY <3>1
  <2>3. CASE Build \/ BuildFails \/ StopBegins \/ ShutdownBackend
    <3>1. /\ running' = running
          /\ \/ caller = "builder" /\ caller' = "ready"
             \/ caller = "running" /\ caller' = "stop_snapshot"
             \/ caller' \in {"gone", "shutdown_listeners"}
      BY <2>3 DEF Build, BuildFails, StopBegins, ShutdownBackend
    <3> QED BY <3>1
  <2> QED BY <1>2, <2>1, <2>2, <2>3 DEF CallerChoice
<1>3. CASE CallerStep
  <2>1. CASE StopFails
    <3>1. caller' = "gone"
      BY <2>1 DEF StopFails, AgentDropped
    <3> QED BY <3>1
  <2>2. CASE CallerStep /\ ~ StopFails
    <3>1. /\ running' = running
          /\ \/ caller = "stop_snapshot" /\ caller' = "stop_terminate"
             \/ caller' = "ready" /\ ~ running
             \/ caller' \notin {"builder", "ready", "running", "stop_snapshot",
                                "stop_terminate"}
      BY <2>2 DEF CallerStep, StopSendsSnapshot, StopSendsTerminate, StopReturns,
         ShutdownListeners, ShutdownJoinsTimer, ShutdownKills, ShutdownJoinsManager,
         ShutdownJoinsMain
    <3> QED BY <3>1
  <2> QED BY <1>3, <2>1, <2>2
<1>4. CASE TimerStep \/ TimerFault \/ ManagerStep \/ Tick \/ \E s \in Samples : Record(s)
  BY <1>1, <1>4 DEF TimerStep, TimerFault, TimerChecks, TimerWakes, TimerStamps, TimerSends,
     TimerInterrupted, TimerFails, ManagerStep, ManagerTakesSession, ManagerTakesKill,
     ManagerPushes, ManagerDisconnects, Tick, Record
<1>5. ASSUME NEW r \in Runs, MainStep(r) \/ MainReportFails(r) PROVE FlagInv'
  <2>1. CASE MainTerminates(r)
    <3>1. caller = "stop_wait"
      BY <2>1, TerminateWaits DEF MainTerminates
    <3> QED BY <2>1, <3>1 DEF MainTerminates
  <2> QED BY <1>1, <1>5, <2>1 DEF MainStep, MainTakesSnapshot, MainDisconnects, MainReports,
          MainFindsNoBackend, MainSends, MainSendFails, MainReportFails
<1>6. CASE UNCHANGED vars
  BY <1>1, <1>6 DEF vars
<1> QED BY <1>2, <1>3, <1>4, <1>5, <1>6 DEF Next

\* What the caller sees is the same when its three parts are.
LEMMA SameView ==
  ASSUME UNCHANGED <<Phase, MainFate, sampling>>
  PROVE  UNCHANGED CallerView
  BY DEF CallerView

LEMMA ViewParts ==
  CallerView.phase = Phase /\ CallerView.main = MainFate /\ CallerView.sampling = sampling
  BY DEF CallerView, AgentIs

LEMMA SameFate == UNCHANGED <<run, running, main>> => UNCHANGED MainFate
  BY DEF MainFate, Alive

LEMMA NoThreadLeft ==
  ASSUME TypeOK, RunInv
  PROVE  MainFate # "alive" <=> \A r \in Runs : ~ Alive(r)
  BY DEF MainFate, RunInv, Runs, TypeOK

LEMMA ContractCaller ==
  ASSUME TypeOK, RunInv, ChanInv, FlagInv, CallerChoice \/ CallerStep
  PROVE  Moves(CallerView, CallerView') \/ UNCHANGED CallerView
<1> USE DEF callerVars, timerVars, mainVars, managerVars, backendVars, history
<1>1. CASE Build
  <2>1. Phase = "builder" /\ Phase' = "ready" /\ sampling' = TRUE
    BY <1>1 DEF Build, Phase
  <2>2. MainFate' = MainFate
    BY <1>1, SameFate DEF Build
  <2> QED BY <2>1, <2>2, ViewParts, Zenon DEF CallerView, Moves, Builds
<1>2. CASE BuildFails
  <2>1. Phase = "builder" /\ Phase' = "gone" /\ sampling' \in BOOLEAN
    BY <1>2 DEF BuildFails, Phase
  <2>2. MainFate' = MainFate
    BY <1>2, SameFate DEF BuildFails
  <2> QED BY <2>1, <2>2, ViewParts, Zenon DEF CallerView, Moves, BuildErrs
<1>3. CASE Start
  <2>1. Phase = "ready" /\ Phase' = "running" /\ sampling' = sampling
    BY <1>3 DEF Start, Phase
  <2>2. MainFate \in {"none", "ended"}
    BY <1>3 DEF Start, MainFate, RunInv, FlagInv, Runs, TypeOK
  <2>3. MainFate' = "alive"
    <3>1. run + 1 # 0 /\ run + 1 \in Runs
      BY <1>3, AgentAssumption DEF AgentAssumption, Start, Runs, TypeOK
    <3>2. run' = run + 1 /\ main'[run + 1] = "recv"
      BY <1>3, <3>1 DEF Start, TypeOK
    <3> QED BY <3>1, <3>2 DEF MainFate, Alive
  <2> QED BY <2>1, <2>2, <2>3, ViewParts, Zenon DEF CallerView, Moves, Starts
<1>4. CASE Drop
  <2>1. Phase \in {"ready", "running"} /\ Phase' = "gone"
    BY <1>4 DEF Drop, AgentDropped, Phase
  <2>2. MainFate' = MainFate
    BY <1>4, SameFate DEF Drop, AgentDropped
  <2>3. sampling' \in {sampling, sampling /\ MainFate = "alive"}
    BY <1>4, NoThreadLeft, Zenon DEF Drop, AgentDropped
  <2> QED BY <2>1, <2>2, <2>3, ViewParts, Zenon DEF CallerView, Moves, IsDropped
<1>5. CASE StopBegins
  <2>1. Phase = "running" /\ Phase' = "stopping" /\ sampling' = sampling
    BY <1>5 DEF StopBegins, Phase
  <2>2. MainFate' = MainFate
    BY <1>5, SameFate DEF StopBegins
  <2> QED BY <2>1, <2>2, ViewParts, Zenon DEF CallerView, Moves, StopIsCalled
<1>6. CASE StopFails
  <2>1. Phase = "stopping" /\ Phase' = "gone"
    BY <1>6 DEF StopFails, AgentDropped, Phase
  <2>2. MainFate = "died"
    BY <1>6 DEF StopFails, MainFate, ChanInv, FlagInv, Runs
  <2>3. MainFate' = MainFate
    BY <1>6, SameFate DEF StopFails, AgentDropped
  <2>4. sampling' \in {sampling, FALSE}
    BY <1>6, Zenon DEF StopFails, AgentDropped
  <2> QED BY <2>1, <2>2, <2>3, <2>4, ViewParts, Zenon DEF CallerView, Moves, StopErrs
<1>7. CASE StopReturns
  <2>1. Phase = "stopping" /\ Phase' = "ready" /\ sampling' = sampling
    BY <1>7 DEF StopReturns, Phase
  <2>2. MainFate = "ended"
    BY <1>7 DEF StopReturns, MainFate, ChanInv, RunInv, Runs
  <2>3. MainFate' = MainFate
    BY <1>7, SameFate DEF StopReturns
  <2> QED BY <2>1, <2>2, <2>3, ViewParts, Zenon DEF CallerView, Moves, StopReturnsAgent
<1>8. CASE ShutdownBackend
  <2>1. Phase \in {"ready", "running"} /\ Phase' = "shutting" /\ sampling' = FALSE
    BY <1>8 DEF ShutdownBackend, Phase
  <2>2. MainFate' = MainFate
    BY <1>8, SameFate DEF ShutdownBackend
  <2> QED BY <2>1, <2>2, ViewParts, Zenon DEF CallerView, Moves, Shuts
<1>9. CASE ShutdownJoinsMain
  <2>1. Phase = "shutting" /\ Phase' = "done" /\ sampling' = sampling
    BY <1>9 DEF ShutdownJoinsMain, Phase
  <2>2. MainFate # "alive"
    BY <1>9 DEF ShutdownJoinsMain, MainFate, Alive, Runs, TypeOK
  <2>3. MainFate' = MainFate
    BY <1>9, SameFate DEF ShutdownJoinsMain
  <2> QED BY <2>1, <2>2, <2>3, ViewParts, Zenon DEF CallerView, Moves, ShutdownReturns
<1>10. CASE \/ StopSendsSnapshot \/ StopSendsTerminate \/ ShutdownListeners
            \/ ShutdownJoinsTimer \/ ShutdownKills \/ ShutdownJoinsManager
  <2>1. Phase' = Phase
    BY <1>10 DEF StopSendsSnapshot, StopSendsTerminate, ShutdownListeners,
       ShutdownJoinsTimer, ShutdownKills, ShutdownJoinsManager, Phase
  <2>2. UNCHANGED <<run, running, main, sampling>>
    BY <1>10 DEF StopSendsSnapshot, StopSendsTerminate, ShutdownListeners,
       ShutdownJoinsTimer, ShutdownKills, ShutdownJoinsManager
  <2> QED BY <2>1, <2>2, SameFate, SameView
<1> QED BY <1>1, <1>2, <1>3, <1>4, <1>5, <1>6, <1>7, <1>8, <1>9, <1>10
        DEF CallerChoice, CallerStep

LEMMA ContractMain ==
  ASSUME NEW r \in Runs, TypeOK, RunInv, ChanInv, MainStep(r) \/ MainReportFails(r)
  PROVE  Moves(CallerView, CallerView') \/ UNCHANGED CallerView
<1> USE DEF callerVars, timerVars, mainVars, managerVars, backendVars, history
<1>1. Alive(r)
  BY DEF MainStep, MainTakesSnapshot, MainTerminates, MainDisconnects, MainReports,
         MainFindsNoBackend, MainSends, MainSendFails, MainReportFails, Alive
<1>2. r = run /\ running /\ run # 0 /\ MainFate = "alive"
  BY <1>1 DEF RunInv, Runs, MainFate
\* A thread that ends with the flag set has died.
<1>3. ASSUME MainExits(r), UNCHANGED <<caller, run, running>>
      PROVE  MainDies(CallerView, CallerView')
  <2>1. Phase' = Phase
    BY <1>3 DEF Phase
  <2>2. MainFate' = "died"
    BY <1>2, <1>3 DEF MainExits, MainFate, Alive, TypeOK
  <2>3. Phase = "gone" <=> caller = "gone"
    BY DEF Phase
  <2>4. sampling' \in {sampling, sampling /\ Phase # "gone"}
    BY <1>3, <2>3, Zenon DEF MainExits
  <2> QED BY <1>2, <2>1, <2>2, <2>4, ViewParts, Zenon DEF CallerView, MainDies
<1>4. CASE MainTerminates(r)
  <2>1. caller = "stop_wait"
    BY <1>4, TerminateWaits DEF MainTerminates
  <2>2. Phase = "stopping" /\ Phase' = Phase
    BY <1>4, <2>1 DEF MainTerminates, Phase
  <2>3. MainFate' = "ended"
    BY <1>2, <1>4 DEF MainTerminates, MainExits, MainFate, Alive, TypeOK
  <2>4. sampling' = sampling
    BY <1>4, <2>1 DEF MainTerminates, MainExits
  <2> QED BY <1>2, <2>2, <2>3, <2>4, ViewParts, Zenon DEF CallerView, Moves, MainEnds
<1>5. CASE \/ MainDisconnects(r) \/ MainFindsNoBackend(r) \/ MainSendFails(r)
           \/ MainReportFails(r)
  BY <1>3, <1>5 DEF MainDisconnects, MainFindsNoBackend, MainSendFails, MainReportFails, Moves
<1>6. CASE MainTakesSnapshot(r) \/ MainReports(r) \/ MainSends(r)
  <2>1. UNCHANGED <<caller, run, running, sampling>>
    BY <1>6 DEF MainTakesSnapshot, MainReports, MainSends
  <2>0. main \in [Runs -> {"none", "recv", "report", "send", "exited"}] /\ run \in Runs
    BY <1>2 DEF TypeOK
  <2>2. Alive(run)'
    <3>1. main' \in {[main EXCEPT ![r] = "report"], [main EXCEPT ![r] = "send"],
                     [main EXCEPT ![r] = "recv"]} /\ run' = run
      BY <1>6, <2>1 DEF MainTakesSnapshot, MainReports, MainSends
    <3> QED BY <1>2, <2>0, <3>1 DEF Alive
  <2>3. Phase' = Phase /\ MainFate' = MainFate
    BY <1>2, <2>1, <2>2 DEF Phase, MainFate
  <2> QED BY <2>1, <2>3, SameView
<1> QED BY <1>4, <1>5, <1>6 DEF MainStep

\* What a caller of the agent relies on, FfiKit's loop thread in particular: start() never
\* meets a main thread of an earlier run, stop() gives the agent back only when the main
\* thread took its Terminate, and an error only when it died.
THEOREM ContractIsHonoured == Spec => HonoursContract
<1>1. Init => CallerView = NewAgent
  BY DEF Init, CallerView, Phase, MainFate, NewAgent
<1>2. TypeOK /\ RunInv /\ ChanInv /\ FlagInv /\ [Next]_vars
        => [Moves(CallerView, CallerView')]_CallerView
  <2> SUFFICES ASSUME TypeOK, RunInv, ChanInv, FlagInv, [Next]_vars
               PROVE  Moves(CallerView, CallerView') \/ UNCHANGED CallerView
    OBVIOUS
  <2>1. CASE UNCHANGED <<caller, run, running, main, sampling>>
    <3>1. Phase' = Phase
      BY <2>1 DEF Phase
    <3> QED BY <2>1, <3>1, SameFate, SameView
  <2>2. CASE TimerStep \/ TimerFault \/ ManagerStep \/ Tick \/ \E s \in Samples : Record(s)
    BY <2>1, <2>2 DEF TimerStep, TimerFault, TimerChecks, TimerWakes, TimerStamps, TimerSends,
       TimerInterrupted, TimerFails, ManagerStep, ManagerTakesSession, ManagerTakesKill,
       ManagerPushes, ManagerDisconnects, Tick, Record, callerVars, mainVars, backendVars
  <2>3. CASE UNCHANGED vars
    BY <2>1, <2>3 DEF vars, callerVars, mainVars, backendVars
  <2> QED BY <2>2, <2>3, ContractCaller, ContractMain DEF Next
<1> QED BY <1>1, <1>2, FlagInit, FlagStep, ChanInit, ChanStep, RunInit, RunStep, TypeCorrect, PTL
        DEF Spec, HonoursContract
=============================================================================
