--------------------------- MODULE AgentContract ---------------------------
(***************************************************************************)
(* One agent as its caller sees it: the call in progress, what became of   *)
(* the main thread of the last start(), and whether the profiler samples.  *)
(* Agent is shown to honour this contract, and FfiKit relies on it.        *)
(***************************************************************************)

\* A main thread has "ended" when it took stop()'s Terminate, and "died" otherwise.
AgentState == [phase : {"builder", "ready", "running", "stopping", "shutting", "done", "gone"},
               main : {"none", "alive", "ended", "died"},
               sampling : BOOLEAN]

AgentIs(phase, main, sampling) == [phase |-> phase, main |-> main, sampling |-> sampling]
NewAgent == AgentIs("builder", "none", FALSE)

\* From state a, the agent can be in state b next because ...
Builds(a, b) == a.phase = "builder" /\ b = AgentIs("ready", a.main, TRUE)

BuildErrs(a, b) ==
  a.phase = "builder" /\ b \in {AgentIs("gone", a.main, on) : on \in BOOLEAN}

\* start() begins with no main thread left.
Starts(a, b) ==
  /\ a.phase = "ready" /\ a.main \in {"none", "ended"}
  /\ b = AgentIs("running", "alive", a.sampling)

StopIsCalled(a, b) == a.phase = "running" /\ b = AgentIs("stopping", a.main, a.sampling)

\* Only a stop() in progress ends the main thread properly.
MainEnds(a, b) ==
  a.phase = "stopping" /\ a.main = "alive" /\ b = AgentIs(a.phase, "ended", a.sampling)

\* With the agent gone, the main thread may hold the last reference to the backend.
MainDies(a, b) ==
  /\ a.main = "alive"
  /\ \E on \in {a.sampling, a.sampling /\ a.phase # "gone"} :
       b = AgentIs(a.phase, "died", on)

\* stop() returns the agent when the main thread has ended, and may return an error when
\* it has died; it may also never return then.
StopReturnsAgent(a, b) ==
  a.phase = "stopping" /\ a.main = "ended" /\ b = AgentIs("ready", "ended", a.sampling)

StopErrs(a, b) ==
  /\ a.phase = "stopping" /\ a.main = "died"
  /\ \E on \in {a.sampling, FALSE} : b = AgentIs("gone", "died", on)

IsDropped(a, b) ==
  /\ a.phase \in {"ready", "running"}
  /\ \E on \in {a.sampling, a.sampling /\ a.main = "alive"} :
       b = AgentIs("gone", a.main, on)

Shuts(a, b) ==
  a.phase \in {"ready", "running"} /\ b = AgentIs("shutting", a.main, FALSE)

ShutdownReturns(a, b) ==
  a.phase = "shutting" /\ a.main # "alive" /\ b = AgentIs("done", a.main, a.sampling)

Moves(a, b) ==
  \/ Builds(a, b) \/ BuildErrs(a, b) \/ Starts(a, b) \/ StopIsCalled(a, b)
  \/ MainEnds(a, b) \/ MainDies(a, b) \/ StopReturnsAgent(a, b) \/ StopErrs(a, b)
  \/ IsDropped(a, b) \/ Shuts(a, b) \/ ShutdownReturns(a, b)
=============================================================================
