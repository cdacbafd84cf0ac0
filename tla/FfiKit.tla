------------------------------- MODULE FfiKit -------------------------------
(***************************************************************************)
(* The agent behind a C interface: src/ffikit.rs and the entry points of   *)
(* the Python binding over it, pyroscope_ffi/python/rust/src/lib.rs.  The  *)
(* Ruby binding's are the same without the signal profiler.                *)
(*                                                                         *)
(* A global SENDER leads to the loop thread that owns the current agent;   *)
(* any thread of the host program may call an entry point at any time.     *)
(* Each call holds the mutex of SENDER throughout, and is one action.  Of  *)
(* an agent, this module knows AgentContract.                              *)
(***************************************************************************)
EXTENDS AgentContract, Naturals, Sequences

CONSTANTS
  Tags,         \* thread tags: a thread with a key and a value
  MaxAgents,    \* bound: agents built
  MaxSignals,   \* bound: signals accepted for one agent
  MaxFailures   \* bound: main threads that die

ASSUME FfiKitAssumption ==
  MaxAgents \in Nat /\ MaxSignals \in Nat /\ MaxFailures \in Nat

Agents == 1..MaxAgents

VARIABLES
  sender,     \* SENDER: the agent it leads to, 0 for None
  built,      \* agents built so far, or failed to
  agent,      \* what is known of each, as AgentContract says
  loop,       \* where its loop thread is
  queue,      \* its channel, oldest signal first
  tags,       \* the ThreadTagsSet of its backend
  using,      \* USING_PYSIGNALPROF
  accepted,   \* history: the signals for which send() returned Ok
  failures    \* history: main threads that died

vars == <<sender, built, agent, loop, queue, tags, using, accepted, failures>>

Signal == [signal : {"Kill"}] \union [signal : {"AddThreadTag", "RemoveThreadTag"}, tag : Tags]
Kill == [signal |-> "Kill"]
AddThreadTag(t) == [signal |-> "AddThreadTag", tag |-> t]
RemoveThreadTag(t) == [signal |-> "RemoveThreadTag", tag |-> t]

\* The loop thread holds the receiver until it returns.
Listening(k) == loop[k] \in {"recv", "stopping", "clearing"}

Init ==
  /\ sender = 0 /\ built = 0 /\ using = FALSE /\ failures = 0
  /\ agent = [k \in Agents |-> NewAgent]
  /\ loop = [k \in Agents |-> "none"]
  /\ queue = [k \in Agents |-> <<>>]
  /\ accepted = [k \in Agents |-> <<>>]
  /\ tags = [k \in Agents |-> {}]

Becomes(k, b) == agent' = [agent EXCEPT ![k] = b]

-----------------------------------------------------------------------------
(* The entry points.                                                       *)

\* (mutated form) run() does not look at SENDER.
RunAgain ==
  /\ built < MaxAgents
  /\ \E ready \in AgentState :
       /\ Builds(agent[built + 1], ready)
       /\ \E running \in AgentState : Starts(ready, running) /\ Becomes(built + 1, running)
  /\ built' = built + 1
  /\ sender' = built + 1
  /\ loop' = [loop EXCEPT ![built + 1] = "recv"]
  /\ UNCHANGED <<queue, tags, using, accepted, failures>>

\* initialize_agent over py-spy: run() builds and starts an agent, unless there is a
\* sender already.
RunSucceeds ==
  /\ sender = 0 /\ built < MaxAgents
  /\ \E ready \in AgentState :
       /\ Builds(agent[built + 1], ready)
       /\ \E running \in AgentState : Starts(ready, running) /\ Becomes(built + 1, running)
  /\ built' = built + 1
  /\ sender' = built + 1
  /\ loop' = [loop EXCEPT ![built + 1] = "recv"]
  /\ UNCHANGED <<queue, tags, using, accepted, failures>>

\* (mutated form) the sender is stored before build() returns its error.
RunStoresFirst ==
  /\ sender = 0 /\ built < MaxAgents
  /\ \E gone \in AgentState : BuildErrs(agent[built + 1], gone) /\ Becomes(built + 1, gone)
  /\ built' = built + 1
  /\ sender' = built + 1
  /\ UNCHANGED <<loop, queue, tags, using, accepted, failures>>

\* build() returns an error.
RunFails ==
  /\ sender = 0 /\ built < MaxAgents
  /\ \E gone \in AgentState : BuildErrs(agent[built + 1], gone) /\ Becomes(built + 1, gone)
  /\ built' = built + 1
  /\ UNCHANGED <<sender, loop, queue, tags, using, accepted, failures>>

\* initialize_agent with PYROSCOPE_PYSIGNALPROF set: the other profiler is started, and
\* nothing resets the flag, whether it starts or not.
UseSignalProfiler ==
  /\ using' = TRUE
  /\ UNCHANGED <<sender, built, agent, loop, queue, tags, accepted, failures>>

\* send() to a live loop thread; to a dead one or to none it is an error.
Send(s) ==
  /\ ~ using
  /\ sender # 0 /\ Listening(sender)
  /\ Len(accepted[sender]) < MaxSignals
  /\ queue' = [queue EXCEPT ![sender] = Append(@, s)]
  /\ accepted' = [accepted EXCEPT ![sender] = Append(@, s)]
  /\ UNCHANGED <<sender, built, agent, loop, tags, using, failures>>

drop_agent == Send(Kill)
add_thread_tag(t) == Send(AddThreadTag(t))
remove_thread_tag(t) == Send(RemoveThreadTag(t))

-----------------------------------------------------------------------------
(* The loop thread of agent k.                                             *)

Takes(k, s) ==
  /\ loop[k] = "recv"
  /\ queue[k] # <<>> /\ Head(queue[k]) = s
  /\ queue' = [queue EXCEPT ![k] = Tail(@)]

\* (mutated form) a tag that is there already, or not there, ends the loop.
LoopEndsOnTag(k) ==
  /\ \E t \in Tags :
       \/ /\ Takes(k, AddThreadTag(t))
          /\ tags' = [tags EXCEPT ![k] = @ \union {t}]
          /\ loop' = IF t \in tags[k] THEN [loop EXCEPT ![k] = "ended"] ELSE loop
       \/ /\ Takes(k, RemoveThreadTag(t))
          /\ tags' = [tags EXCEPT ![k] = @ \ {t}]
          /\ loop' = IF t \notin tags[k] THEN [loop EXCEPT ![k] = "ended"] ELSE loop
  /\ UNCHANGED <<sender, built, agent, using, accepted, failures>>

\* add_tag and remove_tag need the backend, which is there until shutdown().
LoopTags(k) ==
  /\ \E t \in Tags : \/ Takes(k, AddThreadTag(t))
                        /\ tags' = [tags EXCEPT ![k] = @ \union {t}]
                     \/ Takes(k, RemoveThreadTag(t))
                        /\ tags' = [tags EXCEPT ![k] = @ \ {t}]
  /\ UNCHANGED <<sender, built, agent, loop, using, accepted, failures>>

LoopTakesKill(k) ==
  /\ Takes(k, Kill)
  /\ \E b \in AgentState : StopIsCalled(agent[k], b) /\ Becomes(k, b)
  /\ loop' = [loop EXCEPT ![k] = "stopping"]
  /\ UNCHANGED <<sender, built, tags, using, accepted, failures>>

\* stop() returns the agent, which is dropped there and then: without shutdown().
LoopStopped(k) ==
  /\ loop[k] = "stopping"
  /\ \E ready \in AgentState :
       /\ StopReturnsAgent(agent[k], ready)
       /\ \E gone \in AgentState : IsDropped(ready, gone) /\ Becomes(k, gone)
  /\ loop' = [loop EXCEPT ![k] = "clearing"]
  /\ UNCHANGED <<sender, built, queue, tags, using, accepted, failures>>

\* (mutated form) the loop ends and SENDER stays.
LoopKeepsSender(k) ==
  /\ loop[k] = "clearing"
  /\ loop' = [loop EXCEPT ![k] = "ended"]
  /\ queue' = [queue EXCEPT ![k] = <<>>]
  /\ UNCHANGED <<sender, built, agent, tags, using, accepted, failures>>

\* SENDER becomes None, and the thread returns; its channel goes with what it holds.
LoopClears(k) ==
  /\ loop[k] = "clearing"
  /\ sender' = 0
  /\ loop' = [loop EXCEPT ![k] = "ended"]
  /\ queue' = [queue EXCEPT ![k] = <<>>]
  /\ UNCHANGED <<built, agent, tags, using, accepted, failures>>

\* stop() returns an error: the thread ends and SENDER stays.
LoopFailsToStop(k) ==
  /\ loop[k] = "stopping"
  /\ \E b \in AgentState : StopErrs(agent[k], b) /\ Becomes(k, b)
  /\ loop' = [loop EXCEPT ![k] = "ended"]
  /\ queue' = [queue EXCEPT ![k] = <<>>]
  /\ UNCHANGED <<sender, built, tags, using, accepted, failures>>

-----------------------------------------------------------------------------
(* The agents.                                                             *)

MainThreadEnds(k) ==
  /\ \E b \in AgentState : MainEnds(agent[k], b) /\ Becomes(k, b)
  /\ UNCHANGED <<sender, built, loop, queue, tags, using, accepted, failures>>

MainThreadDies(k) ==
  /\ failures < MaxFailures
  /\ failures' = failures + 1
  /\ \E b \in AgentState : MainDies(agent[k], b) /\ Becomes(k, b)
  /\ UNCHANGED <<sender, built, loop, queue, tags, using, accepted>>

-----------------------------------------------------------------------------
HostStep == \/ RunSucceeds \/ RunFails \/ UseSignalProfiler \/ drop_agent
            \/ \E t \in Tags : add_thread_tag(t) \/ remove_thread_tag(t)
LoopStep(k) == \/ LoopTags(k) \/ LoopTakesKill(k) \/ LoopStopped(k) \/ LoopClears(k)

Next ==
  \/ HostStep
  \/ \E k \in Agents : LoopStep(k)
  \/ \E k \in Agents : LoopFailsToStop(k)
  \/ \E k \in Agents : MainThreadEnds(k)
  \/ \E k \in Agents : MainThreadDies(k)

\* The loop thread runs, and a main thread ends when it is told to: Agent's StopEnds.
\* A stop() whose main thread has died need not return.
Fairness == \A k \in Agents : WF_vars(LoopStep(k)) /\ WF_vars(MainThreadEnds(k))

Spec == Init /\ [][Next]_vars /\ Fairness

-----------------------------------------------------------------------------
\* The variables have their types, and SENDER leads to a loop thread that was started.
TypeOK ==
  /\ sender \in 0..built /\ built \in 0..MaxAgents
  /\ sender # 0 => loop[sender] # "none"
  /\ agent \in [Agents -> AgentState]
  /\ loop \in [Agents -> {"none", "recv", "stopping", "clearing", "ended"}]
  /\ queue \in [Agents -> Seq(Signal)] /\ accepted \in [Agents -> Seq(Signal)]
  /\ tags \in [Agents -> SUBSET Tags]
  /\ using \in BOOLEAN /\ failures \in 0..MaxFailures

\* However the host's threads initialize and drop, two agents never report at the same
\* time: run() succeeds only when the agent before has stopped or its build failed.
OneAgentRuns ==
  \A k, l \in Agents : agent[k].main = "alive" /\ agent[l].main = "alive" => k = l

\* A signal the host was told is accepted is taken by the loop in its turn, unless a Kill
\* was taken before it: what an agent has taken ends with its only Kill.
LostBehindKill ==
  \A k \in Agents :
    LET taken == Len(accepted[k]) - Len(queue[k])
        kills == {i \in DOMAIN accepted[k] : accepted[k][i] = Kill}
    IN  IF loop[k] = "recv"
        THEN queue[k] = SubSeq(accepted[k], taken + 1, Len(accepted[k]))
             /\ \A i \in kills : i > taken
        ELSE loop[k] # "none" => kills # {}

\* A Kill that was accepted stops the agent and makes room for another, unless the main
\* thread died.
KillFreesSender ==
  \A k \in Agents :
    (\E i \in DOMAIN accepted[k] : accepted[k][i] = Kill)
      ~> ((sender # k /\ agent[k].main = "ended") \/ failures > 0)

\* "Pyroscope Agent successfully shutdown" (pyroscope/__init__.py:70), which the Python
\* package logs when drop_agent was accepted: the profiler of a killed agent stops.
KillStopsProfiler == \A k \in Agents : loop[k] = "ended" ~> ~ agent[k].sampling
=============================================================================
