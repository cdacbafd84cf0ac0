---------------------------- MODULE FfiKitProofs ----------------------------
(***************************************************************************)
(* Theorems about FfiKit, for every number of agents, tags, signals and    *)
(* failures.                                                               *)
(***************************************************************************)
EXTENDS FfiKit, TLAPS

\* An agent not built yet is new and has no loop thread.
NotBuiltYet ==
  \A k \in Agents : k > built => agent[k] = NewAgent /\ loop[k] = "none"

\* A loop thread that can take a signal is the one SENDER leads to.
OneListens == \A k \in Agents : Listening(k) => sender = k

\* A main thread lives only while its agent's loop thread runs or stops the agent.
LoopOwnsAgent ==
  \A k \in Agents : agent[k].main = "alive" => loop[k] \in {"recv", "stopping"}

SenderInv == NotBuiltYet /\ OneListens /\ LoopOwnsAgent

\* The bounds, and a signal accepted is a signal.
LEMMA SignalTypes ==
  /\ Kill \in Signal
  /\ \A t \in Tags : AddThreadTag(t) \in Signal /\ RemoveThreadTag(t) \in Signal
  BY DEF Kill, AddThreadTag, RemoveThreadTag, Signal

LEMMA NewAgentType == NewAgent \in AgentState
  BY DEF NewAgent, AgentIs, AgentState

\* An agent that runs was built and started.
LEMMA Running ==
  ASSUME NEW a, NEW ready \in AgentState, NEW b \in AgentState,
         Builds(a, ready), Starts(ready, b)
  PROVE  b.main = "alive"
  BY DEF Starts, AgentIs

LEMMA TypeInit == Init => TypeOK
<1> SUFFICES ASSUME Init PROVE TypeOK
  OBVIOUS
<1>1. agent \in [Agents -> AgentState]
  BY NewAgentType DEF Init
<1>2. <<>> \in Seq(Signal)
  OBVIOUS
<1>3. queue \in [Agents -> Seq(Signal)] /\ accepted \in [Agents -> Seq(Signal)]
  BY <1>2 DEF Init
<1>4. tags \in [Agents -> SUBSET Tags]
  BY DEF Init
<1>5. loop \in [Agents -> {"none", "recv", "stopping", "clearing", "ended"}]
  BY DEF Init
<1>6. /\ sender \in 0..built /\ built \in 0..MaxAgents /\ failures \in 0..MaxFailures
      /\ sender # 0 => loop[sender] # "none"
  BY FfiKitAssumption DEF FfiKitAssumption, Init
<1>7. using \in BOOLEAN
  BY DEF Init
<1> QED BY <1>1, <1>3, <1>4, <1>5, <1>6, <1>7, Zenon DEF TypeOK

LEMMA AgentBecomes ==
  ASSUME TypeOK, NEW k \in Agents, NEW b \in AgentState, Becomes(k, b)
  PROVE  agent' \in [Agents -> AgentState]
  BY DEF TypeOK, Becomes

LEMMA QueueEmptied ==
  ASSUME TypeOK, NEW k \in Agents
  PROVE  [queue EXCEPT ![k] = <<>>] \in [Agents -> Seq(Signal)]
<1>1. <<>> \in Seq(Signal)
  OBVIOUS
<1> QED BY <1>1 DEF TypeOK

LEMMA TypeStep == TypeOK /\ [Next]_vars => TypeOK'
<1> SUFFICES ASSUME TypeOK, [Next]_vars PROVE TypeOK'
  OBVIOUS
<1> USE FfiKitAssumption DEF FfiKitAssumption, TypeOK, Agents
<1>1. CASE RunSucceeds
  <2>1. built + 1 \in Agents /\ built' = built + 1 /\ sender' = built + 1
        /\ loop' = [loop EXCEPT ![built + 1] = "recv"]
    BY <1>1 DEF RunSucceeds
  <2>2. agent' \in [Agents -> AgentState]
    BY <1>1 DEF RunSucceeds, Becomes
  <2> QED BY <1>1, <2>1, <2>2 DEF RunSucceeds
<1>2. CASE RunFails
  <2>1. agent' \in [Agents -> AgentState]
    BY <1>2 DEF RunFails, Becomes
  <2> QED BY <1>2, <2>1 DEF RunFails
<1>3. CASE UseSignalProfiler
  BY <1>3 DEF UseSignalProfiler
<1>4. ASSUME NEW s \in Signal, Send(s) PROVE TypeOK'
  BY <1>4 DEF Send
<1>5. ASSUME NEW k \in Agents, LoopTags(k) PROVE TypeOK'
  <2>1. queue[k] # <<>> /\ queue' = [queue EXCEPT ![k] = Tail(@)]
    BY <1>5 DEF LoopTags, Takes
  <2>2. tags' \in [Agents -> SUBSET Tags]
    BY <1>5 DEF LoopTags, Takes
  <2> QED BY <1>5, <2>1, <2>2 DEF LoopTags
<1>6. ASSUME NEW k \in Agents, LoopTakesKill(k) PROVE TypeOK'
  <2>1. agent' \in [Agents -> AgentState]
    BY <1>6, AgentBecomes DEF LoopTakesKill
  <2>2. queue[k] # <<>> /\ queue' = [queue EXCEPT ![k] = Tail(@)]
    BY <1>6 DEF LoopTakesKill, Takes
  <2>3. queue' \in [Agents -> Seq(Signal)]
    BY <2>2
  <2>4. loop' = [loop EXCEPT ![k] = "stopping"]
        /\ UNCHANGED <<sender, built, tags, using, accepted, failures>>
    BY <1>6 DEF LoopTakesKill
  <2> QED BY <2>1, <2>3, <2>4
<1>7. ASSUME NEW k \in Agents, LoopStopped(k) PROVE TypeOK'
  <2>1. agent' \in [Agents -> AgentState]
    BY <1>7, AgentBecomes DEF LoopStopped
  <2>2. loop' = [loop EXCEPT ![k] = "clearing"]
        /\ UNCHANGED <<sender, built, queue, tags, using, accepted, failures>>
    BY <1>7 DEF LoopStopped
  <2> QED BY <2>1, <2>2
<1>8. ASSUME NEW k \in Agents, LoopClears(k) \/ LoopFailsToStop(k) PROVE TypeOK'
  <2>1. agent' \in [Agents -> AgentState]
    BY <1>8, AgentBecomes DEF LoopClears, LoopFailsToStop
  <2>0. queue' = [queue EXCEPT ![k] = <<>>]
    BY <1>8, Zenon DEF LoopClears, LoopFailsToStop
  <2>2. queue' \in [Agents -> Seq(Signal)]
    BY <1>8, <2>0, QueueEmptied, Zenon
  <2>3. loop' = [loop EXCEPT ![k] = "ended"] /\ sender' \in {0, sender}
        /\ UNCHANGED <<built, tags, using, accepted, failures>>
    BY <1>8 DEF LoopClears, LoopFailsToStop
  <2> QED BY <2>1, <2>2, <2>3
<1>9. ASSUME NEW k \in Agents, MainThreadEnds(k) \/ MainThreadDies(k) PROVE TypeOK'
  <2>1. agent' \in [Agents -> AgentState]
    BY <1>9, AgentBecomes DEF MainThreadEnds, MainThreadDies
  <2>2. failures' \in 0..MaxFailures
        /\ UNCHANGED <<sender, built, loop, queue, tags, using, accepted>>
    BY <1>9 DEF MainThreadEnds, MainThreadDies
  <2> QED BY <2>1, <2>2
<1>10. CASE UNCHANGED vars
  BY <1>10 DEF vars
<1> QED BY <1>1, <1>2, <1>3, <1>4, <1>5, <1>6, <1>7, <1>8, <1>9, <1>10, SignalTypes
        DEF Next, HostStep, LoopStep, drop_agent, add_thread_tag, remove_thread_tag

\* Type correctness of the interface's state.
THEOREM FfiTypeCorrect == Spec => []TypeOK
  BY TypeInit, TypeStep, PTL DEF Spec

LEMMA SenderInit == Init => SenderInv
  BY FfiKitAssumption
     DEF FfiKitAssumption, Init, SenderInv, NotBuiltYet, OneListens, LoopOwnsAgent, Listening,
         Agents, NewAgent, AgentIs

LEMMA SenderStep == TypeOK /\ SenderInv /\ [Next]_vars => SenderInv'
<1> SUFFICES ASSUME TypeOK, SenderInv, [Next]_vars PROVE SenderInv'
  OBVIOUS
<1> USE FfiKitAssumption
    DEF FfiKitAssumption, TypeOK, SenderInv, NotBuiltYet, OneListens, LoopOwnsAgent, Listening
\* Nobody listens when run() finds no sender, so nobody reports either.
<1>1. CASE RunSucceeds
  <2>1. built + 1 \in Agents /\ built \in Nat /\ built' = built + 1 /\ sender' = built + 1
        /\ loop' = [loop EXCEPT ![built + 1] = "recv"] /\ sender = 0
    BY <1>1 DEF RunSucceeds, Agents
  <2>2. \A k \in Agents \ {built + 1} : agent'[k] = agent[k]
    BY <1>1, <2>1 DEF RunSucceeds, Becomes
  <2>3. \A k \in Agents : ~ Listening(k)
    BY <2>1 DEF Agents
  <2>4. NotBuiltYet'
    BY <2>1, <2>2 DEF Agents
  <2>5. OneListens' /\ LoopOwnsAgent'
    BY <2>1, <2>2, <2>3
  <2> QED BY <2>4, <2>5
<1>2. CASE RunFails
  <2>1. built + 1 \in Agents /\ built \in Nat /\ built' = built + 1
        /\ UNCHANGED <<sender, loop>>
    BY <1>2 DEF RunFails, Agents
  <2>2. agent[built + 1] = NewAgent
    BY <2>1 DEF Agents
  <2>3. agent'[built + 1].main = "none"
    BY <1>2, <2>1, <2>2 DEF RunFails, Becomes, BuildErrs, NewAgent, AgentIs
  <2>4. \A k \in Agents \ {built + 1} : agent'[k] = agent[k]
    BY <1>2, <2>1 DEF RunFails, Becomes
  <2>5. NotBuiltYet'
    BY <2>1, <2>4 DEF Agents
  <2>6. OneListens' /\ LoopOwnsAgent'
    BY <2>1, <2>3, <2>4
  <2> QED BY <2>5, <2>6
<1>3. CASE UNCHANGED <<built, sender, agent, loop>>
  BY <1>3
<1>4. ASSUME NEW k \in Agents, LoopTakesKill(k) PROVE SenderInv'
  <2>1. loop[k] = "recv" /\ loop' = [loop EXCEPT ![k] = "stopping"]
        /\ UNCHANGED <<built, sender>>
    BY <1>4 DEF LoopTakesKill, Takes
  <2>2. \A j \in Agents \ {k} : agent'[j] = agent[j]
    BY <1>4 DEF LoopTakesKill, Becomes
  <2> QED BY <2>1, <2>2 DEF Agents
<1>5. ASSUME NEW k \in Agents, LoopStopped(k) PROVE SenderInv'
  <2>1. loop[k] = "stopping" /\ loop' = [loop EXCEPT ![k] = "clearing"]
        /\ UNCHANGED <<built, sender>>
    BY <1>5 DEF LoopStopped
  <2>2. agent'[k].main = "ended"
    BY <1>5 DEF LoopStopped, Becomes, StopReturnsAgent, IsDropped, AgentIs
  <2>3. \A j \in Agents \ {k} : agent'[j] = agent[j]
    BY <1>5 DEF LoopStopped, Becomes
  <2> QED BY <2>1, <2>2, <2>3 DEF Agents
<1>6. ASSUME NEW k \in Agents, LoopClears(k) PROVE SenderInv'
  <2>1. loop[k] = "clearing" /\ loop' = [loop EXCEPT ![k] = "ended"]
        /\ sender' = 0 /\ UNCHANGED <<built, agent>>
    BY <1>6 DEF LoopClears
  <2>2. sender = k
    BY <2>1
  <2> QED BY <2>1, <2>2 DEF Agents
<1>7. ASSUME NEW k \in Agents, LoopFailsToStop(k) PROVE SenderInv'
  <2>1. loop[k] = "stopping" /\ loop' = [loop EXCEPT ![k] = "ended"]
        /\ UNCHANGED <<built, sender>>
    BY <1>7 DEF LoopFailsToStop
  <2>2. agent'[k].main = "died"
    BY <1>7 DEF LoopFailsToStop, Becomes, StopErrs, AgentIs
  <2>3. \A j \in Agents \ {k} : agent'[j] = agent[j]
    BY <1>7 DEF LoopFailsToStop, Becomes
  <2> QED BY <2>1, <2>2, <2>3 DEF Agents
<1>8. ASSUME NEW k \in Agents, MainThreadEnds(k) \/ MainThreadDies(k) PROVE SenderInv'
  <2>1. UNCHANGED <<built, sender, loop>>
    BY <1>8 DEF MainThreadEnds, MainThreadDies
  <2>2. agent[k].main = "alive" /\ agent'[k].main \in {"ended", "died"}
    BY <1>8 DEF MainThreadEnds, MainThreadDies, Becomes, MainEnds, MainDies, AgentIs
  <2>3. \A j \in Agents \ {k} : agent'[j] = agent[j]
    BY <1>8 DEF MainThreadEnds, MainThreadDies, Becomes
  <2>4. ~ (k > built)
    BY <2>2 DEF NewAgent, AgentIs
  <2> QED BY <2>1, <2>2, <2>3, <2>4 DEF Agents
<1>9. CASE \/ UseSignalProfiler \/ UNCHANGED vars
           \/ \E s \in Signal : Send(s)
           \/ \E k \in Agents : LoopTags(k)
  BY <1>3, <1>9 DEF UseSignalProfiler, vars, Send, LoopTags
<1> QED BY <1>1, <1>2, <1>4, <1>5, <1>6, <1>7, <1>8, <1>9, SignalTypes
        DEF Next, HostStep, LoopStep, drop_agent, add_thread_tag, remove_thread_tag

\* However the host's threads initialize and drop, at most one agent reports: a main
\* thread is alive only while the loop thread that SENDER leads to has not stopped it,
\* and run() refuses as long as SENDER leads somewhere.
THEOREM OnlyOneAgentRuns == Spec => []OneAgentRuns
<1>1. SenderInv => OneAgentRuns
  BY DEF SenderInv, OneListens, LoopOwnsAgent, Listening, OneAgentRuns
<1> QED BY <1>1, SenderInit, SenderStep, FfiTypeCorrect, PTL DEF Spec

-----------------------------------------------------------------------------
(* What becomes of the signals that were accepted.                         *)

\* Of one agent: its channel q holds the end of what was accepted, a, and what was taken has
\* no Kill as long as the loop goes on.
Suffix(q, a) ==
  /\ Len(q) <= Len(a)
  /\ \A i \in 1..Len(q) : q[i] = a[Len(a) - Len(q) + i]
  /\ \A i \in 1..(Len(a) - Len(q)) : a[i] # Kill

HasKill(a) == \E i \in 1..Len(a) : a[i] = Kill

ChannelIsRight(q, a, l) ==
  CASE l = "none" -> q = <<>> /\ a = <<>>
    [] l = "recv" -> Suffix(q, a)
    [] OTHER      -> HasKill(a)

QueueInv == \A k \in Agents : ChannelIsRight(queue[k], accepted[k], loop[k])

\* A signal that is accepted is the last of both.
LEMMA SuffixSend ==
  ASSUME NEW q \in Seq(Signal), NEW a \in Seq(Signal), NEW s \in Signal, Suffix(q, a)
  PROVE  Suffix(Append(q, s), Append(a, s))
<1> DEFINE q1 == Append(q, s)
           a1 == Append(a, s)
<1>1. /\ Len(q1) = Len(q) + 1 /\ Len(a1) = Len(a) + 1 /\ Len(q) \in Nat /\ Len(a) \in Nat
      /\ \A i \in 1..Len(q) : q1[i] = q[i]
      /\ \A i \in 1..Len(a) : a1[i] = a[i]
      /\ q1[Len(q) + 1] = s /\ a1[Len(a) + 1] = s
  OBVIOUS
<1> HIDE DEF q1, a1
<1>2. ASSUME NEW i \in 1..Len(q1) PROVE q1[i] = a1[Len(a1) - Len(q1) + i]
  <2>1. CASE i = Len(q) + 1
    <3>1. Len(a1) - Len(q1) + i = Len(a) + 1
      BY <1>1, <2>1
    <3> QED BY <1>1, <2>1, <3>1
  <2>2. CASE i # Len(q) + 1
    <3>1. i \in 1..Len(q) /\ Len(a1) - Len(q1) + i = Len(a) - Len(q) + i
      BY <1>1, <1>2, <2>2
    <3>2. Len(a) - Len(q) + i \in 1..Len(a)
      BY <1>1, <3>1 DEF Suffix
    <3> QED BY <1>1, <3>1, <3>2 DEF Suffix
  <2> QED BY <2>1, <2>2
<1>3. ASSUME NEW i \in 1..(Len(a1) - Len(q1)) PROVE a1[i] # Kill
  <2>1. i \in 1..(Len(a) - Len(q)) /\ i \in 1..Len(a)
    BY <1>1, <1>3
  <2> QED BY <1>1, <2>1 DEF Suffix
<1>4. Len(q1) <= Len(a1)
  BY <1>1 DEF Suffix
<1> QED BY <1>2, <1>3, <1>4 DEF Suffix, q1, a1

\* What is taken is the first that was not taken yet.
LEMMA SuffixTake ==
  ASSUME NEW q \in Seq(Signal), NEW a \in Seq(Signal), q # <<>>, Suffix(q, a)
  PROVE  /\ Len(a) - Len(q) + 1 \in 1..Len(a)
         /\ Head(q) = a[Len(a) - Len(q) + 1]
         /\ Head(q) # Kill => Suffix(Tail(q), a)
<1> DEFINE q1 == Tail(q)
<1>1. /\ Len(q) \in Nat \ {0} /\ Len(a) \in Nat /\ Head(q) = q[1]
      /\ Len(q1) = Len(q) - 1 /\ \A i \in 1..Len(q1) : q1[i] = q[i + 1]
  OBVIOUS
<1> HIDE DEF q1
<1>2. Len(a) - Len(q) + 1 \in 1..Len(a) /\ Head(q) = a[Len(a) - Len(q) + 1]
  BY <1>1 DEF Suffix
<1>3. ASSUME Head(q) # Kill PROVE Suffix(q1, a)
  <2>1. ASSUME NEW i \in 1..Len(q1) PROVE q1[i] = a[Len(a) - Len(q1) + i]
    <3>1. i + 1 \in 1..Len(q) /\ Len(a) - Len(q1) + i = Len(a) - Len(q) + (i + 1)
      BY <1>1, <2>1
    <3> QED BY <1>1, <2>1, <3>1 DEF Suffix
  <2>2. ASSUME NEW i \in 1..(Len(a) - Len(q1)) PROVE a[i] # Kill
    <3>0. Len(a) - Len(q1) = Len(a) - Len(q) + 1
      BY <1>1
    <3>t. Len(a) \in Nat /\ Len(q) \in Nat /\ i \in 1..(Len(a) - Len(q) + 1)
      BY <1>1, <3>0
    <3>1. i \in 1..(Len(a) - Len(q)) \/ i = Len(a) - Len(q) + 1
      BY <3>t
    <3> QED BY <1>2, <1>3, <3>1 DEF Suffix
  <2> QED BY <1>1, <2>1, <2>2 DEF Suffix
<1> QED BY <1>2, <1>3 DEF q1

LEMMA KillStays ==
  ASSUME NEW a \in Seq(Signal), NEW s \in Signal, HasKill(a)
  PROVE  HasKill(Append(a, s))
  BY DEF HasKill

LEMMA QueueInit == Init => QueueInv
  BY DEF Init, QueueInv, ChannelIsRight

LEMMA QueueStep == TypeOK /\ SenderInv /\ QueueInv /\ [Next]_vars => QueueInv'
<1> SUFFICES ASSUME TypeOK, SenderInv, QueueInv, [Next]_vars, NEW k \in Agents
             PROVE  ChannelIsRight(queue'[k], accepted'[k], loop'[k])
  BY DEF QueueInv
<1>t. /\ queue \in [Agents -> Seq(Signal)] /\ accepted \in [Agents -> Seq(Signal)]
      /\ loop \in [Agents -> {"none", "recv", "stopping", "clearing", "ended"}]
  BY DEF TypeOK
<1>0. queue[k] \in Seq(Signal) /\ accepted[k] \in Seq(Signal)
  BY <1>t
<1>i. ChannelIsRight(queue[k], accepted[k], loop[k])
  BY DEF QueueInv
<1>s. queue'[k] = queue[k] /\ accepted'[k] = accepted[k] /\ loop'[k] = loop[k]
        => ChannelIsRight(queue'[k], accepted'[k], loop'[k])
  BY <1>i
<1>1. CASE RunSucceeds
  <2>1. UNCHANGED <<queue, accepted>> /\ loop' = [loop EXCEPT ![built + 1] = "recv"]
        /\ built \in Nat
    BY <1>1 DEF RunSucceeds, TypeOK
  <2>2. CASE k = built + 1
    <3>1. loop[k] = "none" /\ loop'[k] = "recv"
      BY <1>t, <2>1, <2>2 DEF SenderInv, NotBuiltYet
    <3>2. accepted'[k] = <<>> /\ queue'[k] = <<>>
      BY <1>i, <2>1, <3>1 DEF ChannelIsRight
    <3>3. Suffix(<<>>, <<>>)
      BY DEF Suffix
    <3> QED BY <3>1, <3>2, <3>3 DEF ChannelIsRight
  <2>3. CASE k # built + 1
    BY <2>1, <2>3, <1>t, <1>s
  <2> QED BY <2>2, <2>3
<1>2. ASSUME NEW s \in Signal, Send(s)
      PROVE  ChannelIsRight(queue'[k], accepted'[k], loop'[k])
  <2>1. CASE sender = k
    <3>1. /\ queue'[k] = Append(queue[k], s) /\ accepted'[k] = Append(accepted[k], s)
          /\ loop' = loop /\ loop[k] # "none"
      BY <1>2, <1>t, <2>1 DEF Send, Listening
    <3>2. CASE loop[k] = "recv"
      BY <1>0, <1>i, <3>1, <3>2, SuffixSend DEF ChannelIsRight
    <3>3. CASE loop[k] # "recv"
      <4>1. HasKill(accepted[k])
        BY <1>i, <3>1, <3>3 DEF ChannelIsRight
      <4> QED BY <1>0, <3>1, <3>3, <4>1, KillStays DEF ChannelIsRight
    <3> QED BY <3>2, <3>3
  <2>2. CASE sender # k
    BY <1>2, <1>t, <1>s, <2>2 DEF Send
  <2> QED BY <2>1, <2>2
<1>3. ASSUME NEW j \in Agents, j # k, LoopStep(j) \/ LoopFailsToStop(j)
      PROVE  ChannelIsRight(queue'[k], accepted'[k], loop'[k])
  BY <1>3, <1>t, <1>s DEF LoopStep, LoopFailsToStop, LoopTags, LoopTakesKill, LoopStopped,
                          LoopClears, Takes
<1>4. CASE LoopTags(k)
  <2>1. PICK t \in Tags : Takes(k, AddThreadTag(t)) \/ Takes(k, RemoveThreadTag(t))
    BY <1>4 DEF LoopTags
  <2>2. Head(queue[k]) # Kill
    BY <2>1 DEF Takes, AddThreadTag, RemoveThreadTag, Kill
  <2>3. /\ accepted' = accepted /\ loop' = loop /\ loop[k] = "recv"
        /\ queue[k] # <<>> /\ queue'[k] = Tail(queue[k])
    BY <1>4, <1>t DEF LoopTags, Takes
  <2> QED BY <1>0, <1>i, <2>2, <2>3, SuffixTake DEF ChannelIsRight
<1>5. CASE LoopTakesKill(k)
  <2>1. /\ accepted' = accepted /\ loop'[k] = "stopping" /\ loop[k] = "recv"
        /\ queue[k] # <<>> /\ Head(queue[k]) = Kill
    BY <1>5, <1>t DEF LoopTakesKill, Takes
  <2>2. HasKill(accepted[k])
    BY <1>0, <1>i, <2>1, SuffixTake DEF ChannelIsRight, HasKill
  <2> QED BY <2>1, <2>2 DEF ChannelIsRight
<1>6. CASE LoopStopped(k) \/ LoopClears(k) \/ LoopFailsToStop(k)
  <2>1. /\ accepted' = accepted
        /\ loop[k] \in {"stopping", "clearing"} /\ loop'[k] \in {"clearing", "ended"}
    BY <1>6, <1>t DEF LoopStopped, LoopClears, LoopFailsToStop
  <2> QED BY <1>i, <2>1 DEF ChannelIsRight
<1>7. CASE \/ RunFails \/ UseSignalProfiler \/ UNCHANGED vars
           \/ \E j \in Agents : MainThreadEnds(j) \/ MainThreadDies(j)
  BY <1>s, <1>7 DEF RunFails, UseSignalProfiler, vars, MainThreadEnds, MainThreadDies
<1> QED BY <1>1, <1>2, <1>3, <1>4, <1>5, <1>6, <1>7, SignalTypes
        DEF Next, HostStep, LoopStep, drop_agent, add_thread_tag, remove_thread_tag

\* A signal that send() accepted is taken in its turn unless a Kill was before it: the
\* channel of a loop that goes on holds exactly what was accepted and not yet taken, no
\* Kill among what was taken, and a loop that does not go on was sent a Kill.
THEOREM OnlyBehindKillIsLost == Spec => []LostBehindKill
<1>1. TypeOK /\ QueueInv => LostBehindKill
  <2> SUFFICES ASSUME TypeOK, QueueInv, NEW k \in Agents
               PROVE  LET taken == Len(accepted[k]) - Len(queue[k])
                          kills == {i \in DOMAIN accepted[k] : accepted[k][i] = Kill}
                      IN  IF loop[k] = "recv"
                          THEN queue[k] = SubSeq(accepted[k], taken + 1, Len(accepted[k]))
                               /\ \A i \in kills : i > taken
                          ELSE loop[k] # "none" => kills # {}
    BY DEF LostBehindKill
  <2>0. PICK q \in Seq(Signal), a \in Seq(Signal) : q = queue[k] /\ a = accepted[k]
    BY DEF TypeOK
  <2>1. ChannelIsRight(q, a, loop[k])
    BY <2>0 DEF QueueInv
  <2>2. CASE loop[k] = "recv"
    <3>1. Suffix(q, a) /\ Len(q) \in Nat /\ Len(a) \in Nat
      BY <2>0, <2>1, <2>2 DEF ChannelIsRight
    <3>2. q = SubSeq(a, Len(a) - Len(q) + 1, Len(a))
      BY <3>1 DEF Suffix
    <3>3. \A i \in DOMAIN a : a[i] = Kill => i > Len(a) - Len(q)
      BY <3>1 DEF Suffix
    <3> QED BY <2>0, <2>2, <3>2, <3>3
  <2>3. CASE loop[k] # "recv"
    <3>1. loop[k] # "none" => \E i \in DOMAIN a : a[i] = Kill
      BY <2>1, <2>3 DEF ChannelIsRight, HasKill
    <3> QED BY <2>0, <2>3, <3>1
  <2> QED BY <2>2, <2>3
<1> QED BY <1>1, SenderInit, SenderStep, QueueInit, QueueStep, TypeInit, TypeStep, PTL DEF Spec
=============================================================================
