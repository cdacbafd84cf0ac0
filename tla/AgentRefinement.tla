-------------------------- MODULE AgentRefinement --------------------------
(***************************************************************************)
(* The agent implements SampleLedger, for every value of its constants:    *)
(* ImplementsLedger of Agent, by the refinement mapping given there.       *)
(***************************************************************************)
EXTENDS AgentProofs

\* At most one Kill is in the session channel, at most one session is behind it, and then
\* no main thread has another: the backend is out of its slot before Kill is sent.
KillInv ==
  /\ \A i, j \in DOMAIN sessions : IsKill(sessions[i]) /\ IsKill(sessions[j]) => i = j
  /\ \A i \in DOMAIN sessions : IsKill(sessions[i]) =>
       /\ i + 1 >= Len(sessions)
       /\ (\E r \in Runs : main[r] = "send") => i = Len(sessions)
  /\ shutdownFrom # "none" => ~ slot

Batch == SUBSET Samples

-----------------------------------------------------------------------------
(* Sequences.                                                              *)

\* Three sequences in a row.
LEMMA InARow ==
  ASSUME NEW T, NEW p \in Seq(T), NEW w \in Seq(T), NEW q \in Seq(T)
  PROVE  /\ p \o w \o q \in Seq(T)
         /\ Len(p \o w \o q) = Len(p) + Len(w) + Len(q)
         /\ \A i \in 1..(Len(p) + Len(w) + Len(q)) :
              (p \o w \o q)[i] = IF i <= Len(p) THEN p[i]
                                 ELSE IF i <= Len(p) + Len(w) THEN w[i - Len(p)]
                                 ELSE q[i - Len(p) - Len(w)]
<1>1. /\ p \o w \in Seq(T) /\ Len(p \o w) = Len(p) + Len(w)
      /\ \A i \in 1..(Len(p) + Len(w)) :
           (p \o w)[i] = IF i <= Len(p) THEN p[i] ELSE w[i - Len(p)]
  BY ConcatProperties
<1>2. /\ (p \o w) \o q \in Seq(T) /\ Len((p \o w) \o q) = Len(p \o w) + Len(q)
      /\ \A i \in 1..(Len(p \o w) + Len(q)) :
           ((p \o w) \o q)[i] = IF i <= Len(p \o w) THEN (p \o w)[i] ELSE q[i - Len(p \o w)]
  BY <1>1, ConcatProperties
<1>3. Len(p) \in Nat /\ Len(w) \in Nat /\ Len(q) \in Nat
  OBVIOUS
<1> QED BY <1>1, <1>2, <1>3

\* An element goes from one of them to the next, or joins or leaves the row.
LEMMA TakeFromRow ==
  ASSUME NEW T, NEW w \in Seq(T), NEW q \in Seq(T), w # <<>>
  PROVE  <<Head(w)>> \o Tail(w) \o q = <<>> \o w \o q
<1>1. /\ Tail(w) \in Seq(T) /\ Len(Tail(w)) = Len(w) - 1 /\ Len(w) \in Nat \ {0}
      /\ \A i \in 1..(Len(w) - 1) : Tail(w)[i] = w[i + 1]
      /\ Head(w) = w[1] /\ Head(w) \in T
  BY TailAt
<1>2. <<Head(w)>> \o Tail(w) = w
  <2>1. <<Head(w)>> \in Seq(T) /\ Len(<<Head(w)>>) = 1 /\ <<Head(w)>>[1] = Head(w)
    BY <1>1
  <2>2. /\ <<Head(w)>> \o Tail(w) \in Seq(T)
        /\ Len(<<Head(w)>> \o Tail(w)) = 1 + Len(Tail(w))
        /\ \A i \in 1..(1 + Len(Tail(w))) :
             (<<Head(w)>> \o Tail(w))[i] = IF i <= 1 THEN <<Head(w)>>[i] ELSE Tail(w)[i - 1]
    BY <1>1, <2>1, ConcatProperties
  <2>3. ASSUME NEW i \in 1..Len(w) PROVE (<<Head(w)>> \o Tail(w))[i] = w[i]
    <3>1. CASE i = 1
      BY <3>1, <1>1, <2>1, <2>2
    <3>2. CASE i # 1
      <4>1. i - 1 \in 1..(Len(w) - 1) /\ (i - 1) + 1 = i /\ ~ (i <= 1)
        BY <3>2, <1>1
      <4> QED BY <4>1, <1>1, <2>2
    <3> QED BY <3>1, <3>2
  <2> QED BY <1>1, <2>2, <2>3, SeqEqual
<1>3. <<>> \o w = w
  BY ConcatEmptySeq
<1> QED BY <1>2, <1>3

LEMMA SendInRow ==
  ASSUME NEW T, NEW p \in Seq(T), NEW w \in Seq(T), NEW e \in T
  PROVE  /\ p \o Append(w, e) \o <<>> = p \o w \o <<e>>
         /\ p \o w \o <<e>> = Append(p \o w \o <<>>, e)
<1>1. /\ Append(w, e) \in Seq(T) /\ Append(w, e) = w \o <<e>>
      /\ <<e>> \in Seq(T) /\ <<>> \in Seq(T)
  BY AppendIsConcat
<1>2. /\ p \o w \in Seq(T) /\ (p \o w) \o <<>> = p \o w
      /\ p \o Append(w, e) \in Seq(T)
      /\ (p \o Append(w, e)) \o <<>> = p \o Append(w, e)
  BY <1>1, ConcatProperties, ConcatEmptySeq
<1>3. (p \o w) \o <<e>> = p \o Append(w, e)
  BY <1>1, ConcatAssociative
<1>4. Append(p \o w, e) = (p \o w) \o <<e>>
  BY <1>2, AppendIsConcat
<1> QED BY <1>2, <1>3, <1>4

LEMMA FirstOfRow ==
  ASSUME NEW T, NEW h \in T, NEW w \in Seq(T), NEW q \in Seq(T),
         NEW b, b = <<h>> \o w \o q, NEW c, c = <<>> \o w \o q
  PROVE  /\ b # <<>> /\ Head(b) = h /\ Tail(b) = c
         /\ 1 \in DOMAIN b /\ b[1] = h
         /\ SubSeq(b, 1, 1 - 1) \o SubSeq(b, 1 + 1, Len(b)) = c
<1>1. <<h>> \in Seq(T) /\ Len(<<h>>) = 1 /\ <<h>>[1] = h /\ <<>> \in Seq(T) /\ Len(<<>>) = 0
      /\ Len(w) \in Nat /\ Len(q) \in Nat
  OBVIOUS
<1>2. /\ b \in Seq(T) /\ Len(b) = 1 + Len(w) + Len(q)
      /\ \A i \in 1..(1 + Len(w) + Len(q)) :
           b[i] = IF i <= 1 THEN <<h>>[i]
                  ELSE IF i <= 1 + Len(w) THEN w[i - 1] ELSE q[i - 1 - Len(w)]
  BY <1>1, InARow
<1>3. /\ c \in Seq(T) /\ Len(c) = 0 + Len(w) + Len(q)
      /\ \A i \in 1..(0 + Len(w) + Len(q)) :
           c[i] = IF i <= 0 THEN <<>>[i]
                  ELSE IF i <= 0 + Len(w) THEN w[i - 0] ELSE q[i - 0 - Len(w)]
  BY <1>1, InARow
<1>4. b # <<>> /\ DOMAIN b = 1..(1 + Len(w) + Len(q)) /\ b[1] = h /\ Head(b) = h
  BY <1>1, <1>2
<1>5. \A i \in 1..(Len(w) + Len(q)) : c[i] = b[i + 1]
  <2> TAKE i \in 1..(Len(w) + Len(q))
  <2>1. i \in Nat /\ ~ (i <= 0) /\ ~ (i + 1 <= 1) /\ i - 0 = i /\ (i + 1) - 1 = i
        /\ (i + 1 <= 1 + Len(w) <=> i <= 0 + Len(w))
        /\ (i + 1) - 1 - Len(w) = i - 0 - Len(w)
        /\ i + 1 \in 1..(1 + Len(w) + Len(q)) /\ i \in 1..(0 + Len(w) + Len(q))
    BY <1>1
  <2> QED BY <1>2, <1>3, <2>1
<1>6. Tail(b) = c
  <2>1. /\ Tail(b) \in Seq(T) /\ Len(Tail(b)) = Len(w) + Len(q)
        /\ \A i \in 1..(Len(w) + Len(q)) : Tail(b)[i] = b[i + 1]
    BY <1>1, <1>2, <1>4, TailAt
  <2> QED BY <1>1, <1>3, <1>5, <2>1, SeqEqual
<1>7. SubSeq(b, 1, 1 - 1) = <<>>
  BY SubSeqEmpty
<1>8. SubSeq(b, 1 + 1, Len(b)) = c
  <2>1. \A i \in 2..Len(b) : b[i] \in T
    BY <1>1, <1>2, <1>4
  <2>2. /\ SubSeq(b, 2, Len(b)) \in Seq(T)
        /\ Len(SubSeq(b, 2, Len(b))) = IF 2 <= Len(b) THEN Len(b) - 2 + 1 ELSE 0
        /\ \A i \in 1..(Len(b) - 2 + 1) : SubSeq(b, 2, Len(b))[i] = b[2 + i - 1]
    BY <1>1, <1>2, <2>1, SubSeqProperties
  <2>3. Len(SubSeq(b, 2, Len(b))) = Len(c)
    BY <1>1, <1>2, <1>3, <2>2
  <2>4. \A i \in 1..(Len(w) + Len(q)) : SubSeq(b, 2, Len(b))[i] = c[i]
    <3> TAKE i \in 1..(Len(w) + Len(q))
    <3>1. i \in 1..(Len(b) - 2 + 1) /\ 2 + i - 1 = i + 1
      BY <1>1, <1>2
    <3> QED BY <3>1, <2>2, <1>5
  <2> QED BY <1>1, <1>3, <2>2, <2>3, <2>4, SeqEqual
<1>9. <<>> \o c = c
  BY <1>3, ConcatEmptySeq
<1>10. SubSeq(b, 1, 1 - 1) \o SubSeq(b, 1 + 1, Len(b)) = c
  BY <1>7, <1>8, <1>9, Zenon
<1>11. 1 \in DOMAIN b
  BY <1>1, <1>4
<1> QED BY <1>4, <1>6, <1>10, <1>11

-----------------------------------------------------------------------------
(* Kill in the session channel.                                            *)

LEMMA KillInit == Init => KillInv
  BY DEF Init, KillInv

\* Nothing joins the channel, no thread comes to send and no backend comes back.
LEMMA KillStays ==
  ASSUME KillInv, UNCHANGED sessions, shutdownFrom' = shutdownFrom, slot' => slot,
         \A r \in Runs : main'[r] = "send" => main[r] = "send"
  PROVE  KillInv'
  BY DEF KillInv

LEMMA KillCaller ==
  ASSUME TypeOK, RunInv, ShutdownInv, KillInv, CallerChoice \/ CallerStep
  PROVE  KillInv'
<1> USE DEF callerVars, timerVars, mainVars, managerVars, backendVars, history
<1>1. CASE Build
  <2>1. shutdownFrom' = "none" /\ UNCHANGED <<sessions, main>>
    BY <1>1 DEF Build, ShutdownInv, Shutting
  <2> QED BY <2>1 DEF KillInv
<1>2. CASE Start
  <2>1. \A r \in Runs : main'[r] = "send" => main[r] = "send"
    BY <1>2 DEF Start, TypeOK
  <2> QED BY <1>2, <2>1, KillStays DEF Start
<1>3. CASE ShutdownBackend
  <2>1. ~ slot' /\ UNCHANGED <<sessions, main>>
    BY <1>3 DEF ShutdownBackend
  <2> QED BY <2>1 DEF KillInv
<1>4. CASE ShutdownKills
  <2>1. /\ DOMAIN sessions = 1..Len(sessions) /\ DOMAIN sessions' = 1..(Len(sessions) + 1)
        /\ Len(sessions') = Len(sessions) + 1 /\ Len(sessions) \in Nat
        /\ \A i \in 1..Len(sessions) : sessions'[i] = sessions[i]
    BY <1>4, SignalTypes, AppendAt DEF ShutdownKills, TypeOK
  <2>2. \A i \in DOMAIN sessions : ~ IsKill(sessions[i])
    BY <1>4 DEF ShutdownKills, ShutdownInv
  <2>3. \A i \in DOMAIN sessions' : IsKill(sessions'[i]) => i = Len(sessions')
    BY <2>1, <2>2
  <2>4. \A i \in DOMAIN sessions' : i = Len(sessions') => i + 1 >= Len(sessions')
    BY <2>1
  <2>5. UNCHANGED <<slot, shutdownFrom>>
    BY <1>4 DEF ShutdownKills
  <2> QED BY <2>3, <2>4, <2>5 DEF KillInv
<1>5. CASE UNCHANGED <<sessions, main, slot, shutdownFrom>>
  BY <1>5, KillStays
<1>6. CASE BuildFails \/ Drop \/ StopBegins \/ (CallerStep /\ ~ ShutdownKills)
  BY <1>5, <1>6 DEF BuildFails, Drop, StopBegins, CallerStep, StopSendsSnapshot,
     StopSendsTerminate, StopFails, StopReturns, ShutdownListeners, ShutdownJoinsTimer,
     ShutdownJoinsManager, ShutdownJoinsMain
<1> QED BY <1>1, <1>2, <1>3, <1>4, <1>6 DEF CallerChoice

LEMMA KillMain ==
  ASSUME NEW r \in Runs, TypeOK, RunInv, ShutdownInv, KillInv, MainStep(r) \/ MainReportFails(r)
  PROVE  KillInv'
<1> USE DEF callerVars, timerVars, managerVars, backendVars, history
\* A step of a thread that does not come to send.
<1>1. ASSUME NEW to, main' = [main EXCEPT ![r] = to], to # "send",
             UNCHANGED <<sessions, slot, shutdownFrom>>
      PROVE  KillInv'
  <2>1. \A q \in Runs : main'[q] = "send" => main[q] = "send"
    BY <1>1 DEF TypeOK
  <2> QED BY <1>1, <2>1, KillStays
<1>2. CASE MainTakesSnapshot(r) BY <1>1, <1>2 DEF MainTakesSnapshot
<1>3. CASE MainTerminates(r) BY <1>1, <1>3 DEF MainTerminates, MainExits
<1>4. CASE MainDisconnects(r) BY <1>1, <1>4 DEF MainDisconnects, MainExits
<1>5. CASE MainReports(r)
  <2>1. slot /\ shutdownFrom = "none"
    BY <1>5 DEF MainReports, KillInv
  <2>2. \A i \in DOMAIN sessions : ~ IsKill(sessions[i])
    BY <2>1 DEF ShutdownInv, Shutting
  <2>3. UNCHANGED <<sessions, shutdownFrom>>
    BY <1>5 DEF MainReports
  <2> QED BY <2>1, <2>2, <2>3 DEF KillInv
<1>6. CASE MainFindsNoBackend(r) BY <1>1, <1>6 DEF MainFindsNoBackend, MainExits
<1>7. CASE MainReportFails(r) BY <1>1, <1>7 DEF MainReportFails, MainExits
<1>8. CASE MainSendFails(r) BY <1>1, <1>8 DEF MainSendFails, MainExits
<1>9. CASE MainSends(r)
  <2>1. /\ DOMAIN sessions = 1..Len(sessions) /\ DOMAIN sessions' = 1..(Len(sessions) + 1)
        /\ Len(sessions') = Len(sessions) + 1 /\ Len(sessions) \in Nat
        /\ \A i \in 1..Len(sessions) : sessions'[i] = sessions[i]
        /\ sessions'[Len(sessions) + 1] = Session(until[r], report[r])
    BY <1>9, SessionType, AppendAt DEF MainSends, TypeOK
  <2>2. \A i \in DOMAIN sessions' : IsKill(sessions'[i]) => i \in DOMAIN sessions /\ IsKill(sessions[i])
    BY <2>1 DEF Session, IsKill
  <2>3. main[r] = "send" /\ UNCHANGED <<slot, shutdownFrom>>
    BY <1>9 DEF MainSends
  <2>4. \A i \in DOMAIN sessions' : IsKill(sessions'[i]) => i = Len(sessions)
    BY <2>2, <2>3 DEF KillInv
  <2>5. \A q \in Runs : main'[q] # "send"
    <3> SUFFICES ASSUME NEW q \in Runs PROVE main'[q] # "send"
      OBVIOUS
    <3>1. main'[q] = IF q = r THEN "recv" ELSE main[q]
      BY <1>9 DEF MainSends, TypeOK
    <3>2. Alive(r) /\ (Alive(q) => q = r)
      BY <2>3 DEF RunInv, Alive
    <3> QED BY <3>1, <3>2 DEF Alive
  <2>6. Len(sessions) + 1 >= Len(sessions')
    BY <2>1
  <2> QED BY <2>3, <2>4, <2>5, <2>6 DEF KillInv
<1> QED BY <1>2, <1>3, <1>4, <1>5, <1>6, <1>7, <1>8, <1>9 DEF MainStep

LEMMA KillManager ==
  ASSUME TypeOK, KillInv, ManagerStep
  PROVE  KillInv'
<1> USE DEF callerVars, timerVars, mainVars, managerVars, backendVars, history
<1>1. CASE ManagerTakesSession
  <2>1. /\ DOMAIN sessions = 1..Len(sessions) /\ DOMAIN sessions' = 1..(Len(sessions) - 1)
        /\ Len(sessions') = Len(sessions) - 1 /\ Len(sessions) \in Nat \ {0}
        /\ \A i \in 1..(Len(sessions) - 1) : sessions'[i] = sessions[i + 1]
    BY <1>1, TailAt DEF ManagerTakesSession, TypeOK
  <2>2. UNCHANGED <<main, slot, shutdownFrom>>
    BY <1>1 DEF ManagerTakesSession
  <2>3. \A i \in DOMAIN sessions' : i + 1 \in DOMAIN sessions /\ sessions'[i] = sessions[i + 1]
    BY <2>1
  <2>4. \A i, j \in DOMAIN sessions' : i + 1 = j + 1 => i = j
    BY <2>1
  <2>5. \A i \in DOMAIN sessions' : (i + 1 = Len(sessions) => i = Len(sessions'))
                                    /\ (i + 1 + 1 >= Len(sessions) => i + 1 >= Len(sessions'))
    BY <2>1
  <2> QED BY <2>2, <2>3, <2>4, <2>5 DEF KillInv
<1>2. CASE ManagerTakesKill
  <2>1. DOMAIN sessions' = {} /\ UNCHANGED <<slot, shutdownFrom>>
    BY <1>2 DEF ManagerTakesKill
  <2> QED BY <2>1 DEF KillInv
<1>3. CASE ManagerPushes BY <1>3, KillStays DEF ManagerPushes
<1>4. CASE ManagerDisconnects BY <1>4, KillStays DEF ManagerDisconnects
<1> QED BY <1>1, <1>2, <1>3, <1>4 DEF ManagerStep

LEMMA KillStep == TypeOK /\ RunInv /\ ShutdownInv /\ KillInv /\ [Next]_vars => KillInv'
<1> SUFFICES ASSUME TypeOK, RunInv, ShutdownInv, KillInv, [Next]_vars PROVE KillInv'
  OBVIOUS
<1>1. CASE UNCHANGED <<sessions, main, slot, shutdownFrom>>
  BY <1>1, KillStays
<1>2. CASE UNCHANGED vars \/ TimerStep \/ TimerFault \/ Tick \/ \E s \in Samples : Record(s)
  BY <1>1, <1>2 DEF vars, TimerStep, TimerFault, Tick, Record, TimerChecks, TimerWakes,
     TimerStamps, TimerSends, TimerInterrupted, TimerFails, mainVars, managerVars,
     backendVars, history
<1> QED BY <1>2, KillCaller, KillMain, KillManager DEF Next

-----------------------------------------------------------------------------
(* The refinement mapping.                                                 *)

\* The batches of a channel without Kill, and with Kill at k.
LEMMA WaitingPlain ==
  ASSUME NEW q \in Seq(SessionSignal), \A i \in 1..Len(q) : ~ IsKill(q[i])
  PROVE  /\ Waiting(q) \in Seq(Batch) /\ Len(Waiting(q)) = Len(q)
         /\ \A i \in 1..Len(q) : Waiting(q)[i] = q[i].reports
<1>1. \A i \in 1..Len(q) : q[i] \in SessionSignal
  OBVIOUS
<1>2. Len(q) \in Nat /\ \A i \in 1..Len(q) : q[i].reports \in Batch
  BY <1>1 DEF SessionSignal, Batch
<1>3. \A n \in 0..Len(q) : ~ Killed(q, n)
  BY <1>2 DEF Killed
<1>4. ~ Killed(q, Len(q)) /\ \A i \in 1..Len(q) : ~ Killed(q, i)
  BY <1>2, <1>3
<1>5. Waiting(q) = [i \in 1..Len(q) |-> q[i].reports]
  BY <1>4 DEF Waiting
<1> QED BY <1>2, <1>5

LEMMA WaitingKilled ==
  ASSUME NEW q \in Seq(SessionSignal), NEW k \in 1..Len(q), IsKill(q[k]),
         \A i \in 1..(k - 1) : ~ IsKill(q[i])
  PROVE  /\ Waiting(q) \in Seq(Batch) /\ Len(Waiting(q)) = Len(q) - 1
         /\ \A i \in 1..(Len(q) - 1) :
              /\ i < k => Waiting(q)[i] = q[i].reports
              /\ ~ (i < k) => Waiting(q)[i] = q[i + 1].reports
<1>1. \A i \in 1..Len(q) : q[i] \in SessionSignal
  OBVIOUS
<1>2. Len(q) \in Nat \ {0} /\ \A i \in 1..Len(q) : q[i].reports \in Batch
  BY <1>1 DEF SessionSignal, Batch
<1>3. \A n \in 1..Len(q) : /\ k <= n => Killed(q, n)
                           /\ ~ (k <= n) => ~ Killed(q, n)
  <2> TAKE n \in 1..Len(q)
  <2>1. ASSUME k <= n PROVE Killed(q, n)
    <3>1. k \in 1..n
      BY <1>2, <2>1
    <3> QED BY <3>1, Zenon DEF Killed
  <2>2. ASSUME ~ (k <= n) PROVE ~ Killed(q, n)
    <3>1. \A i \in 1..n : i \in 1..(k - 1)
      BY <1>2, <2>2
    <3> QED BY <3>1, Zenon DEF Killed
  <2> QED BY <2>1, <2>2
<1> DEFINE at(i) == IF k <= i THEN i + 1 ELSE i
<1>4. Killed(q, Len(q))
  <2>1. Len(q) \in 1..Len(q) /\ k <= Len(q)
    BY <1>2
  <2> QED BY <1>3, <2>1
<1>5. \A i \in 1..(Len(q) - 1) : i \in 1..Len(q) /\ at(i) \in 1..Len(q)
  BY <1>2
<1>6. Waiting(q) = [i \in 1..(Len(q) - 1) |-> q[IF Killed(q, i) THEN i + 1 ELSE i].reports]
  BY <1>4 DEF Waiting
<1>7. \A i \in 1..(Len(q) - 1) :
        Waiting(q)[i] = q[at(i)].reports /\ q[at(i)].reports \in Batch
  <2> SUFFICES ASSUME NEW i \in 1..(Len(q) - 1)
               PROVE  Waiting(q)[i] = q[at(i)].reports /\ q[at(i)].reports \in Batch
    OBVIOUS
  <2>1. CASE k <= i
    <3>1. Killed(q, i)
      BY <1>3, <1>5, <2>1
    <3> QED BY <1>2, <1>5, <1>6, <2>1, <3>1
  <2>2. CASE ~ (k <= i)
    <3>1. ~ Killed(q, i)
      BY <1>3, <1>5, <2>2
    <3> QED BY <1>2, <1>5, <1>6, <2>2, <3>1
  <2> QED BY <2>1, <2>2
<1>8. Waiting(q) \in Seq(Batch) /\ Len(Waiting(q)) = Len(q) - 1
  <2>1. Waiting(q) \in [1..(Len(q) - 1) -> Batch]
    BY <1>6, <1>7
  <2>2. Len(q) - 1 \in Nat
    BY <1>2
  <2> QED BY <2>1, <2>2
<1>9. \A i \in 1..(Len(q) - 1) : (i < k => at(i) = i) /\ (~ (i < k) => at(i) = i + 1)
  BY <1>2
<1> HIDE DEF at
<1> QED BY <1>7, <1>8, <1>9

\* A session, or Kill, joins the channel behind the others.
LEMMA WaitingJoins ==
  ASSUME NEW q \in Seq(SessionSignal), NEW m \in SessionSignal, NEW p, p = Append(q, m),
         \A i, j \in 1..Len(q) : IsKill(q[i]) /\ IsKill(q[j]) => i = j
  PROVE  /\ ~ IsKill(m) => Waiting(p) = Append(Waiting(q), m.reports)
         /\ IsKill(m) /\ (\A i \in 1..Len(q) : ~ IsKill(q[i])) => Waiting(p) = Waiting(q)
<1>1. /\ p \in Seq(SessionSignal) /\ Len(q) \in Nat /\ Len(p) = Len(q) + 1
      /\ \A i \in 1..Len(q) : p[i] = q[i]
      /\ p[Len(q) + 1] = m /\ m.reports \in Batch
  <2>1. p \in Seq(SessionSignal) /\ m.reports \in Batch
    BY DEF SessionSignal, Batch
  <2> QED BY <2>1, AppendAt
<1>2. ASSUME ~ IsKill(m), \A i \in 1..Len(q) : ~ IsKill(q[i])
      PROVE  Waiting(p) = Append(Waiting(q), m.reports)
  <2>1. \A i \in 1..Len(p) : ~ IsKill(p[i])
    BY <1>1, <1>2
  <2>2. /\ Waiting(p) \in Seq(Batch) /\ Len(Waiting(p)) = Len(q) + 1
        /\ \A i \in 1..(Len(q) + 1) : Waiting(p)[i] = p[i].reports
    BY <1>1, <2>1, WaitingPlain
  <2>3. /\ Waiting(q) \in Seq(Batch) /\ Len(Waiting(q)) = Len(q)
        /\ \A i \in 1..Len(q) : Waiting(q)[i] = q[i].reports
    BY <1>2, WaitingPlain
  <2>4. /\ Append(Waiting(q), m.reports) \in Seq(Batch)
        /\ Len(Append(Waiting(q), m.reports)) = Len(q) + 1
        /\ \A i \in 1..Len(q) : Append(Waiting(q), m.reports)[i] = Waiting(q)[i]
        /\ Append(Waiting(q), m.reports)[Len(q) + 1] = m.reports
    BY <1>1, <2>3, AppendAt
  <2>5. \A i \in 1..(Len(q) + 1) : i \in 1..Len(q) \/ i = Len(q) + 1
    BY <1>1
  <2>6. \A i \in 1..Len(Waiting(p)) : Waiting(p)[i] = Append(Waiting(q), m.reports)[i]
    BY <1>1, <2>2, <2>3, <2>4, <2>5
  <2> QED BY <2>2, <2>4, <2>6, SeqEqual
<1>3. ASSUME ~ IsKill(m), NEW k \in 1..Len(q), IsKill(q[k])
      PROVE  Waiting(p) = Append(Waiting(q), m.reports)
  <2>1. k \in 1..Len(p) /\ IsKill(p[k]) /\ \A i \in 1..(k - 1) : ~ IsKill(q[i]) /\ ~ IsKill(p[i])
    <3>1. \A i \in 1..(k - 1) : i \in 1..Len(q) /\ i # k
      BY <1>1
    <3> QED BY <1>1, <1>3, <3>1
  <2>2. /\ Waiting(p) \in Seq(Batch) /\ Len(Waiting(p)) = Len(q)
        /\ \A i \in 1..Len(q) : /\ i < k => Waiting(p)[i] = p[i].reports
                                /\ ~ (i < k) => Waiting(p)[i] = p[i + 1].reports
    <3>1. Len(p) - 1 = Len(q)
      BY <1>1
    <3>2. /\ Waiting(p) \in Seq(Batch) /\ Len(Waiting(p)) = Len(p) - 1
          /\ \A i \in 1..(Len(p) - 1) :
               /\ i < k => Waiting(p)[i] = p[i].reports
               /\ ~ (i < k) => Waiting(p)[i] = p[i + 1].reports
      BY <1>1, <2>1, WaitingKilled
    <3> QED BY <3>1, <3>2
  <2>3. /\ Waiting(q) \in Seq(Batch) /\ Len(Waiting(q)) = Len(q) - 1
        /\ \A i \in 1..(Len(q) - 1) : /\ i < k => Waiting(q)[i] = q[i].reports
                                      /\ ~ (i < k) => Waiting(q)[i] = q[i + 1].reports
    BY <1>3, <2>1, WaitingKilled
  <2>4. /\ Append(Waiting(q), m.reports) \in Seq(Batch)
        /\ Len(Append(Waiting(q), m.reports)) = Len(q)
        /\ \A i \in 1..(Len(q) - 1) : Append(Waiting(q), m.reports)[i] = Waiting(q)[i]
        /\ Append(Waiting(q), m.reports)[Len(q)] = m.reports
    <3>1. Len(Waiting(q)) + 1 = Len(q)
      BY <1>1, <2>3
    <3> QED BY <1>1, <2>3, <3>1, AppendAt
  <2>5. ASSUME NEW i \in 1..Len(q) PROVE Waiting(p)[i] = Append(Waiting(q), m.reports)[i]
    <3>1. CASE i = Len(q)
      <4>1. ~ (i < k)
        BY <3>1, <1>1
      <4> QED BY <3>1, <4>1, <1>1, <2>2, <2>4
    <3>2. CASE i # Len(q)
      <4>1. i \in 1..(Len(q) - 1) /\ i + 1 \in 1..Len(q)
        BY <3>2, <1>1
      <4> QED BY <4>1, <1>1, <2>2, <2>3, <2>4
    <3> QED BY <3>1, <3>2
  <2> QED BY <2>2, <2>4, <2>5, SeqEqual
<1>4. ASSUME IsKill(m), \A i \in 1..Len(q) : ~ IsKill(q[i]) PROVE Waiting(p) = Waiting(q)
  <2>1. /\ Len(q) + 1 \in 1..Len(p) /\ IsKill(p[Len(q) + 1])
        /\ (Len(q) + 1) - 1 = Len(q) /\ Len(p) - 1 = Len(q)
        /\ \A i \in 1..Len(q) : ~ IsKill(p[i]) /\ i < Len(q) + 1
    BY <1>1, <1>4
  <2>2. /\ Waiting(p) \in Seq(Batch) /\ Len(Waiting(p)) = Len(q)
        /\ \A i \in 1..Len(q) : i < Len(q) + 1 => Waiting(p)[i] = p[i].reports
    <3> DEFINE k == Len(q) + 1
    <3>1. k \in 1..Len(p) /\ IsKill(p[k]) /\ \A i \in 1..(k - 1) : ~ IsKill(p[i])
      BY <2>1
    <3> HIDE DEF k
    <3>2. /\ Waiting(p) \in Seq(Batch) /\ Len(Waiting(p)) = Len(p) - 1
          /\ \A i \in 1..(Len(p) - 1) : i < k => Waiting(p)[i] = p[i].reports
      BY <1>1, <3>1, WaitingKilled
    <3> QED BY <2>1, <3>2 DEF k
  <2>3. /\ Waiting(q) \in Seq(Batch) /\ Len(Waiting(q)) = Len(q)
        /\ \A i \in 1..Len(q) : Waiting(q)[i] = q[i].reports
    BY <1>4, WaitingPlain
  <2>4. \A i \in 1..Len(q) : Waiting(p)[i] = Waiting(q)[i]
    BY <1>1, <2>1, <2>2, <2>3
  <2> QED BY <2>2, <2>3, <2>4, SeqEqual
<1> QED BY <1>2, <1>3, <1>4

\* The session manager takes the oldest session.
LEMMA WaitingGoes ==
  ASSUME NEW q \in Seq(SessionSignal), q # <<>>, ~ IsKill(Head(q)), NEW p, p = Tail(q),
         \A i, j \in 1..Len(q) : IsKill(q[i]) /\ IsKill(q[j]) => i = j
  PROVE  Waiting(q) # <<>> /\ Head(Waiting(q)) = Head(q).reports /\ Waiting(p) = Tail(Waiting(q))
<1>1. /\ p \in Seq(SessionSignal) /\ Len(q) \in Nat \ {0} /\ Len(p) = Len(q) - 1
      /\ \A i \in 1..(Len(q) - 1) : p[i] = q[i + 1]
      /\ Head(q) = q[1]
  BY TailAt
\* What is left to show, given the batches before.
<1>2. ASSUME Waiting(q) \in Seq(Batch), Waiting(p) \in Seq(Batch), Len(Waiting(q)) # 0,
             Len(Waiting(p)) = Len(Waiting(q)) - 1, Waiting(q)[1] = q[1].reports,
             \A i \in 1..(Len(Waiting(q)) - 1) : Waiting(p)[i] = Waiting(q)[i + 1]
      PROVE  Waiting(q) # <<>> /\ Head(Waiting(q)) = Head(q).reports
             /\ Waiting(p) = Tail(Waiting(q))
  <2>1. Waiting(q) # <<>> /\ Head(Waiting(q)) = Waiting(q)[1]
    BY <1>2
  <2>2. /\ Tail(Waiting(q)) \in Seq(Batch) /\ Len(Tail(Waiting(q))) = Len(Waiting(q)) - 1
        /\ \A i \in 1..(Len(Waiting(q)) - 1) : Tail(Waiting(q))[i] = Waiting(q)[i + 1]
    BY <1>2, <2>1, TailAt
  <2> QED BY <1>1, <1>2, <2>1, <2>2, SeqEqual
<1>3. CASE \A i \in 1..Len(q) : ~ IsKill(q[i])
  <2>1. /\ \A i \in 1..Len(p) : ~ IsKill(p[i])
        /\ 1 \in 1..Len(q) /\ Len(q) # 0
        /\ \A i \in 1..(Len(q) - 1) : i + 1 \in 1..Len(q) /\ i \in 1..Len(p)
    BY <1>1, <1>3
  <2>2. /\ Waiting(p) \in Seq(Batch) /\ Len(Waiting(p)) = Len(q) - 1
        /\ \A i \in 1..Len(p) : Waiting(p)[i] = p[i].reports
    BY <1>1, <2>1, WaitingPlain
  <2>3. /\ Waiting(q) \in Seq(Batch) /\ Len(Waiting(q)) = Len(q)
        /\ \A i \in 1..Len(q) : Waiting(q)[i] = q[i].reports
    BY <1>3, WaitingPlain
  <2> QED BY <1>1, <1>2, <2>1, <2>2, <2>3
<1>4. ASSUME NEW k \in 1..Len(q), IsKill(q[k])
      PROVE  Waiting(q) # <<>> /\ Head(Waiting(q)) = Head(q).reports
             /\ Waiting(p) = Tail(Waiting(q))
  <2>1. k # 1
    BY <1>1, <1>4
  <2>2. /\ k - 1 \in 1..Len(p) /\ (k - 1) + 1 = k /\ 1 < k /\ Len(q) - 1 # 0
        /\ 1 \in 1..(Len(q) - 1) /\ Len(p) - 1 = Len(q) - 1 - 1
    BY <1>1, <2>1
  <2>3. \A i \in 1..(k - 1) : ~ IsKill(q[i])
    <3>1. \A i \in 1..(k - 1) : i \in 1..Len(q) /\ i # k
      BY <1>1
    <3> QED BY <1>4, <3>1
  <2>4. IsKill(p[k - 1]) /\ \A i \in 1..((k - 1) - 1) : ~ IsKill(p[i])
    <3>1. \A i \in 1..((k - 1) - 1) : i + 1 \in 1..(k - 1) /\ i \in 1..(Len(q) - 1)
      BY <1>1, <2>2
    <3> QED BY <1>1, <1>4, <2>2, <2>3, <3>1
  <2>5. /\ Waiting(p) \in Seq(Batch) /\ Len(Waiting(p)) = Len(q) - 1 - 1
        /\ \A i \in 1..(Len(q) - 1 - 1) : /\ i < k - 1 => Waiting(p)[i] = p[i].reports
                                          /\ ~ (i < k - 1) => Waiting(p)[i] = p[i + 1].reports
    <3> DEFINE l == k - 1
    <3>1. l \in 1..Len(p) /\ IsKill(p[l]) /\ \A i \in 1..(l - 1) : ~ IsKill(p[i])
      BY <2>2, <2>4
    <3> HIDE DEF l
    <3>2. /\ Waiting(p) \in Seq(Batch) /\ Len(Waiting(p)) = Len(p) - 1
          /\ \A i \in 1..(Len(p) - 1) :
               /\ i < l => Waiting(p)[i] = p[i].reports
               /\ ~ (i < l) => Waiting(p)[i] = p[i + 1].reports
      BY <1>1, <3>1, WaitingKilled
    <3> QED BY <2>2, <3>2 DEF l
  <2>6. /\ Waiting(q) \in Seq(Batch) /\ Len(Waiting(q)) = Len(q) - 1
        /\ \A i \in 1..(Len(q) - 1) : /\ i < k => Waiting(q)[i] = q[i].reports
                                      /\ ~ (i < k) => Waiting(q)[i] = q[i + 1].reports
    BY <1>4, <2>3, WaitingKilled
  <2>7. ASSUME NEW i \in 1..(Len(q) - 1 - 1) PROVE Waiting(p)[i] = Waiting(q)[i + 1]
    <3>1. /\ i \in 1..(Len(q) - 1) /\ i + 1 \in 1..(Len(q) - 1)
          /\ (i < k - 1 <=> i + 1 < k)
      BY <1>1, <2>2
    <3> QED BY <1>1, <2>5, <2>6, <3>1
  <2> QED BY <1>2, <2>2, <2>5, <2>6, <2>7
<1> QED BY <1>3, <1>4

LEMMA NoneWaiting == Waiting(<<>>) = <<>>
<1>1. <<>> \in Seq(SessionSignal) /\ \A i \in 1..Len(<<>>) : ~ IsKill(<<>>[i])
  OBVIOUS
<1>2. Waiting(<<>>) \in Seq(Batch) /\ Len(Waiting(<<>>)) = Len(<<>>)
  BY <1>1, WaitingPlain
<1> QED BY <1>2

-----------------------------------------------------------------------------
(* The refinement mapping.                                                 *)

\* The last run's thread is the only one that can be about to send.
LEMMA SendingIs ==
  ASSUME TypeOK, RunInv
  PROVE  /\ \A r \in Runs : main[r] = "send" => Sending = <<report[r]>>
         /\ (\A r \in Runs : main[r] # "send") => Sending = <<>>
<1>1. \A r \in Runs : main[r] = "send" => r = run /\ run # 0
  BY DEF RunInv, Alive, Runs
<1>2. run # 0 => run \in Runs
  BY DEF TypeOK, Runs
<1> QED BY <1>1, <1>2 DEF Sending

LEMMA SendingWillBe ==
  ASSUME TypeOK', RunInv'
  PROVE  /\ \A r \in Runs : main'[r] = "send" => Sending' = <<report'[r]>>
         /\ (\A r \in Runs : main'[r] # "send") => Sending' = <<>>
<1>1. \A r \in Runs : main'[r] = "send" => r = run' /\ run' # 0
  BY DEF RunInv, Alive, Runs
<1>2. run' # 0 => run' \in Runs
  BY DEF TypeOK, Runs
<1> QED BY <1>1, <1>2 DEF Sending

\* As long as the same thread sends the same, or none does.
LEMMA SendingStays ==
  ASSUME TypeOK, RunInv, TypeOK', RunInv',
         \A r \in Runs : main'[r] = "send" <=> main[r] = "send",
         \A r \in Runs : main[r] = "send" => report'[r] = report[r]
  PROVE  Sending' = Sending
<1>1. /\ \A r \in Runs : main'[r] = "send" => r = run' /\ run' # 0
      /\ \A r \in Runs : main[r] = "send" => r = run /\ run # 0
  BY DEF RunInv, Alive, Runs
<1>2. (run # 0 => run \in Runs) /\ (run' # 0 => run' \in Runs)
  BY DEF TypeOK, Runs
<1>3. CASE \E r \in Runs : main[r] = "send"
  BY <1>1, <1>3 DEF Sending
<1>4. CASE \A r \in Runs : main[r] # "send"
  BY <1>2, <1>4 DEF Sending
<1> QED BY <1>3, <1>4

LEMMA PartsType ==
  ASSUME TypeOK, ShutdownInv, KillInv
  PROVE  Pushing \in Seq(Batch) /\ Waiting(sessions) \in Seq(Batch) /\ Sending \in Seq(Batch)
<1>1. hand \in Batch /\ (run # 0 => report[run] \in Batch)
  BY DEF TypeOK, Batch, Runs
<1>2. <<hand>> \in Seq(Batch) /\ (run # 0 => <<report[run]>> \in Seq(Batch)) /\ <<>> \in Seq(Batch)
  BY <1>1
<1>3. sessions \in Seq(SessionSignal) /\ DOMAIN sessions = 1..Len(sessions) /\ Len(sessions) \in Nat
  BY DEF TypeOK
<1>4. CASE \A i \in 1..Len(sessions) : ~ IsKill(sessions[i])
  BY <1>2, <1>3, <1>4, WaitingPlain DEF Pushing, Sending
<1>5. ASSUME NEW k \in 1..Len(sessions), IsKill(sessions[k])
      PROVE  Waiting(sessions) \in Seq(Batch)
  <2>1. \A i \in 1..(k - 1) : i \in 1..Len(sessions) /\ i # k
    BY <1>3
  <2>2. \A i \in 1..(k - 1) : ~ IsKill(sessions[i])
    BY <1>3, <1>5, <2>1 DEF KillInv
  <2> QED BY <1>3, <1>5, <2>2, WaitingKilled
<1> QED BY <1>2, <1>4, <1>5 DEF Pushing, Sending

\* The status of a sample, before a step and after it.
LEMMA StatusIs ==
  ASSUME NEW s \in Samples
  PROVE  /\ fate[s] = "live" => Status(s) = IF s \in buffer THEN "buffered" ELSE "reported"
         /\ fate[s] \in {"rejected", "discarded", "dropped"} => Status(s) = "lost"
         /\ fate[s] \in {"unrecorded", "delivered"} => Status(s) = fate[s]
         /\ fate'[s] = "live" =>
              Status(s)' = IF s \in buffer' THEN "buffered" ELSE "reported"
         /\ fate'[s] \in {"rejected", "discarded", "dropped"} => Status(s)' = "lost"
         /\ fate'[s] \in {"unrecorded", "delivered"} => Status(s)' = fate'[s]
  BY DEF Status

\* A step of the ledger that gives the samples of S the status `to`.
LEMMA Becoming ==
  ASSUME NEW S, NEW to,
         \A s \in Samples : Status(s)' = IF s \in S THEN to ELSE Status(s)
  PROVE  Ledger!Becomes(S, to)
  BY DEF Ledger!Becomes

LEMMA BufferedIs ==
  ASSUME TypeOK, PlaceInv
  PROVE  Ledger!Buffered = buffer
<1>1. \A s \in buffer : s \in Samples /\ fate[s] = "live"
  BY DEF TypeOK, PlaceInv, OnePlace, Live
<1>2. \A s \in Samples : Status(s) = "buffered" => s \in buffer
  BY StatusIs DEF Status, TypeOK
<1>3. \A s \in buffer : Status(s) = "buffered"
  BY <1>1, StatusIs
<1>4. Ledger!Buffered = {s \in Samples : Status(s) = "buffered"}
  BY DEF Ledger!Buffered
<1> QED BY <1>1, <1>2, <1>3, <1>4

\* A step the ledger does not see.
LEMMA Unseen ==
  ASSUME UNCHANGED <<fate, buffer>>, Batches' = Batches
  PROVE  [Ledger!Next]_Ledger!vars
<1>1. \A s \in Samples : Status(s)' = Status(s)
  BY DEF Status
<1> QED BY <1>1 DEF Ledger!vars

-----------------------------------------------------------------------------
(* Every step of the agent is one of the ledger, or is not seen there.     *)

AgentInv == TypeOK /\ RunInv /\ ShutdownInv /\ PlaceInv /\ KillInv

LEMMA RefinedInit == Init => Ledger!Init
<1> SUFFICES ASSUME Init PROVE Ledger!Init
  OBVIOUS
<1>1. \A s \in Samples : Status(s) = "unrecorded"
  BY DEF Init, Status
<1>2. Pushing = <<>> /\ Sending = <<>> /\ Waiting(sessions) = <<>>
  BY NoneWaiting DEF Init, Pushing, Sending
<1>3. <<>> \in Seq(Batch) /\ (<<>> \o <<>>) \o <<>> = <<>>
  BY ConcatEmptySeq
<1>4. Batches = <<>>
  BY <1>2, <1>3 DEF Batches
<1> QED BY <1>1, <1>4 DEF Ledger!Init

\* What is buffered is settled where it is.
LEMMA Discards ==
  ASSUME AgentInv, buffer' = {}, Batches' = Batches, NEW how \in {"discarded", "dropped"},
         \A s \in Samples : fate'[s] = IF s \in buffer THEN how ELSE fate[s]
  PROVE  Ledger!Discard
<1>1. \A s \in buffer : fate[s] = "live"
  BY DEF AgentInv, TypeOK, PlaceInv, OnePlace, Live
<1>2. ASSUME NEW s \in Samples
      PROVE  Status(s)' = IF s \in buffer THEN "lost" ELSE Status(s)
  <2>1. CASE s \in buffer
    BY <2>1, StatusIs
  <2>2. CASE s \notin buffer
    BY <2>2 DEF Status
  <2> QED BY <2>1, <2>2
<1>3. Ledger!Becomes(buffer, "lost")
  BY <1>2, Becoming
<1> QED BY <1>3, BufferedIs DEF Ledger!Discard, AgentInv

LEMMA RefinedCaller ==
  ASSUME AgentInv, AgentInv', CallerChoice \/ CallerStep
  PROVE  [Ledger!Next]_Ledger!vars
<1> USE DEF callerVars, timerVars, mainVars, managerVars, backendVars, history
<1>1. CASE Build
  <2>1. Pushing' = Pushing /\ UNCHANGED <<sessions, run, main, report, fate, buffer>>
    BY <1>1 DEF Build, Pushing, AgentInv, ShutdownInv
  <2>2. Batches' = Batches
    BY <2>1 DEF Batches, Sending
  <2> QED BY <2>1, <2>2, Unseen
<1>2. CASE Start
  <2>1. /\ \A r \in Runs : main'[r] = "send" <=> main[r] = "send"
        /\ UNCHANGED <<manager, hand, sessions, report, fate, buffer>>
    BY <1>2 DEF Start, AgentInv, RunInv, Alive, TypeOK
  <2>2. Sending' = Sending
    BY <2>1, SendingStays DEF AgentInv
  <2>3. Batches' = Batches
    BY <2>1, <2>2 DEF Batches, Pushing
  <2> QED BY <2>1, <2>3, Unseen
<1>3. CASE ShutdownBackend
  <2>1. /\ UNCHANGED <<manager, hand, sessions, run, main, report>> /\ buffer' = {}
        /\ \A s \in Samples : fate'[s] = IF s \in buffer THEN "discarded" ELSE fate[s]
    BY <1>3 DEF ShutdownBackend, Settle
  <2>2. Batches' = Batches
    BY <2>1 DEF Batches, Pushing, Sending
  <2>3. Ledger!Discard
    BY <2>1, <2>2, Discards
  <2> QED BY <2>3 DEF Ledger!Next
<1>4. CASE ShutdownKills
  <2>1. /\ sessions' = Append(sessions, Kill) /\ caller = "shutdown_kill"
        /\ UNCHANGED <<manager, hand, run, main, report, fate, buffer>>
    BY <1>4 DEF ShutdownKills
  <2>2. sessions \in Seq(SessionSignal) /\ Kill \in SessionSignal /\ IsKill(Kill)
        /\ DOMAIN sessions = 1..Len(sessions)
    BY SignalTypes DEF AgentInv, TypeOK, Kill, IsKill
  <2>3. \A i \in 1..Len(sessions) : ~ IsKill(sessions[i])
    BY <2>1, <2>2 DEF AgentInv, ShutdownInv
  <2>4. Waiting(sessions') = Waiting(sessions)
    BY <2>1, <2>2, <2>3, WaitingJoins
  <2>5. Batches' = Batches
    BY <2>1, <2>4 DEF Batches, Pushing, Sending
  <2> QED BY <2>1, <2>5, Unseen
<1>5. CASE UNCHANGED <<manager, hand, sessions, run, main, report, fate, buffer>>
  <2>1. Batches' = Batches
    BY <1>5 DEF Batches, Pushing, Sending
  <2> QED BY <1>5, <2>1, Unseen
<1>6. CASE BuildFails \/ Drop \/ StopBegins \/ (CallerStep /\ ~ ShutdownKills)
  BY <1>5, <1>6 DEF BuildFails, Drop, StopBegins, CallerStep, StopSendsSnapshot,
     StopSendsTerminate, StopFails, StopReturns, ShutdownListeners, ShutdownJoinsTimer,
     ShutdownJoinsManager, ShutdownJoinsMain
<1> QED BY <1>1, <1>2, <1>3, <1>4, <1>6 DEF CallerChoice

LEMMA RefinedMain ==
  ASSUME NEW r \in Runs, AgentInv, AgentInv', MainStep(r) \/ MainReportFails(r)
  PROVE  [Ledger!Next]_Ledger!vars
<1> USE DEF callerVars, timerVars, managerVars, backendVars, history
\* A thread that neither was about to send nor is.
<1>1. ASSUME NEW to, main' = [main EXCEPT ![r] = to], to # "send", main[r] # "send",
             UNCHANGED <<manager, hand, sessions, report>>
      PROVE  Batches' = Batches
  <2>1. \A q \in Runs : main'[q] = "send" <=> main[q] = "send"
    BY <1>1 DEF AgentInv, TypeOK
  <2>2. Sending' = Sending
    BY <1>1, <2>1, SendingStays DEF AgentInv
  <2> QED BY <1>1, <2>2 DEF Batches, Pushing
<1>2. CASE MainTakesSnapshot(r)
  BY <1>1, <1>2, Unseen DEF MainTakesSnapshot
<1>3. CASE MainTerminates(r)
  BY <1>1, <1>3, Unseen DEF MainTerminates, MainExits
<1>4. CASE MainDisconnects(r)
  BY <1>1, <1>4, Unseen DEF MainDisconnects, MainExits
<1>5. CASE MainFindsNoBackend(r)
  BY <1>1, <1>5, Unseen DEF MainFindsNoBackend, MainExits
<1>6. CASE MainReports(r)
  <2>1. /\ main[r] = "report" /\ buffer' = {}
        /\ UNCHANGED <<manager, hand, sessions, fate>>
    BY <1>6 DEF MainReports
  <2>2. main'[r] = "send" /\ report'[r] = buffer
    BY <1>6 DEF MainReports, AgentInv, TypeOK
  <2>3. Sending' = <<buffer>>
    BY <2>2, SendingWillBe DEF AgentInv
  <2>4. Sending = <<>>
    <3>1. \A q \in Runs : main[q] # "send"
      BY <2>1 DEF AgentInv, RunInv, Alive
    <3> QED BY <3>1, SendingIs DEF AgentInv
  <2>5. /\ Pushing \in Seq(Batch) /\ Waiting(sessions) \in Seq(Batch) /\ buffer \in Batch
    BY PartsType DEF AgentInv, TypeOK, Batch
  <2>6. Batches' = Append(Batches, buffer)
    BY <2>1, <2>3, <2>4, <2>5, SendInRow DEF Batches, Pushing
  <2>7. \A s \in buffer : fate[s] = "live"
    BY DEF AgentInv, TypeOK, PlaceInv, OnePlace, Live
  <2>8. ASSUME NEW s \in Samples
        PROVE  Status(s)' = IF s \in buffer THEN "reported" ELSE Status(s)
    <3>1. CASE s \in buffer
      BY <2>1, <2>7, <3>1, StatusIs
    <3>2. CASE s \notin buffer
      BY <2>1, <3>2 DEF Status
    <3> QED BY <3>1, <3>2
  <2>9. Ledger!Becomes(buffer, "reported")
    BY <2>8, Becoming
  <2>10. Ledger!Snapshot
    BY <2>6, <2>9, BufferedIs DEF Ledger!Snapshot, AgentInv
  <2> QED BY <2>10 DEF Ledger!Next
<1>7. CASE MainReportFails(r)
  <2>1. PICK S \in {{}, buffer} : buffer' = buffer \ S /\ fate' = Settle(S, "dropped")
    BY <1>7 DEF MainReportFails
  <2>2. Batches' = Batches
    BY <1>1, <1>7 DEF MainReportFails, MainExits
  <2>3. CASE S = {}
    <3>1. buffer' = buffer /\ fate' = fate
      BY <2>1, <2>3 DEF Settle, AgentInv, TypeOK
    <3> QED BY <2>2, <3>1, Unseen
  <2>4. CASE S = buffer
    <3>1. buffer' = {} /\ \A s \in Samples : fate'[s] = IF s \in buffer THEN "dropped" ELSE fate[s]
      BY <2>1, <2>4 DEF Settle
    <3>2. Ledger!Discard
      BY <2>2, <3>1, Discards
    <3> QED BY <3>2 DEF Ledger!Next
  <2> QED BY <2>3, <2>4
<1>8. CASE MainSends(r)
  <2>1. /\ main[r] = "send" /\ sessions' = Append(sessions, Session(until[r], report[r]))
        /\ UNCHANGED <<manager, hand, fate, buffer>>
    BY <1>8 DEF MainSends
  <2>2. Sending = <<report[r]>>
    BY <2>1, SendingIs DEF AgentInv
  <2>3. Sending' = <<>>
    <3>1. \A q \in Runs : main'[q] = IF q = r THEN "recv" ELSE main[q]
      BY <1>8 DEF MainSends, AgentInv, TypeOK
    <3>2. \A q \in Runs : main[q] = "send" => q = r
      BY <2>1 DEF AgentInv, RunInv, Alive
    <3>3. \A q \in Runs : main'[q] # "send"
      BY <3>1, <3>2
    <3> QED BY <3>3, SendingWillBe DEF AgentInv
  <2>4. /\ Session(until[r], report[r]) \in SessionSignal
        /\ ~ IsKill(Session(until[r], report[r]))
        /\ Session(until[r], report[r]).reports = report[r] /\ report[r] \in Batch
    BY SessionType DEF AgentInv, TypeOK, Session, IsKill, Batch
  <2>5. /\ sessions \in Seq(SessionSignal)
        /\ \A i, j \in 1..Len(sessions) : IsKill(sessions[i]) /\ IsKill(sessions[j]) => i = j
    <3>1. sessions \in Seq(SessionSignal) /\ DOMAIN sessions = 1..Len(sessions)
      BY DEF AgentInv, TypeOK
    <3> QED BY <3>1 DEF AgentInv, KillInv
  <2>6. Waiting(sessions') = Append(Waiting(sessions), report[r])
    <3> DEFINE m == Session(until[r], report[r])
    <3>1. m \in SessionSignal /\ ~ IsKill(m) /\ m.reports = report[r]
          /\ sessions' = Append(sessions, m)
      BY <2>1, <2>4
    <3> HIDE DEF m
    <3>2. Waiting(sessions') = Append(Waiting(sessions), m.reports)
      BY <2>5, <3>1, WaitingJoins
    <3> QED BY <3>1, <3>2
  <2>7. Pushing \in Seq(Batch) /\ Waiting(sessions) \in Seq(Batch)
    BY PartsType DEF AgentInv
  <2>8. Pushing' = Pushing
    BY <2>1 DEF Pushing
  <2>9. Batches' = Batches
    BY <2>2, <2>3, <2>4, <2>6, <2>7, <2>8, SendInRow DEF Batches
  <2> QED BY <2>1, <2>9, Unseen
<1>9. CASE MainSendFails(r)
  <2>1. /\ main[r] = "send" /\ manager = "exited" /\ UNCHANGED <<manager, hand, sessions, buffer>>
        /\ \A s \in Samples : fate'[s] = IF s \in report[r] THEN "dropped" ELSE fate[s]
    BY <1>9 DEF MainSendFails, Settle
  <2>2. sessions = <<>>
    BY <2>1 DEF AgentInv, ShutdownInv
  <2>3. Sending = <<report[r]>> /\ report[r] \in Batch
    BY <2>1, SendingIs DEF AgentInv, TypeOK, Batch
  <2>4. Sending' = <<>>
    <3>1. \A q \in Runs : main'[q] = IF q = r THEN "exited" ELSE main[q]
      BY <1>9 DEF MainSendFails, MainExits, AgentInv, TypeOK
    <3>2. \A q \in Runs : main[q] = "send" => q = r
      BY <2>1 DEF AgentInv, RunInv, Alive
    <3>3. \A q \in Runs : main'[q] # "send"
      BY <3>1, <3>2
    <3> QED BY <3>3, SendingWillBe DEF AgentInv
  <2>5. Batches = <<>> \o <<>> \o <<report[r]>> /\ Batches' = <<>> \o <<>> \o <<>>
    BY <2>1, <2>2, <2>3, <2>4, NoneWaiting DEF Batches, Pushing
  <2>6. Batches = <<report[r]>> \o <<>> \o <<>>
    <3>1. <<>> \in Seq(Batch) /\ <<report[r]>> \in Seq(Batch)
      BY <2>3
    <3>2. /\ <<>> \o <<>> = <<>> /\ <<>> \o <<report[r]>> = <<report[r]>>
          /\ <<report[r]>> \o <<>> = <<report[r]>>
      BY <3>1, ConcatEmptySeq
    <3> QED BY <2>5, <3>2
  <2>7. /\ 1 \in DOMAIN Batches /\ Batches[1] = report[r]
        /\ SubSeq(Batches, 1, 1 - 1) \o SubSeq(Batches, 1 + 1, Len(Batches)) = Batches'
    <3>1. <<>> \in Seq(Batch)
      OBVIOUS
    <3> QED BY <2>3, <2>5, <2>6, <3>1, FirstOfRow
  <2>8. \A s \in Samples : s \in report[r] => fate[s] = "live" /\ s \notin buffer
    BY DEF AgentInv, PlaceInv, OnePlace, Live, Carried
  <2>9. ASSUME NEW s \in Samples
        PROVE  Status(s)' = IF s \in Batches[1] THEN "lost" ELSE Status(s)
    <3>1. CASE s \in report[r]
      BY <2>1, <2>7, <3>1, StatusIs
    <3>2. CASE s \notin report[r]
      BY <2>1, <2>7, <3>2 DEF Status
    <3> QED BY <3>1, <3>2
  <2>10. Ledger!DropBatch(1)
    BY <2>7, <2>9, Becoming DEF Ledger!DropBatch
  <2> QED BY <2>7, <2>10 DEF Ledger!Next
<1> QED BY <1>2, <1>3, <1>4, <1>5, <1>6, <1>7, <1>8, <1>9 DEF MainStep

\* Kill: the session behind it, if there is one, is dropped.
LEMMA RefinedKill ==
  ASSUME AgentInv, AgentInv', ManagerTakesKill
  PROVE  [Ledger!Next]_Ledger!vars
<1>1. /\ manager = "recv" /\ manager' = "exited" /\ sessions # <<>> /\ IsKill(Head(sessions))
      /\ sessions' = <<>> /\ UNCHANGED <<run, main, report, buffer>>
      /\ \A s \in Samples : fate'[s] = IF s \in Queued THEN "dropped" ELSE fate[s]
  BY DEF ManagerTakesKill, IsKill, Settle, callerVars, mainVars, backendVars
<1>2. /\ sessions \in Seq(SessionSignal) /\ DOMAIN sessions = 1..Len(sessions)
      /\ Len(sessions) \in Nat \ {0} /\ Head(sessions) = sessions[1]
  BY <1>1, TailAt DEF AgentInv, TypeOK
<1>3. 1 \in 1..Len(sessions) /\ IsKill(sessions[1])
  BY <1>1, <1>2
<1>4. 2 >= Len(sessions) /\ sessions[1].reports = {}
  <2>1. 1 + 1 >= Len(sessions)
    BY <1>2, <1>3 DEF AgentInv, KillInv
  <2> QED BY <1>2, <1>3, <2>1 DEF AgentInv, ShutdownInv
<1>5. \A i \in 1..(1 - 1) : ~ IsKill(sessions[i])
  OBVIOUS
<1>6. /\ Waiting(sessions) \in Seq(Batch) /\ Len(Waiting(sessions)) = Len(sessions) - 1
      /\ \A i \in 1..(Len(sessions) - 1) : ~ (i < 1) => Waiting(sessions)[i] = sessions[i + 1].reports
  BY <1>2, <1>3, <1>5, WaitingKilled
<1>7. Pushing = <<>> /\ Pushing' = <<>> /\ Sending' = Sending /\ Waiting(sessions') = <<>>
  BY <1>1, NoneWaiting DEF Pushing, Sending
<1>8. Sending \in Seq(Batch) /\ <<>> \in Seq(Batch)
  BY PartsType DEF AgentInv
<1>9. CASE Len(sessions) = 1
  <2>1. Queued = {}
    <3>1. \A i \in DOMAIN sessions : i = 1
      BY <1>2, <1>9
    <3> QED BY <1>4, <3>1 DEF Queued
  <2>2. Waiting(sessions) = <<>>
    BY <1>6, <1>9
  <2>3. Batches' = Batches
    BY <1>7, <2>2 DEF Batches
  <2>4. fate' = fate
    BY <1>1, <2>1 DEF AgentInv, TypeOK
  <2> QED BY <1>1, <2>3, <2>4, Unseen
<1>10. CASE Len(sessions) = 2
  <2> DEFINE x == sessions[2].reports
  <2>1. /\ 1 \in 1..(Len(sessions) - 1) /\ ~ (1 < 1) /\ 1 + 1 = 2 /\ Len(sessions) - 1 = 1
        /\ 1..Len(sessions) = {1, 2}
    BY <1>10
  <2>2. Waiting(sessions)[1] = x
    BY <1>6, <2>1
  <2>3. Waiting(sessions) = <<x>> /\ x \in Batch
    <3>1. Waiting(sessions)[1] \in Batch
      BY <1>6, <2>1
    <3> HIDE DEF x
    <3>2. x \in Batch
      BY <2>2, <3>1
    <3>3. <<x>> \in Seq(Batch) /\ Len(<<x>>) = 1 /\ <<x>>[1] = x
      BY <3>2
    <3>4. Len(Waiting(sessions)) = 1
      BY <1>6, <2>1
    <3>5. \A i \in 1..1 : Waiting(sessions)[i] = <<x>>[i]
      BY <2>2, <3>3
    <3> QED BY <1>6, <3>2, <3>3, <3>4, <3>5, SeqEqual
  <2>4. Queued = x
    <3>1. \A s : s \in Queued <=> \E i \in {1, 2} : s \in sessions[i].reports
      BY <1>2, <2>1 DEF Queued
    <3> QED BY <1>4, <3>1
  <2> HIDE DEF x
  <2>5. Batches = <<x>> \o <<>> \o Sending /\ Batches' = <<>> \o <<>> \o Sending
    <3>1. <<x>> \in Seq(Batch)
      BY <2>3
    <3>2. <<>> \o <<x>> = <<x>> /\ <<x>> \o <<>> = <<x>>
      BY <3>1, ConcatEmptySeq
    <3> QED BY <1>7, <2>3, <3>2 DEF Batches
  <2>6. /\ 1 \in DOMAIN Batches /\ Batches[1] = x
        /\ SubSeq(Batches, 1, 1 - 1) \o SubSeq(Batches, 1 + 1, Len(Batches)) = Batches'
    BY <1>8, <2>3, <2>5, FirstOfRow
  <2>7. \A s \in Samples : s \in x => fate[s] = "live" /\ s \notin buffer
    BY <2>4 DEF AgentInv, PlaceInv, OnePlace, Live, Sent
  <2>8. ASSUME NEW s \in Samples
        PROVE  Status(s)' = IF s \in Batches[1] THEN "lost" ELSE Status(s)
    <3>1. CASE s \in x
      BY <1>1, <2>4, <2>6, <3>1, StatusIs
    <3>2. CASE s \notin x
      BY <1>1, <2>4, <2>6, <3>2 DEF Status
    <3> QED BY <3>1, <3>2
  <2>9. Ledger!DropBatch(1)
    BY <2>6, <2>8, Becoming DEF Ledger!DropBatch
  <2> QED BY <2>6, <2>9 DEF Ledger!Next
<1>11. Len(sessions) = 1 \/ Len(sessions) = 2
  BY <1>2, <1>4
<1> QED BY <1>9, <1>10, <1>11

LEMMA RefinedManager ==
  ASSUME AgentInv, AgentInv', ManagerStep
  PROVE  [Ledger!Next]_Ledger!vars
<1> USE DEF callerVars, timerVars, mainVars, backendVars, history
<1>1. CASE ManagerTakesSession
  <2>1. /\ manager = "recv" /\ manager' = "push" /\ hand' = Head(sessions).reports
        /\ sessions # <<>> /\ ~ IsKill(Head(sessions)) /\ sessions' = Tail(sessions)
        /\ UNCHANGED <<run, main, report, fate, buffer>>
    BY <1>1 DEF ManagerTakesSession, IsKill
  <2>2. /\ sessions \in Seq(SessionSignal)
        /\ \A i, j \in 1..Len(sessions) : IsKill(sessions[i]) /\ IsKill(sessions[j]) => i = j
    <3>1. sessions \in Seq(SessionSignal) /\ DOMAIN sessions = 1..Len(sessions)
      BY DEF AgentInv, TypeOK
    <3> QED BY <3>1 DEF AgentInv, KillInv
  <2>3. /\ Waiting(sessions) # <<>> /\ Head(Waiting(sessions)) = hand'
        /\ Waiting(sessions') = Tail(Waiting(sessions))
    BY <2>1, <2>2, WaitingGoes
  <2>4. Pushing = <<>> /\ Pushing' = <<hand'>> /\ Sending' = Sending
    BY <2>1 DEF Pushing, Sending
  <2>5. Waiting(sessions) \in Seq(Batch) /\ Sending \in Seq(Batch)
    BY PartsType DEF AgentInv
  <2>6. Batches' = Batches
    BY <2>3, <2>4, <2>5, TakeFromRow DEF Batches
  <2> QED BY <2>1, <2>6, Unseen
<1>2. CASE ManagerTakesKill
  BY <1>2, RefinedKill
<1>3. CASE ManagerPushes
  <2>1. /\ manager = "push" /\ manager' = "recv"
        /\ UNCHANGED <<sessions, run, main, report, buffer>>
    BY <1>3 DEF ManagerPushes
  <2>2. PICK how \in {"delivered", "rejected"} : fate' = Settle(hand, how)
    BY <1>3 DEF ManagerPushes
  <2>3. \A s \in Samples : fate'[s] = IF s \in hand THEN how ELSE fate[s]
    BY <2>2 DEF Settle
  <2>4. Pushing = <<hand>> /\ Pushing' = <<>> /\ Sending' = Sending
    BY <2>1 DEF Pushing, Sending
  <2>5. hand \in Batch /\ Waiting(sessions) \in Seq(Batch) /\ Sending \in Seq(Batch)
    BY PartsType DEF AgentInv, TypeOK, Batch
  <2>6. Batches # <<>> /\ Head(Batches) = hand /\ Batches' = Tail(Batches)
    <3>1. Batches = <<hand>> \o Waiting(sessions) \o Sending
          /\ Batches' = <<>> \o Waiting(sessions) \o Sending
      BY <2>1, <2>4 DEF Batches
    <3> QED BY <2>5, <3>1, FirstOfRow
  <2> DEFINE to == IF how = "delivered" THEN "delivered" ELSE "lost"
  <2>7. \A s \in hand : fate[s] = "live" /\ s \notin buffer
    BY DEF AgentInv, TypeOK, PlaceInv, OnePlace, Live, Sent
  <2>8. ASSUME NEW s \in Samples
        PROVE  Status(s)' = IF s \in hand THEN to ELSE Status(s)
    <3>1. CASE s \in hand
      BY <2>3, <3>1, StatusIs
    <3>2. CASE s \notin hand
      BY <2>1, <2>3, <3>2 DEF Status
    <3> QED BY <3>1, <3>2
  <2>9. to \in {"delivered", "lost"}
    OBVIOUS
  <2> HIDE DEF to
  <2>10. Ledger!Becomes(hand, to)
    BY <2>8, Becoming
  <2>11. Ledger!HandOver
    BY <2>6, <2>9, <2>10 DEF Ledger!HandOver
  <2> QED BY <2>11 DEF Ledger!Next
<1>4. CASE ManagerDisconnects
  <2>1. UNCHANGED <<hand, sessions, run, main, report, fate, buffer>>
        /\ manager = "recv" /\ manager' = "exited"
    BY <1>4 DEF ManagerDisconnects
  <2>2. Batches' = Batches
    BY <2>1 DEF Batches, Pushing, Sending
  <2> QED BY <2>1, <2>2, Unseen
<1> QED BY <1>1, <1>2, <1>3, <1>4 DEF ManagerStep

LEMMA RefinedStep ==
  ASSUME AgentInv, AgentInv', [Next]_vars
  PROVE  [Ledger!Next]_Ledger!vars
<1> USE DEF callerVars, mainVars, managerVars, backendVars, history
<1>1. CASE UNCHANGED <<manager, hand, sessions, run, main, report, fate, buffer>>
  <2>1. Batches' = Batches
    BY <1>1 DEF Batches, Pushing, Sending
  <2> QED BY <1>1, <2>1, Unseen
<1>2. CASE UNCHANGED vars \/ TimerStep \/ TimerFault \/ Tick
  BY <1>1, <1>2 DEF vars, TimerStep, TimerFault, Tick, TimerChecks, TimerWakes, TimerStamps,
     TimerSends, TimerInterrupted, TimerFails
<1>3. ASSUME NEW s \in Samples, Record(s) PROVE [Ledger!Next]_Ledger!vars
  <2>1. /\ fate[s] = "unrecorded" /\ buffer' = buffer \union {s}
        /\ \A q \in Samples : fate'[q] = IF q = s THEN "live" ELSE fate[q]
        /\ UNCHANGED <<manager, hand, sessions, run, main, report>>
    BY <1>3 DEF Record, AgentInv, TypeOK
  <2>2. Batches' = Batches
    BY <2>1 DEF Batches, Pushing, Sending
  <2>3. ASSUME NEW q \in Samples
        PROVE  Status(q)' = IF q \in {s} THEN "buffered" ELSE Status(q)
    <3>1. CASE q = s
      BY <2>1, <3>1, StatusIs
    <3>2. CASE q # s
      BY <2>1, <3>2 DEF Status
    <3> QED BY <3>1, <3>2
  <2>4. Ledger!Becomes({s}, "buffered")
    BY <2>3, Becoming
  <2>5. Status(s) = "unrecorded"
    BY <2>1, StatusIs
  <2>6. Ledger!Record(s)
    BY <2>2, <2>4, <2>5 DEF Ledger!Record
  <2> QED BY <2>6 DEF Ledger!Next
<1> QED BY <1>2, <1>3, RefinedCaller, RefinedMain, RefinedManager DEF Next

\* Samples move through the agent's threads and channels as SampleLedger says, whatever
\* the number of samples, runs and failures and the capacity of the channel: each snapshot
\* takes all that is buffered, and batches are handed over once each, in their order.
THEOREM AgentImplementsLedger == Spec => ImplementsLedger
<1>1. Spec => []AgentInv
  BY KillInit, KillStep, PlaceInit, PlaceStep, RunInit, RunStep, ShutdownCorrect, TypeCorrect,
     PTL DEF Spec, AgentInv
<1> QED BY <1>1, RefinedInit, RefinedStep, PTL DEF Spec, ImplementsLedger, Ledger!Spec
=============================================================================
