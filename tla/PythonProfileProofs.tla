------------------------ MODULE PythonProfileProofs ------------------------
(***************************************************************************)
(* Theorems about PythonUnwind and PythonProfile, for every memory, set of *)
(* code objects and names, depth, buffer and bound: first the walk alone,  *)
(* then what is made of it.                                                *)
(***************************************************************************)
EXTENDS PythonProfile, ProfileTablesProofs

Addresses == Frames \union {Null, Fault}

LEMMA MemoryType ==
  ASSUME NEW m \in Memories
  PROVE  /\ m \in [Frames -> Fields]
         /\ \A f \in Frames : m[f].previous \in Addresses
  BY PythonUnwindAssumption DEF PythonUnwindAssumption, Fields, Addresses

-----------------------------------------------------------------------------
(* What is beyond an address.                                              *)

LEMMA BeyondBegins ==
  ASSUME NEW m, NEW a \in Addresses
  PROVE  a \in Beyond(m, a)
  BY DEF Beyond, Addresses

LEMMA BeyondGoesOn ==
  ASSUME NEW m \in Memories, NEW a, NEW f \in Beyond(m, a), OfInterpreter(m, f)
  PROVE  m[f].previous \in Beyond(m, a)
<1>1. m[f].previous \in Addresses
  BY MemoryType DEF OfInterpreter
<1>2. ASSUME NEW S \in SUBSET Addresses, a \in S,
             \A g \in S : OfInterpreter(m, g) => m[g].previous \in S
      PROVE  m[f].previous \in S
  <2>1. f \in S
    BY <1>2 DEF Beyond, Addresses
  <2> QED BY <1>2, <2>1
<1> QED BY <1>1, <1>2 DEF Beyond, Addresses

-----------------------------------------------------------------------------
(* Stacks that grow at their end.                                          *)

LEMMA SequenceIsFunction ==
  ASSUME NEW S, NEW s \in Seq(S)
  PROVE  s \in [DOMAIN s -> S]
  OBVIOUS

LEMMA AboveInAppend ==
  ASSUME NEW S, NEW stack \in Seq(S), NEW f \in S
  PROVE  /\ \A i \in 1..Len(stack) : SubSeq(Append(stack, f), 1, i - 1) = SubSeq(stack, 1, i - 1)
         /\ SubSeq(Append(stack, f), 1, Len(stack)) = stack
<1>1. ASSUME NEW n \in 0..Len(stack)
      PROVE  SubSeq(Append(stack, f), 1, n) = SubSeq(stack, 1, n)
  OBVIOUS
<1>2. SubSeq(stack, 1, Len(stack)) = stack
  OBVIOUS
<1> QED BY <1>1, <1>2

LEMMA StackGrows ==
  ASSUME NEW m, NEW first, NEW stack \in Seq(Frames), IsStack(m, first, stack),
         NEW f \in Frames, OfPython(m, f), m[f].executable \in Codes,
         f \in Beyond(m, Below(m, first, stack)), ~ LinkedToItself(m, stack)
  PROVE  IsStack(m, first, Append(stack, f))
<1> DEFINE more == Append(stack, f)
<1>1. more \in Seq(Frames) /\ Len(more) = Len(stack) + 1 /\ more[Len(more)] = f
  OBVIOUS
<1>2. \A i \in 1..Len(stack) : more[i] = stack[i] /\ SubSeq(more, 1, i - 1) = SubSeq(stack, 1, i - 1)
  BY AboveInAppend
<1>3. SubSeq(more, 1, Len(more) - 1) = stack
  BY <1>1, AboveInAppend
<1> HIDE DEF more
<1> SUFFICES ASSUME NEW i \in DOMAIN more
             PROVE  LET above == SubSeq(more, 1, i - 1)
                    IN  /\ OfPython(m, more[i]) /\ m[more[i]].executable \in Codes
                        /\ more[i] \in Beyond(m, Below(m, first, above)) /\ ~ LinkedToItself(m, above)
  BY DEF IsStack, more
<1>4. CASE i \in 1..Len(stack)
  <2>1. i \in DOMAIN stack /\ more[i] = stack[i] /\ SubSeq(more, 1, i - 1) = SubSeq(stack, 1, i - 1)
    BY <1>2, <1>4
  <2>2. LET above == SubSeq(stack, 1, i - 1)
        IN  /\ OfPython(m, stack[i]) /\ m[stack[i]].executable \in Codes
            /\ stack[i] \in Beyond(m, Below(m, first, above)) /\ ~ LinkedToItself(m, above)
    BY <2>1 DEF IsStack
  <2> QED BY <2>1, <2>2
<1>5. CASE i = Len(more)
  BY <1>1, <1>3, <1>5
<1> QED BY <1>1, <1>4, <1>5

LEMMA BelowGrown ==
  ASSUME NEW m, NEW first, NEW stack \in Seq(Frames), NEW f \in Frames
  PROVE  /\ Below(m, first, Append(stack, f)) = m[f].previous
         /\ LinkedToItself(m, Append(stack, f)) <=> m[f].previous = f
  BY DEF Below, LinkedToItself

-----------------------------------------------------------------------------
(* The walk, step by step.                                                 *)

LEMMA UnwindTypeInit == UnwindInit => UnwindTypeOK
  BY PythonUnwindAssumption DEF PythonUnwindAssumption, UnwindInit, UnwindTypeOK

LEMMA EntersType ==
  ASSUME UnwindTypeOK, NEW first \in Frames \union {Null, Fault}, Enters(first), memory' \in Memories
  PROVE  UnwindTypeOK'
  BY PythonUnwindAssumption DEF PythonUnwindAssumption, UnwindTypeOK, Enters, Readable

\* Where the walk goes, there is a frame, and what it reads of it has its type.
LEMMA HereType ==
  ASSUME UnwindTypeOK, Goes
  PROVE  /\ frame_ptr \in Frames /\ memory \in [Frames -> Fields] /\ Here = memory[frame_ptr]
         /\ Here.owner \in (0..4) \union {Fault} /\ Here.executable \in Codes \union {Null, Fault}
         /\ Here.previous \in Frames \union {Null, Fault}
  BY PythonUnwindAssumption
  DEF PythonUnwindAssumption, UnwindTypeOK, Goes, Here, Readable, Fields

LEMMA WalkType ==
  ASSUME UnwindTypeOK, WalkStep
  PROVE  UnwindTypeOK'
<1>1. CASE WalkStops
  BY <1>1 DEF UnwindTypeOK, WalkStops
<1>2. CASE WalkSkips
  BY <1>2, HereType DEF UnwindTypeOK, WalkSkips, CanSkip
<1>3. CASE WalkTakes
  <2>1. Goes /\ frame_ptr \in Frames /\ Here.previous \in Frames \union {Null, Fault} /\ Here.executable \in Codes
    BY <1>3, HereType DEF WalkTakes, CanTake
  <2>2. buf' \in Seq(Codes) /\ Len(buf') = Len(buf) + 1 /\ Len(buf) < MaxDepth
    BY <1>3, <2>1 DEF UnwindTypeOK, WalkTakes, Goes
  <2>3. Len(buf') <= MaxDepth
    BY <2>2, PythonUnwindAssumption DEF PythonUnwindAssumption, UnwindTypeOK
  <2> QED BY <1>3, <2>1, <2>2, <2>3 DEF UnwindTypeOK, WalkTakes
<1> QED BY <1>1, <1>2, <1>3 DEF WalkStep

\* What was taken so far is a stack, frame_ptr is beyond it, and prev_frame, if there is one,
\* is the frame that led to it: the last of the stack, or one of the interpreter beyond it.
WalkHas(stack) ==
  /\ IsStack(memory, start, stack)
  /\ \A i \in DOMAIN buf : buf[i] = memory[stack[i]].executable
  /\ frame_ptr \in Beyond(memory, Below(memory, start, stack))
  /\ \/ prev_frame = Null /\ stack = <<>>
     \/ /\ prev_frame \in Frames /\ frame_ptr = memory[prev_frame].previous
        /\ \/ /\ stack # <<>> /\ prev_frame = stack[Len(stack)]
           \/ /\ prev_frame \in Beyond(memory, Below(memory, start, stack))
              /\ OfInterpreter(memory, prev_frame) /\ ~ LinkedToItself(memory, stack)

StackSoFar == \E stack \in Seq(Frames) : Len(stack) = Len(buf) /\ WalkHas(stack)
WalkInv == walk = "walking" => StackSoFar

\* Where the walk goes on, the last frame of the stack is not linked to itself.
LEMMA NotLinkedToItself ==
  ASSUME UnwindTypeOK, NEW stack \in Seq(Frames), WalkHas(stack), Goes
  PROVE  ~ LinkedToItself(memory, stack)
  BY DEF WalkHas, Goes, LinkedToItself

LEMMA StackGivesFrames ==
  ASSUME UnwindTypeOK, NEW stack \in Seq(Frames), Len(stack) = Len(buf), IsStack(memory, start, stack),
         \A i \in DOMAIN buf : buf[i] = memory[stack[i]].executable,
         Len(buf) = MaxDepth \/ NoneBelow(memory, start, stack)
  PROVE  FramesAreTheStack
<1>1. DOMAIN buf = DOMAIN stack
  BY DEF UnwindTypeOK
<1>2. stack \in [DOMAIN buf -> Frames]
  BY <1>1
<1> QED BY <1>2 DEF FramesAreTheStack

\* Where the walk stops, the buffer is full or nothing is left below.
LEMMA StopsAtTheEnd ==
  ASSUME UnwindTypeOK, NEW stack \in Seq(Frames), WalkHas(stack), WalkStops
  PROVE  Len(buf) = MaxDepth \/ NoneBelow(memory, start, stack)
<1> DEFINE below == Beyond(memory, Below(memory, start, stack))
<1>1. CASE ~ Goes
  <2>1. Len(buf) \in Nat /\ Len(buf) <= MaxDepth /\ MaxDepth \in Nat
    BY PythonUnwindAssumption DEF PythonUnwindAssumption, UnwindTypeOK
  <2>2. CASE Len(buf) = MaxDepth
    BY <2>2
  <2>3. CASE frame_ptr = Null
    BY <2>3, PythonUnwindAssumption DEF PythonUnwindAssumption, WalkHas, NoneBelow
  <2>4. CASE frame_ptr = prev_frame /\ frame_ptr # Null
    BY <2>4 DEF WalkHas, NoneBelow, LinkedToItself
  <2> QED BY <1>1, <2>1, <2>2, <2>3, <2>4 DEF Goes, WalkStops
<1>2. CASE Goes
  <2>1. /\ frame_ptr \in Frames /\ frame_ptr \in below /\ Here = memory[frame_ptr]
        /\ Here.owner \in (0..4) \union {Fault} /\ Here.executable \in Codes \union {Null, Fault}
        /\ memory \in Memories
    BY <1>2, HereType DEF WalkHas, UnwindTypeOK
  <2>2. ~ CanSkip /\ ~ CanTake
    BY <1>2 DEF WalkStops
  <2>3. CASE Here.owner = Fault
    BY <2>1, <2>3 DEF NoneBelow
  <2>4. CASE Here.owner \in {3, 4}
    <3>1. Here.previous = Fault
      BY <2>2, <2>4, PythonUnwindAssumption DEF PythonUnwindAssumption, CanSkip, Readable, Skipped
    <3>2. Fault \in below
      BY <2>1, <2>4, <3>1, BeyondGoesOn DEF OfInterpreter
    <3> QED BY <3>2, PythonUnwindAssumption DEF PythonUnwindAssumption, NoneBelow
  <2>5. CASE Here.owner \in 0..2
    <3>1. Here.executable \notin Codes
      BY <2>2, <2>5, PythonUnwindAssumption DEF PythonUnwindAssumption, CanTake, Readable, Skipped
    <3> QED BY <2>1, <2>5, <3>1 DEF NoneBelow, OfPython
  <2> QED BY <2>1, <2>3, <2>4, <2>5
<1> QED BY <1>1, <1>2

-----------------------------------------------------------------------------
(* Each step.                                                              *)

LEMMA EntersInv ==
  ASSUME NEW first \in Frames \union {Null, Fault}, Enters(first)
  PROVE  WalkInv' /\ FramesAreTheStack'
<1>1. /\ start' = first /\ frame_ptr' = first /\ prev_frame' = Null /\ buf' = <<>>
      /\ walk' = IF Readable(first) THEN "walking" ELSE "done"
  BY DEF Enters
<1>2. IsStack(memory', start', <<>>) /\ Below(memory', start', <<>>) = first
  BY <1>1 DEF IsStack, Below
<1>3. first \in Beyond(memory', first)
  BY BeyondBegins DEF Addresses
<1>4. CASE Readable(first)
  <2>1. WalkHas(<<>>)'
    BY <1>1, <1>2, <1>3 DEF WalkHas
  <2>2. <<>> \in Seq(Frames) /\ Len(<<>>) = Len(buf')
    BY <1>1
  <2>3. StackSoFar'
    BY <2>1, <2>2 DEF StackSoFar
  <2> QED BY <1>1, <1>4, <2>3 DEF WalkInv, FramesAreTheStack
<1>5. CASE ~ Readable(first)
  <2>1. NoneBelow(memory', start', <<>>)
    BY <1>2, <1>3, <1>5, PythonUnwindAssumption DEF PythonUnwindAssumption, NoneBelow, Readable
  <2>2. <<>> \in [DOMAIN buf' -> Frames]
    BY <1>1
  <2>3. DOMAIN buf' = {}
    BY <1>1
  <2>4. FramesAreTheStack'
    BY <1>1, <1>2, <2>1, <2>2, <2>3 DEF FramesAreTheStack
  <2> QED BY <1>1, <1>5, <2>4 DEF WalkInv
<1> QED BY <1>4, <1>5

LEMMA WalkStepInv ==
  ASSUME UnwindTypeOK, WalkInv, WalkStep
  PROVE  WalkInv' /\ FramesAreTheStack'
<1>1. walk = "walking" /\ memory' = memory /\ start' = start
  BY DEF WalkStep, WalkStops, WalkSkips, WalkTakes, Goes
<1>2. PICK stack \in Seq(Frames) : Len(stack) = Len(buf) /\ WalkHas(stack)
  BY <1>1 DEF WalkInv, StackSoFar
<1>3. UnwindTypeOK'
  BY WalkType
<1>4. memory \in Memories
  BY DEF UnwindTypeOK
<1>5. CASE WalkStops
  <2>1. walk' = "done" /\ buf' = buf
    BY <1>5 DEF WalkStops
  <2>2. Len(buf) = MaxDepth \/ NoneBelow(memory, start, stack)
    BY <1>2, <1>5, StopsAtTheEnd
  <2>3. FramesAreTheStack
    BY <1>2, <2>2, StackGivesFrames DEF WalkHas
  <2>4. FramesAreTheStack'
    <3>1. DOMAIN buf = DOMAIN stack
      BY <1>2 DEF UnwindTypeOK
    <3>2. stack \in [DOMAIN buf -> Frames]
      BY <3>1
    <3> QED BY <1>1, <1>2, <2>1, <2>2, <3>2 DEF FramesAreTheStack, WalkHas
  <2> QED BY <2>1, <2>4 DEF WalkInv
<1>6. CASE WalkSkips
  <2>1. /\ Goes /\ CanSkip /\ prev_frame' = frame_ptr /\ frame_ptr' = memory[frame_ptr].previous
        /\ buf' = buf /\ walk' = walk
    BY <1>6 DEF WalkSkips, Here
  <2>2. frame_ptr \in Frames /\ OfInterpreter(memory, frame_ptr)
    BY <2>1, HereType, PythonUnwindAssumption
    DEF PythonUnwindAssumption, CanSkip, Readable, Skipped, OfInterpreter
  <2>3. frame_ptr \in Beyond(memory, Below(memory, start, stack))
    BY <1>2 DEF WalkHas
  <2>4. frame_ptr' \in Beyond(memory, Below(memory, start, stack))
    BY <1>4, <2>1, <2>2, <2>3, BeyondGoesOn
  <2>5. ~ LinkedToItself(memory, stack)
    BY <1>2, <2>1, NotLinkedToItself
  <2>6. WalkHas(stack)'
    BY <1>1, <1>2, <2>1, <2>2, <2>3, <2>4, <2>5 DEF WalkHas
  <2>7. StackSoFar'
    BY <1>2, <2>1, <2>6 DEF StackSoFar
  <2> QED BY <1>1, <2>1, <2>7 DEF WalkInv, FramesAreTheStack
<1>7. CASE WalkTakes
  <2>1. /\ Goes /\ CanTake /\ buf' = Append(buf, memory[frame_ptr].executable)
        /\ IF Readable(memory[frame_ptr].previous)
           THEN prev_frame' = frame_ptr /\ frame_ptr' = memory[frame_ptr].previous /\ walk' = walk
           ELSE walk' = "done"
    BY <1>7 DEF WalkTakes, Here
  <2>2. /\ frame_ptr \in Frames /\ OfPython(memory, frame_ptr) /\ memory[frame_ptr].executable \in Codes
        /\ memory[frame_ptr].previous \in Frames \union {Null, Fault}
    BY <2>1, HereType, PythonUnwindAssumption
    DEF PythonUnwindAssumption, CanTake, Readable, Skipped, OfPython
  <2>3. frame_ptr \in Beyond(memory, Below(memory, start, stack)) /\ IsStack(memory, start, stack)
    BY <1>2 DEF WalkHas
  <2>4. ~ LinkedToItself(memory, stack)
    BY <1>2, <2>1, NotLinkedToItself
  <2>12. Append(stack, frame_ptr) \in Seq(Frames)
    BY <2>2
  <2> PICK more \in Seq(Frames) : more = Append(stack, frame_ptr)
    BY <2>12
  <2>5. IsStack(memory, start, more)
    BY <2>2, <2>3, <2>4, StackGrows
  <2>6. Below(memory, start, more) = memory[frame_ptr].previous
    BY <2>2, BelowGrown
  <2>7. memory[frame_ptr].previous \in Beyond(memory, memory[frame_ptr].previous)
    BY <2>2, BeyondBegins DEF Addresses
  <2>8. more \in Seq(Frames) /\ Len(more) = Len(buf') /\ more # <<>> /\ more[Len(more)] = frame_ptr
    BY <1>2, <2>1, <2>2 DEF UnwindTypeOK
  <2>9. \A i \in DOMAIN buf' : buf'[i] = memory[more[i]].executable
    <3>1. \A i \in DOMAIN buf : buf[i] = memory[stack[i]].executable
      BY <1>2 DEF WalkHas
    <3>2. buf \in Seq(Codes) /\ stack \in Seq(Frames) /\ Len(stack) = Len(buf)
      BY <1>2 DEF UnwindTypeOK
    <3>3. DOMAIN buf' = 1..(Len(buf) + 1)
      BY <2>1, <3>2
    <3>4. ASSUME NEW i \in 1..Len(buf) PROVE buf'[i] = memory[more[i]].executable
      BY <2>1, <3>1, <3>2, <3>4
    <3>5. buf'[Len(buf) + 1] = memory[more[Len(buf) + 1]].executable
      BY <2>1, <3>2
    <3> QED BY <3>2, <3>3, <3>4, <3>5
  <2>10. CASE Readable(memory[frame_ptr].previous)
    <3>1. WalkHas(more)'
      BY <1>1, <2>1, <2>2, <2>5, <2>6, <2>7, <2>8, <2>9, <2>10 DEF WalkHas
    <3>2. StackSoFar'
      BY <2>8, <3>1 DEF StackSoFar
    <3> QED BY <1>1, <2>1, <2>10, <3>2 DEF WalkInv, FramesAreTheStack
  <2>11. CASE ~ Readable(memory[frame_ptr].previous)
    <3>1. NoneBelow(memory, start, more)
      BY <2>6, <2>7, <2>11, PythonUnwindAssumption DEF PythonUnwindAssumption, NoneBelow, Readable
    <3>2. DOMAIN buf' = DOMAIN more
      BY <1>3, <2>8 DEF UnwindTypeOK
    <3>3. more \in [DOMAIN buf' -> Frames]
      <4>1. more \in [DOMAIN more -> Frames]
        BY SequenceIsFunction
      <4> QED BY <3>2, <4>1
    <3>4. FramesAreTheStack'
      BY <1>1, <2>5, <2>9, <3>1, <3>3 DEF FramesAreTheStack
    <3> QED BY <2>1, <2>11, <3>4 DEF WalkInv
  <2> QED BY <2>10, <2>11
<1> QED BY <1>5, <1>6, <1>7 DEF WalkStep

-----------------------------------------------------------------------------
(* The theorems.                                                           *)

LEMMA WalkUnchanged ==
  ASSUME UNCHANGED unwindVars
  PROVE  (WalkInv => WalkInv') /\ (FramesAreTheStack => FramesAreTheStack') /\ (UnwindTypeOK => UnwindTypeOK')
<1> USE DEF unwindVars
<1>1. WalkInv => WalkInv'
  BY DEF WalkInv, StackSoFar, WalkHas
<1>2. FramesAreTheStack => FramesAreTheStack'
  BY DEF FramesAreTheStack
<1>3. UnwindTypeOK => UnwindTypeOK'
  BY DEF UnwindTypeOK
<1> QED BY <1>1, <1>2, <1>3

UnwindInv == UnwindTypeOK /\ WalkInv /\ FramesAreTheStack

LEMMA UnwindInvAlways == UnwindSpec => []UnwindInv
<1>1. UnwindInit => UnwindInv
  BY UnwindTypeInit DEF UnwindInit, UnwindInv, WalkInv, FramesAreTheStack
<1>2. UnwindInv /\ [UnwindNext]_unwindVars => UnwindInv'
  <2> SUFFICES ASSUME UnwindInv, [UnwindNext]_unwindVars PROVE UnwindInv'
    OBVIOUS
  <2>1. CASE WalkStep
    BY <2>1, WalkType, WalkStepInv DEF UnwindInv
  <2>2. ASSUME NEW first \in Frames \union {Null, Fault}, Unwind(first) PROVE UnwindInv'
    <3>1. memory' \in Memories /\ Enters(first)
      BY <2>2 DEF Unwind, UnwindInv, UnwindTypeOK
    <3> QED BY <3>1, EntersType, EntersInv DEF UnwindInv
  <2>3. CASE UNCHANGED unwindVars
    BY <2>3, WalkUnchanged DEF UnwindInv
  <2> QED BY <2>1, <2>2, <2>3 DEF UnwindNext
<1> QED BY <1>1, <1>2, PTL DEF UnwindSpec

\* unwind(): whatever the memory is and wherever a read fails, what it returns is the top of
\* the stack, none of its frames left out, down to the last that can be read or to MAX_DEPTH.
THEOREM WalkReturnsTheStack == UnwindSpec => []FramesAreTheStack
<1>1. UnwindInv => FramesAreTheStack
  BY DEF UnwindInv
<1> QED BY <1>1, UnwindInvAlways, PTL

-----------------------------------------------------------------------------
(* Names.                                                                  *)

LEMMA NoBytes == Bytes(<<>>) = 0
<1> DEFINE Width1(i) == Width[(<<>>)[i]]
           iter == CHOOSE f : f = [s \in SUBSET {} |->
                     IF s = {} THEN 0
                     ELSE Width1(CHOOSE x \in s : TRUE) + f[s \ {CHOOSE x \in s : TRUE}]]
<1>1. Bytes(<<>>) = iter[{}]
  BY DEF Bytes, MapThenSumSet, MapThenFoldSet
<1> QED BY <1>1

LEMMA Greatest ==
  ASSUME NEW n \in Nat, NEW S \in SUBSET (0..n), S # {}
  PROVE  Max(S) \in S /\ \A y \in S : y <= Max(S)
<1> DEFINE Bounds == {u \in Nat : \A y \in S : y <= u}
<1>1. n \in Bounds /\ Bounds \subseteq Nat
  OBVIOUS
<1>2. PICK least \in Bounds : \A u \in Bounds : ~ (<<u, least>> \in OpToRel(<, Nat))
  <2> HIDE DEF Bounds
  <2> QED BY <1>1, NatLessThanWellFounded, WFMin
<1>3. \A u \in Bounds : ~ (u < least)
  BY <1>1, <1>2 DEF OpToRel
<1>4. least \in S
  <2> SUFFICES ASSUME least \notin S PROVE FALSE
    OBVIOUS
  <2>1. PICK y \in S : TRUE
    OBVIOUS
  <2>2. y \in Nat /\ y < least
    BY <2>1
  <2>3. least - 1 \in Bounds
    BY <2>2
  <2> QED BY <1>3, <2>2, <2>3
<1>5. \E x \in S : \A y \in S : x >= y
  BY <1>4
<1>6. Max(S) \in S /\ \A y \in S : Max(S) >= y
  BY <1>5 DEF Max
<1> QED BY <1>6

\* A name that is read shows its string, cut only where the buffer ends.
LEMMA UcsShows ==
  ASSUME NEW form, NEW text \in Seq(DOMAIN Width), ReadUcs(form, text) # EmptyString
  PROVE  Shows(ReadUcs(form, text), text)
<1> DEFINE limit == UcsLimit(form)
           fits == {n \in 0..Len(text) : n <= limit /\ Fits(text, n)}
           most == Max(fits)
<1>1. limit \in {BufLen \div 2, BufLen \div 4} /\ limit \in Nat /\ BufLen \in Nat
  BY PythonProfileAssumption DEF PythonProfileAssumption, UcsLimit
<1>2. Len(text) \in Nat /\ Beginning(text, 0) = <<>>
  BY DEF Beginning
<1>3. 0 \in fits
  BY <1>1, <1>2, NoBytes DEF Fits
<1>4. most \in fits /\ \A n \in fits : n <= most
  <2>1. fits \in SUBSET (0..Len(text))
    OBVIOUS
  <2> HIDE DEF fits
  <2> QED BY <1>2, <1>3, <2>1, Greatest
<1>5. ReadUcs(form, text) = Beginning(text, most)
  BY DEF ReadUcs
<1>6. most # 0
  BY <1>2, <1>5 DEF EmptyString
<1>7. most \in Nat /\ most <= Len(text) /\ most <= limit
  BY <1>4
<1>8. most < Len(text) => most = limit \/ ~ Fits(text, most + 1)
  <2> SUFFICES ASSUME most < Len(text), most # limit, Fits(text, most + 1) PROVE FALSE
    OBVIOUS
  <2>1. most + 1 \in fits
    BY <1>1, <1>2, <1>7
  <2> HIDE DEF most, fits
  <2> QED BY <1>4, <1>7, <2>1
<1> HIDE DEF limit, fits, most
<1>9. most \in 1..Len(text)
  BY <1>2, <1>6, <1>7
<1> QED BY <1>1, <1>5, <1>8, <1>9 DEF Shows

LEMMA StrShows ==
  ASSUME NEW text \in Seq(DOMAIN Width), ReadStr(text) # EmptyString
  PROVE  Shows(ReadStr(text), text)
<1>1. ReadStr(text) = text /\ text # <<>>
  BY DEF ReadStr, EmptyString
<1>2. Beginning(text, Len(text)) = text /\ Len(text) \in 1..Len(text)
  BY <1>1 DEF Beginning
<1> QED BY <1>1, <1>2 DEF Shows

LEMMA NameShows ==
  ASSUME NEW form, NEW text \in Seq(DOMAIN Width), NEW name \in Names(form, text), name # EmptyString
  PROVE  Shows(name, text)
<1>1. CASE form \in {"ascii", "utf8"}
  <2>1. name = ReadStr(text)
    BY <1>1 DEF Names
  <2> QED BY <2>1, StrShows
<1>2. CASE form \in {"ucs1", "ucs2", "ucs4"}
  <2>1. name = ReadUcs(form, text)
    BY <1>2 DEF Names
  <2> QED BY <2>1, UcsShows
<1>3. CASE form \notin {"ascii", "utf8", "ucs1", "ucs2", "ucs4"}
  BY <1>3 DEF Names
<1> QED BY <1>1, <1>2, <1>3

-----------------------------------------------------------------------------
(* The inductive invariant.                                                *)

\* Of the first record, no more frames than it has are resolved.
ResolvedInv == ring # <<>> => resolved <= Len(Head(ring))

\* What an allocated code object is made of: none of its strings is freed before it is.
HeapInv ==
  \A c \in live : /\ object[c] \in Objects
                 /\ \A s \in PointersOf(object[c]) \intersect Unicodes : string[s] # Fault

\* A name that is being read is of a frame that is not in the cache.  If its code object has
\* been allocated since the cache was cleared, the string is its own, and whole.
ReadingInv ==
  /\ reading.string = Null => reading.form = "unread" /\ reading.whole
  /\ reading.string # Null =>
       /\ Resolving /\ NextCode \notin DOMAIN symbol_cache
       /\ NextCode \notin stale => reading.string = object[NextCode][reading.of] /\ reading.whole

\* The profile that is being built counts what was added since the last one was sent.
BuilderInv == Indexed(builder) /\ IsTable(window) /\ Counts(builder, window, Period)

Inv ==
  /\ TypeOK /\ ResolvedInv /\ HeapInv /\ ReadingInv /\ NamesAreCurrent
  /\ WalkInv /\ FramesAreTheStack /\ BuilderInv /\ ProfileDecodes

\* Nothing is added yet, and nothing is in the profile.
LEMMA NothingCounted == Indexed(NewBuilder) /\ IsTable(<<>>) /\ Counts(NewBuilder, <<>>, Period)
<1>1. Indexed(NewBuilder) /\ NewBuilder.samples = <<>>
  BY NewBuilderIndexed
<1>2. IsTable(<<>>) /\ DOMAIN <<>> = {}
  BY DEF IsTable
<1> QED BY <1>1, <1>2 DEF Counts

LEMMA NotReadingType == NotReading \in Readings
  BY DEF NotReading, Readings

LEMMA ObjectsPoint == Objects \union Remains \subseteq Bodies
  BY PythonProfileAssumption DEF PythonProfileAssumption, Pointers, Bodies

LEMMA InvInit == Init => Inv
<1> SUFFICES ASSUME Init PROVE Inv
  OBVIOUS
<1>1. UnwindTypeOK /\ walk = "idle"
  BY UnwindTypeInit DEF Init, UnwindInit
<1>2. WalkInv /\ FramesAreTheStack
  BY <1>1 DEF WalkInv, FramesAreTheStack
<1>3. DOMAIN symbol_cache = {}
  BY DEF Init, EmptyIndex
<1>4. ring = <<>> /\ ring \in Seq(Seq(Codes)) /\ reader = "drain" /\ resolved = 0 /\ reading = NotReading
      /\ object \in [Codes -> Objects] /\ string \in [Unicodes -> Contents] /\ live = Codes /\ stale = {}
  BY PythonProfileAssumption DEF PythonProfileAssumption, Init
<1>5. TypeOK
  <2>1. 0 \in 0..MaxDepth
    BY PythonUnwindAssumption DEF PythonUnwindAssumption
  <2>2. \A i \in DOMAIN ring : Len(ring[i]) \in 1..MaxDepth
    BY <1>4
  <2>3. object \in [Codes -> Bodies] /\ string \in [Unicodes -> Contents \union {Fault}]
    BY <1>4, ObjectsPoint
  <2> QED BY <1>1, <1>3, <1>4, <2>1, <2>2, <2>3, NotReadingType DEF TypeOK
<1>6. ResolvedInv /\ HeapInv /\ ReadingInv
  <2>1. \A s \in Unicodes : string[s] # Fault
    BY <1>4, PythonProfileAssumption DEF PythonProfileAssumption
  <2> QED BY <1>4, <2>1 DEF ResolvedInv, HeapInv, ReadingInv, NotReading
<1>7. NamesAreCurrent
  BY <1>3 DEF NamesAreCurrent
<1>8. BuilderInv
  BY NothingCounted DEF Init, BuilderInv
<1>9. ProfileDecodes
  <2>1. sent.profile = encode(NewBuilder) /\ sent.window = <<>>
    BY DEF Init, NothingSent
  <2>2. Period \in Nat
    BY PythonProfileAssumption DEF PythonProfileAssumption
  <2> QED BY <2>1, <2>2, NothingCounted, EncodedCloses, EncodedDecodes DEF ProfileDecodes
<1> QED BY <1>2, <1>5, <1>6, <1>7, <1>8, <1>9 DEF Inv

-----------------------------------------------------------------------------
(* The walk, in the handler.                                               *)

LEMMA AnyMemory == NotLookedAt \in Memories
  BY PythonUnwindAssumption DEF PythonUnwindAssumption, NotLookedAt

LEMMA WalkPartStep ==
  ASSUME Inv, [Next]_vars
  PROVE  UnwindTypeOK' /\ WalkInv' /\ FramesAreTheStack'
<1>1. UnwindTypeOK /\ WalkInv /\ FramesAreTheStack
  BY DEF Inv, TypeOK
<1>2. CASE Signal
  <2>1. PICK first \in Frames \union {Null, Fault} : Enters(first)
    BY <1>2 DEF Signal
  <2> QED BY <1>1, <1>2, <2>1, EntersType, EntersInv DEF Signal
<1>3. CASE Walk
  BY <1>1, <1>3, WalkType, WalkStepInv DEF Walk
<1>4. CASE Record
  <2>1. /\ walk' = "idle" /\ memory' \in Memories /\ start' = Null /\ frame_ptr' = Null
        /\ prev_frame' = Null /\ buf' = <<>>
    BY <1>4, AnyMemory DEF Record
  <2>2. UnwindTypeOK'
    BY <2>1, PythonUnwindAssumption DEF PythonUnwindAssumption, UnwindTypeOK
  <2> QED BY <2>1, <2>2 DEF WalkInv, FramesAreTheStack
<1>5. CASE Interpreter \/ Reader \/ UNCHANGED vars
  <2>1. UNCHANGED unwindVars
    BY <1>5 DEF Interpreter, Free, Allocate, Recycle, CacheUtf8, Reader, Resolve, ResolveCached,
                ReadPointer, ReadHeader, ReadData, UnchangedByResolving, AddRecord, Drained, NotDue,
                Flush, vars
  <2> QED BY <1>1, <2>1, WalkUnchanged
<1> QED BY <1>2, <1>3, <1>4, <1>5 DEF Next

-----------------------------------------------------------------------------
(* Types.                                                                  *)

LEMMA HeadOfRing ==
  ASSUME TypeOK, ring # <<>>
  PROVE  /\ Head(ring) \in Seq(Codes) /\ Len(Head(ring)) \in 1..MaxDepth
         /\ Tail(ring) \in Seq(Seq(Codes))
         /\ \A i \in DOMAIN Tail(ring) : Len(Tail(ring)[i]) \in 1..MaxDepth
<1>1. ring \in Seq(Seq(Codes)) /\ \A i \in DOMAIN ring : Len(ring[i]) \in 1..MaxDepth
  BY DEF TypeOK
<1>2. Head(ring) = ring[1] /\ 1 \in DOMAIN ring
  BY <1>1
<1>3. \A i \in DOMAIN Tail(ring) : i + 1 \in DOMAIN ring /\ Tail(ring)[i] = ring[i + 1]
  BY <1>1
<1> QED BY <1>1, <1>2, <1>3

LEMMA NextCodeType ==
  ASSUME TypeOK, Resolving
  PROVE  NextCode \in Codes /\ resolved + 1 \in 0..MaxDepth /\ resolved + 1 <= Len(Head(ring))
<1>1. resolved \in 0..MaxDepth /\ resolved < Len(Head(ring)) /\ ring # <<>>
  BY DEF TypeOK, Resolving, Draining
<1>2. Head(ring) \in Seq(Codes) /\ Len(Head(ring)) \in 1..MaxDepth /\ MaxDepth \in Nat
  BY <1>1, HeadOfRing, PythonUnwindAssumption DEF PythonUnwindAssumption
<1> QED BY <1>1, <1>2 DEF NextCode

LEMMA Cached ==
  ASSUME NEW name, Caches(name)
  PROVE  /\ DOMAIN symbol_cache' = {NextCode} \union DOMAIN symbol_cache
         /\ symbol_cache'[NextCode] = name
         /\ \A c \in DOMAIN symbol_cache : c # NextCode => symbol_cache'[c] = symbol_cache[c]
         /\ resolved' = resolved + 1 /\ reading' = NotReading
  BY DEF Caches

LEMMA ReadingType ==
  ASSUME TypeOK
  PROVE  /\ reading \in Readings /\ reading.of \in {"qualname", "name"}
         /\ reading.string # Null => reading.string \in Unicodes
<1>1. reading \in Readings
  BY DEF TypeOK
<1> QED BY <1>1 DEF Readings

\* A read that fails begins with the other name, or ends without one.
LEMMA NoNameStep ==
  ASSUME TypeOK, NoName
  PROVE  \/ Caches(Unknown)
         \/ /\ UNCHANGED <<symbol_cache, resolved>> /\ reading' \in Readings
            /\ reading'.string = Null /\ reading'.form = "unread" /\ reading'.whole
<1>1. CASE reading.of = "qualname"
  <2>1. reading' = [NotReading EXCEPT !.of = "name"] /\ UNCHANGED <<symbol_cache, resolved>>
    BY <1>1 DEF NoName
  <2> QED BY <2>1 DEF NotReading, Readings
<1>2. CASE reading.of # "qualname"
  BY <1>2 DEF NoName
<1> QED BY <1>1, <1>2

LEMMA PointerStep ==
  ASSUME TypeOK, ReadPointer
  PROVE  /\ Resolving /\ NextCode \notin DOMAIN symbol_cache /\ UnchangedByResolving
         /\ \/ NoName
            \/ /\ UNCHANGED <<symbol_cache, resolved>> /\ reading' \in Readings
               /\ reading'.string = object[NextCode][reading.of] /\ reading'.string \in Unicodes
               /\ reading'.of = reading.of /\ reading'.form = reading.form /\ reading'.whole = reading.whole
<1> DEFINE pointer == object[NextCode][reading.of]
<1>1. Resolving /\ NextCode \notin DOMAIN symbol_cache /\ UnchangedByResolving
  BY DEF ReadPointer
<1>2. reading \in Readings
  BY DEF TypeOK
<1>3. CASE pointer \in Unicodes
  <2>1. reading' = [reading EXCEPT !.string = pointer] /\ UNCHANGED <<symbol_cache, resolved>>
    BY <1>3 DEF ReadPointer
  <2> HIDE DEF pointer
  <2>2. /\ reading' \in Readings /\ reading'.string = pointer /\ reading'.of = reading.of
        /\ reading'.form = reading.form /\ reading'.whole = reading.whole
    BY <1>2, <1>3, <2>1 DEF Readings
  <2> QED BY <1>1, <1>3, <2>1, <2>2 DEF pointer
<1>4. CASE pointer \notin Unicodes
  BY <1>1, <1>4 DEF ReadPointer
<1> QED BY <1>3, <1>4

LEMMA HeaderStep ==
  ASSUME TypeOK, ReadHeader
  PROVE  /\ Resolving /\ NextCode \notin DOMAIN symbol_cache /\ UnchangedByResolving
         /\ reading.string # Null
         /\ \/ NoName
            \/ /\ UNCHANGED <<symbol_cache, resolved>> /\ reading' \in Readings
               /\ reading'.string = reading.string /\ reading'.of = reading.of /\ reading'.whole = reading.whole
<1> DEFINE now == string[reading.string]
<1>1. /\ Resolving /\ NextCode \notin DOMAIN symbol_cache /\ UnchangedByResolving
      /\ reading.string # Null
  BY DEF ReadHeader
<1>2. reading \in Readings /\ reading.string \in Unicodes
  BY <1>1, ReadingType
<1>3. now \in Contents \union {Fault}
  BY <1>2 DEF TypeOK
<1>4. CASE now # Fault
  <2>1. reading' = [reading EXCEPT !.form = now.form] /\ UNCHANGED <<symbol_cache, resolved>>
    BY <1>4 DEF ReadHeader
  <2>2. now.form \in Forms
    BY <1>3, <1>4, PythonProfileAssumption DEF PythonProfileAssumption
  <2> HIDE DEF now
  <2>3. /\ reading' \in Readings /\ reading'.string = reading.string /\ reading'.of = reading.of
        /\ reading'.whole = reading.whole
    BY <1>2, <2>1, <2>2 DEF Readings
  <2> QED BY <1>1, <2>1, <2>3
<1>5. CASE now = Fault
  BY <1>1, <1>5 DEF ReadHeader
<1> QED BY <1>4, <1>5

LEMMA DataStep ==
  ASSUME TypeOK, ReadData
  PROVE  /\ Resolving /\ NextCode \notin DOMAIN symbol_cache /\ UnchangedByResolving
         /\ reading.string \in Unicodes /\ reading.form # "unread"
         /\ \/ NoName
            \/ \E name : /\ Caches(name) /\ name # EmptyString
                         /\ reading.whole => name \in Names(reading.form, string[reading.string].text)
<1>1. /\ Resolving /\ NextCode \notin DOMAIN symbol_cache /\ UnchangedByResolving
      /\ reading.string \in Unicodes /\ reading.form # "unread"
  BY ReadingType DEF ReadData
<1>2. PICK name \in IF reading.whole THEN Names(reading.form, string[reading.string].text)
                    ELSE {Garbled, EmptyString} :
              IF name # EmptyString THEN Caches(name) ELSE NoName
  BY DEF ReadData
<1> QED BY <1>1, <1>2

\* Together: a name is cached, or the reader reads on.
LEMMA ReadStep ==
  ASSUME TypeOK, ReadPointer \/ ReadHeader \/ ReadData
  PROVE  /\ Resolving /\ UnchangedByResolving
         /\ \/ \E name : Caches(name)
            \/ UNCHANGED <<symbol_cache, resolved>> /\ reading' \in Readings
<1>1. CASE ReadPointer
  BY <1>1, PointerStep, NoNameStep
<1>2. CASE ReadHeader
  BY <1>2, HeaderStep, NoNameStep
<1>3. CASE ReadData
  BY <1>3, DataStep, NoNameStep
<1> QED BY <1>1, <1>2, <1>3

\* Nor does what changes in the interpreter's memory.
LEMMA HeapType ==
  ASSUME Inv, Interpreter
  PROVE  /\ object' \in [Codes -> Bodies]
         /\ string' \in [Unicodes -> Contents \union {Fault}]
         /\ live' \subseteq Codes /\ Codes \ live' \subseteq stale'
         /\ reading' \in Readings
         /\ UNCHANGED <<ring, reader, resolved, symbol_cache>>
<1>1. /\ object \in [Codes -> Bodies]
      /\ string \in [Unicodes -> Contents \union {Fault}]
      /\ live \subseteq Codes /\ Codes \ live \subseteq stale
      /\ reading \in Readings
  BY DEF Inv, TypeOK
<1>2. ASSUME NEW c \in Codes, Free(c)
      PROVE  object' \in [Codes -> Bodies]
  <2>1. PICK o \in Remains \union {object[c]} : object' = [object EXCEPT ![c] = o]
    BY <1>2 DEF Free
  <2>2. o \in Bodies
    BY <1>1, <2>1, ObjectsPoint
  <2> QED BY <1>1, <2>1, <2>2
<1>3. ASSUME NEW c \in Codes, Allocate(c)
      PROVE  object' \in [Codes -> Bodies]
  <2>1. PICK o \in Objects : object' = [object EXCEPT ![c] = o]
    BY <1>3 DEF Allocate
  <2>2. o \in Bodies
    BY <2>1, ObjectsPoint
  <2> QED BY <1>1, <2>1, <2>2
<1>4. ASSUME NEW c \in Codes, Free(c) \/ Allocate(c)
      PROVE  /\ string' = string /\ reading' = reading
             /\ live' \subseteq Codes /\ Codes \ live' \subseteq stale'
             /\ UNCHANGED <<ring, reader, resolved, symbol_cache>>
  BY <1>1, <1>4 DEF Free, Allocate, readerVars
<1>5. ASSUME NEW s \in Unicodes, Recycle(s) \/ CacheUtf8(s)
      PROVE  /\ UNCHANGED <<object, live, stale>>
             /\ UNCHANGED <<ring, reader, resolved, symbol_cache>>
  BY <1>5 DEF Recycle, CacheUtf8, readerVars
<1>6. ASSUME NEW s \in Unicodes, Recycle(s)
      PROVE  string' \in [Unicodes -> Contents \union {Fault}] /\ reading' \in Readings
  <2>1. PICK x \in Contents \union {Fault} : string' = [string EXCEPT ![s] = x]
    BY <1>6 DEF Recycle
  <2>2. reading' = [reading EXCEPT !.whole = @ /\ ~ (reading.string = s /\ reading.form # "unread")]
    BY <1>6 DEF Recycle
  <2>3. reading' \in Readings
    BY <1>1, <2>2 DEF Readings
  <2> QED BY <1>1, <2>1, <2>3
<1>7. ASSUME NEW s \in Unicodes, CacheUtf8(s)
      PROVE  string' \in [Unicodes -> Contents \union {Fault}] /\ reading' = reading
  <2>1. PICK x \in Contents : string' = [string EXCEPT ![s] = x]
    BY <1>7 DEF CacheUtf8
  <2> QED BY <1>1, <1>7, <2>1 DEF CacheUtf8, readerVars
<1> QED BY <1>1, <1>2, <1>3, <1>4, <1>5, <1>6, <1>7 DEF Interpreter

LEMMA RingStep ==
  ASSUME Inv, [Next]_vars
  PROVE  TypeOK' /\ ResolvedInv'
<1>0. UnwindTypeOK'
  BY WalkPartStep
<1> USE DEF Inv
<1>1. CASE Signal
  BY <1>0, <1>1 DEF TypeOK, ResolvedInv, Signal, readerVars, heapVars
<1>2. CASE Walk
  BY <1>0, <1>2 DEF TypeOK, ResolvedInv, Walk, readerVars, heapVars
<1>3. CASE Record
  <2>1. UNCHANGED <<heapVars, stale, readerVars>> /\ (ring' = ring \/ (ring' = Append(ring, buf) /\ buf # <<>>))
    <3>1. UNCHANGED <<heapVars, stale, readerVars>> /\ ring' = IF buf = <<>> THEN ring ELSE Append(ring, buf)
      BY <1>3 DEF Record
    <3> QED BY <3>1
  <2>2. CASE ring' = ring
    BY <1>0, <2>1, <2>2 DEF TypeOK, ResolvedInv, readerVars, heapVars
  <2>3. CASE ring' = Append(ring, buf) /\ buf # <<>>
    <3>1. buf \in Seq(Codes) /\ Len(buf) \in 1..MaxDepth
      BY <2>3, PythonUnwindAssumption DEF PythonUnwindAssumption, TypeOK, UnwindTypeOK
    <3>2. ring \in Seq(Seq(Codes)) /\ \A i \in DOMAIN ring : Len(ring[i]) \in 1..MaxDepth
      BY DEF TypeOK
    <3>3. ring' \in Seq(Seq(Codes)) /\ \A i \in DOMAIN ring' : Len(ring'[i]) \in 1..MaxDepth
      <4>1. ring' \in Seq(Seq(Codes)) /\ Len(ring') = Len(ring) + 1
        BY <2>3, <3>1, <3>2
      <4>2. \A i \in 1..Len(ring) : ring'[i] = ring[i]
        BY <2>3, <3>1, <3>2
      <4>3. ring'[Len(ring) + 1] = buf
        BY <2>3, <3>1, <3>2
      <4>4. \A i \in DOMAIN ring' : i \in DOMAIN ring \/ i = Len(ring) + 1
        BY <3>2, <4>1
      <4>5. ASSUME NEW i \in DOMAIN ring' PROVE Len(ring'[i]) \in 1..MaxDepth
        <5>1. CASE i \in DOMAIN ring
          <6>1. ring'[i] = ring[i]
            BY <3>2, <4>2, <5>1
          <6> QED BY <3>2, <5>1, <6>1
        <5>2. CASE i = Len(ring) + 1
          BY <3>1, <4>3, <5>2
        <5> QED BY <4>4, <5>1, <5>2
      <4> QED BY <4>1, <4>5
    <3>4. ring' # <<>> /\ (ring # <<>> => Head(ring') = Head(ring))
      BY <2>3, <3>1, <3>2
    <3>5. ResolvedInv'
      <4>1. CASE ring # <<>>
        BY <2>1, <3>4, <4>1 DEF ResolvedInv, readerVars
      <4>2. CASE ring = <<>>
        <5>1. Head(ring') = buf /\ resolved' = 0
          BY <2>1, <2>3, <3>1, <4>2 DEF TypeOK, readerVars
        <5> QED BY <3>1, <5>1 DEF ResolvedInv
      <4> QED BY <4>1, <4>2
    <3> QED BY <1>0, <2>1, <3>3, <3>4, <3>5 DEF TypeOK, readerVars, heapVars
  <2> QED BY <2>1, <2>2, <2>3
<1>4. CASE Interpreter
  BY <1>0, <1>4, HeapType DEF TypeOK, ResolvedInv
<1>5. CASE ResolveCached
  <2>1. NextCode \in Codes /\ resolved + 1 \in 0..MaxDepth /\ resolved + 1 <= Len(Head(ring)) /\ ring # <<>>
    BY <1>5, NextCodeType DEF ResolveCached, Resolving, Draining
  <2> QED BY <1>0, <1>5, <2>1 DEF TypeOK, ResolvedInv, ResolveCached, UnchangedByResolving, heapVars
<1>6. ASSUME Resolving, NEW name, Caches(name), UnchangedByResolving
      PROVE  TypeOK' /\ ResolvedInv'
  <2>1. NextCode \in Codes /\ resolved + 1 \in 0..MaxDepth /\ resolved + 1 <= Len(Head(ring)) /\ ring # <<>>
    BY <1>6, NextCodeType DEF Resolving, Draining
  <2>2. DOMAIN symbol_cache' \subseteq Codes /\ resolved' = resolved + 1 /\ reading' \in Readings
    BY <1>6, <2>1, Cached, NotReadingType DEF TypeOK
  <2> QED BY <1>0, <1>6, <2>1, <2>2 DEF TypeOK, ResolvedInv, UnchangedByResolving, heapVars
<1>7. CASE ReadPointer \/ ReadHeader \/ ReadData
  <2>1. Resolving /\ UnchangedByResolving
    BY <1>7, ReadStep
  <2>2. CASE UNCHANGED <<symbol_cache, resolved>> /\ reading' \in Readings
    BY <1>0, <2>1, <2>2 DEF TypeOK, ResolvedInv, UnchangedByResolving, heapVars
  <2> QED BY <1>6, <1>7, <2>1, <2>2, ReadStep
<1>9. CASE AddRecord
  <2>1. /\ ring # <<>> /\ ring' = Tail(ring) /\ resolved' = 0
        /\ UNCHANGED <<heapVars, stale, reader, reading, symbol_cache>>
    BY <1>9 DEF AddRecord, Draining
  <2>2. 0 \in 0..MaxDepth
    BY PythonUnwindAssumption DEF PythonUnwindAssumption
  <2>3. ring' \in Seq(Seq(Codes)) /\ \A i \in DOMAIN ring' : Len(ring'[i]) \in 1..MaxDepth
    BY <2>1, HeadOfRing
  <2>4. TypeOK'
    BY <1>0, <2>1, <2>2, <2>3 DEF TypeOK, heapVars
  <2>5. ring' # <<>> => Len(Head(ring')) \in 1..MaxDepth
    BY <2>3
  <2> QED BY <2>1, <2>4, <2>5 DEF ResolvedInv
<1>10. CASE Drained \/ NotDue
  BY <1>0, <1>10 DEF TypeOK, ResolvedInv, Drained, NotDue, heapVars
<1>11. CASE Flush
  <2>1. DOMAIN symbol_cache' = {}
    BY <1>11 DEF Flush, EmptyIndex
  <2> QED BY <1>0, <1>11, <2>1 DEF TypeOK, ResolvedInv, Flush, heapVars
<1>12. CASE UNCHANGED vars
  BY <1>0, <1>12 DEF TypeOK, ResolvedInv, vars, readerVars, heapVars
<1> QED BY <1>1, <1>2, <1>3, <1>4, <1>5, <1>7, <1>9, <1>10, <1>11, <1>12 DEF Next, Reader, Resolve

-----------------------------------------------------------------------------
(* The interpreter's memory, and the name that is being read of it.        *)

\* What every change leaves of the code objects that stay allocated.
Kept(c) ==
  /\ object'[c] = object[c]
  /\ \A s \in PointersOf(object[c]) \intersect Unicodes : string'[s].text = string[s].text

LEMMA ChangesKeep ==
  ASSUME Inv, Interpreter
  PROVE  /\ stale \subseteq stale' /\ \A c \in Codes \ stale' : Kept(c)
         /\ HeapInv'
<1>1. /\ object \in [Codes -> Bodies]
      /\ string \in [Unicodes -> Contents \union {Fault}]
      /\ live \subseteq Codes /\ Codes \ live \subseteq stale
      /\ HeapInv
  BY DEF Inv, TypeOK
<1>2. ASSUME NEW c \in Codes, Free(c)
      PROVE  stale \subseteq stale' /\ (\A d \in Codes \ stale' : Kept(d)) /\ HeapInv'
  <2>1. PICK o \in Remains \union {object[c]} : object' = [object EXCEPT ![c] = o]
    BY <1>2 DEF Free
  <2>2. live' = live \ {c} /\ stale' = stale \union {c} /\ string' = string
    BY <1>2 DEF Free
  <2>3. \A d \in Codes : d # c => object'[d] = object[d]
    BY <1>1, <2>1
  <2> QED BY <1>1, <2>2, <2>3 DEF Kept, HeapInv
<1>3. ASSUME NEW c \in Codes, Allocate(c)
      PROVE  stale \subseteq stale' /\ (\A d \in Codes \ stale' : Kept(d)) /\ HeapInv'
  <2>1. PICK o \in Objects : /\ \A s \in PointersOf(o) \intersect Unicodes : string[s] # Fault
                             /\ object' = [object EXCEPT ![c] = o]
    BY <1>3 DEF Allocate
  <2>2. live' = live \union {c} /\ c \notin live /\ stale' = stale /\ string' = string
    BY <1>3 DEF Allocate
  <2>3. object'[c] = o /\ \A d \in Codes : d # c => object'[d] = object[d]
    BY <1>1, <2>1
  <2>4. c \in stale
    BY <1>1, <2>2
  <2>5. HeapInv'
    BY <1>1, <2>1, <2>2, <2>3 DEF HeapInv
  <2> QED BY <2>2, <2>3, <2>4, <2>5 DEF Kept
<1>4. ASSUME NEW s \in Unicodes, Recycle(s)
      PROVE  stale \subseteq stale' /\ (\A d \in Codes \ stale' : Kept(d)) /\ HeapInv'
  <2>1. PICK x \in Contents \union {Fault} : string' = [string EXCEPT ![s] = x]
    BY <1>4 DEF Recycle
  <2>2. live' = live /\ stale' = stale /\ object' = object /\ \A c \in live : s \notin PointersOf(object[c])
    BY <1>4 DEF Recycle
  <2>3. \A t \in Unicodes : t # s => string'[t] = string[t]
    BY <1>1, <2>1
  <2>4. \A c \in live : \A t \in PointersOf(object[c]) \intersect Unicodes : string'[t] = string[t]
    BY <2>2, <2>3
  <2>5. HeapInv'
    BY <1>1, <2>2, <2>4 DEF HeapInv
  <2> QED BY <1>1, <2>2, <2>4, <2>5 DEF Kept
<1>5. ASSUME NEW s \in Unicodes, CacheUtf8(s)
      PROVE  stale \subseteq stale' /\ (\A d \in Codes \ stale' : Kept(d)) /\ HeapInv'
  <2> DEFINE x == [form |-> "utf8", text |-> string[s].text]
  <2>1. x \in Contents /\ string' = [string EXCEPT ![s] = x]
    BY <1>5 DEF CacheUtf8
  <2>2. live' = live /\ stale' = stale /\ object' = object
    BY <1>5 DEF CacheUtf8
  <2>3. x # Fault /\ x.text = string[s].text
    BY <2>1, PythonProfileAssumption DEF PythonProfileAssumption
  <2> HIDE DEF x
  <2>4. string'[s] = x /\ \A t \in Unicodes : t # s => string'[t] = string[t]
    BY <1>1, <2>1
  <2>5. \A t \in Unicodes : string[t] # Fault => string'[t] # Fault
    BY <2>3, <2>4
  <2>6. ASSUME NEW t \in Unicodes PROVE string'[t].text = string[t].text
    BY <2>3, <2>4
  <2>7. HeapInv'
    <3>1. ASSUME NEW d \in live'
          PROVE  /\ object'[d] \in Objects
                 /\ \A t \in PointersOf(object'[d]) \intersect Unicodes : string'[t] # Fault
      BY <1>1, <2>2, <2>5 DEF HeapInv
    <3> QED BY <3>1 DEF HeapInv
  <2> QED BY <2>2, <2>6, <2>7 DEF Kept
<1> QED BY <1>2, <1>3, <1>4, <1>5 DEF Interpreter

LEMMA HeapStep ==
  ASSUME Inv, [Next]_vars
  PROVE  HeapInv'
<1>1. CASE Interpreter
  BY <1>1, ChangesKeep
<1>2. CASE ~ Interpreter
  <2>1. UNCHANGED <<object, string, live>>
    BY <1>2 DEF Next, Signal, Walk, Record, Reader, Resolve, ResolveCached, ReadPointer, ReadHeader,
                ReadData, UnchangedByResolving, AddRecord, Drained, NotDue, Flush, vars, heapVars
  <2> QED BY <2>1 DEF Inv, HeapInv
<1> QED BY <1>1, <1>2

\* A code object that is not stale has the string that is read, whatever else changes.
LEMMA ReadingStays ==
  ASSUME Inv, UNCHANGED <<reader, resolved, symbol_cache>>,
         ring # <<>> => ring' # <<>> /\ Head(ring') = Head(ring),
         reading'.of = reading.of, reading'.string = reading.string, reading'.form = reading.form,
         reading.string = Null => reading'.whole = reading.whole,
         stale \subseteq stale', \A c \in Codes \ stale' : object'[c] = object[c],
         Resolving /\ reading.string # Null /\ NextCode \notin stale' => reading'.whole = reading.whole
  PROVE  ReadingInv'
<1>1. ReadingInv /\ TypeOK
  BY DEF Inv
<1>2. CASE reading.string = Null
  BY <1>1, <1>2 DEF ReadingInv
<1>3. CASE reading.string # Null
  <2>1. Resolving /\ NextCode \notin DOMAIN symbol_cache
    BY <1>1, <1>3 DEF ReadingInv
  <2>2. NextCode' = NextCode /\ Resolving'
    BY <2>1 DEF Resolving, Draining, NextCode
  <2>3. NextCode \in Codes
    BY <1>1, <2>1, NextCodeType
  <2> DEFINE c == NextCode
  <2>4. ASSUME c \notin stale'
        PROVE  reading'.string = object'[c][reading'.of] /\ reading'.whole
    <3>1. reading.string = object[c][reading.of] /\ reading.whole
      BY <1>1, <1>3, <2>4 DEF ReadingInv
    <3> QED BY <1>3, <2>1, <2>3, <2>4, <3>1
  <2> HIDE DEF c
  <2> QED BY <1>3, <2>1, <2>2, <2>4 DEF ReadingInv, c
<1> QED BY <1>2, <1>3

LEMMA NothingRead ==
  ASSUME reading'.string = Null, reading'.form = "unread", reading'.whole
  PROVE  ReadingInv'
  BY DEF ReadingInv

LEMMA CachesNothingRead ==
  ASSUME NEW name, Caches(name)
  PROVE  ReadingInv'
  BY Cached, NothingRead DEF NotReading

LEMMA FailsNothingRead ==
  ASSUME TypeOK, NoName
  PROVE  ReadingInv'
  BY NoNameStep, CachesNothingRead, NothingRead

LEMMA ReadingStep ==
  ASSUME Inv, [Next]_vars
  PROVE  ReadingInv'
<1>1. ReadingInv /\ TypeOK
  BY DEF Inv
<1>2. CASE Signal \/ Walk \/ UNCHANGED vars
  <2>1. UNCHANGED <<reader, resolved, symbol_cache, ring, reading, stale, object>>
    BY <1>2 DEF Signal, Walk, vars, readerVars, heapVars
  <2> QED BY <2>1, ReadingStays
<1>3. CASE Record
  <2>1. UNCHANGED <<reader, resolved, symbol_cache, reading, stale, object>>
        /\ ring' = IF buf = <<>> THEN ring ELSE Append(ring, buf)
    BY <1>3 DEF Record, readerVars, heapVars
  <2>2. ring # <<>> => ring' # <<>> /\ Head(ring') = Head(ring)
    <3>1. ring \in Seq(Seq(Codes)) /\ buf \in Seq(Codes)
      BY <1>1 DEF TypeOK, UnwindTypeOK
    <3> QED BY <2>1, <3>1
  <2> QED BY <2>1, <2>2, ReadingStays
<1>4. ASSUME NEW c \in Codes, Free(c) \/ Allocate(c) PROVE ReadingInv'
  <2>1. UNCHANGED <<reader, resolved, symbol_cache, ring, reading>>
    BY <1>4 DEF Free, Allocate, readerVars
  <2>2. stale \subseteq stale' /\ \A d \in Codes \ stale' : object'[d] = object[d]
    BY <1>4, ChangesKeep DEF Interpreter, Kept
  <2> QED BY <2>1, <2>2, ReadingStays
<1>5. ASSUME NEW s \in Unicodes, CacheUtf8(s) PROVE ReadingInv'
  <2>1. UNCHANGED <<reader, resolved, symbol_cache, ring, reading, stale, object>>
    BY <1>5 DEF CacheUtf8, readerVars
  <2> QED BY <2>1, ReadingStays
<1>6. ASSUME NEW s \in Unicodes, Recycle(s) PROVE ReadingInv'
  <2>1. /\ UNCHANGED <<reader, resolved, symbol_cache, ring, stale, object>>
        /\ \A c \in live : s \notin PointersOf(object[c])
    BY <1>6 DEF Recycle
  <2> DEFINE whole == reading.whole /\ ~ (reading.string = s /\ reading.form # "unread")
  <2>2. reading' = [reading EXCEPT !.whole = whole]
    BY <1>6 DEF Recycle
  <2>3. reading \in Readings
    BY <1>1 DEF TypeOK
  <2> HIDE DEF whole
  <2>4. /\ reading'.of = reading.of /\ reading'.string = reading.string /\ reading'.form = reading.form
        /\ reading'.whole = whole
    BY <2>2, <2>3 DEF Readings
  <2>5. reading.string # s => whole = reading.whole
    BY <2>3 DEF whole, Readings
  <2>6. Null \notin Unicodes
    BY PythonProfileAssumption DEF PythonProfileAssumption
  <2>7. ASSUME Resolving, reading.string # Null, NextCode \notin stale'
        PROVE  reading.string # s
    <3>1. NextCode \in Codes /\ NextCode \notin stale
      BY <1>1, <2>1, <2>7, NextCodeType
    <3>2. NextCode \in live
      BY <1>1, <3>1 DEF TypeOK
    <3>3. reading.string = object[NextCode][reading.of]
      BY <1>1, <2>7, <3>1 DEF ReadingInv
    <3>4. reading.of \in {"qualname", "name"}
      BY <2>3 DEF Readings
    <3>5. reading.string \in PointersOf(object[NextCode])
      BY <3>3, <3>4 DEF PointersOf
    <3> QED BY <2>1, <3>2, <3>5
  <2> QED BY <2>1, <2>4, <2>5, <2>6, <2>7, ReadingStays
<1>7. CASE ResolveCached \/ AddRecord \/ Drained \/ NotDue \/ Flush
  <2>1. reading' = reading
    BY <1>7 DEF ResolveCached, AddRecord, Drained, NotDue, Flush
  <2>2. ~ (Resolving /\ NextCode \notin DOMAIN symbol_cache)
    BY <1>7 DEF ResolveCached, AddRecord, Drained, NotDue, Flush, Resolving, Draining
  <2>3. reading.string = Null
    BY <1>1, <2>2 DEF ReadingInv
  <2> QED BY <1>1, <2>1, <2>3, NothingRead DEF ReadingInv
<1>8. CASE ReadPointer
  <2>1. /\ Resolving /\ NextCode \notin DOMAIN symbol_cache /\ UnchangedByResolving
        /\ reading.string = Null
    BY <1>8 DEF ReadPointer
  <2>2. CASE NoName
    BY <1>1, <2>2, FailsNothingRead
  <2>3. CASE ~ NoName
    <3>1. /\ UNCHANGED <<symbol_cache, resolved>>
          /\ reading'.string = object[NextCode][reading.of] /\ reading'.string \in Unicodes
          /\ reading'.of = reading.of /\ reading'.form = reading.form /\ reading'.whole = reading.whole
      BY <1>1, <1>8, <2>3, PointerStep
    <3>2. reading.whole /\ Null \notin Unicodes
      BY <1>1, <2>1, PythonProfileAssumption DEF PythonProfileAssumption, ReadingInv
    <3>3. UNCHANGED <<ring, reader, object, stale>>
      BY <2>1 DEF UnchangedByResolving, heapVars
    <3>4. NextCode' = NextCode /\ Resolving'
      BY <2>1, <3>1, <3>3 DEF Resolving, Draining, NextCode
    <3> QED BY <2>1, <3>1, <3>2, <3>3, <3>4 DEF ReadingInv
  <2> QED BY <2>2, <2>3
<1>9. CASE ReadHeader
  <2>1. CASE NoName
    BY <1>1, <2>1, FailsNothingRead
  <2>2. CASE ~ NoName
    <3>1. /\ Resolving /\ NextCode \notin DOMAIN symbol_cache /\ UnchangedByResolving
          /\ reading.string # Null /\ UNCHANGED <<symbol_cache, resolved>>
          /\ reading'.string = reading.string /\ reading'.of = reading.of /\ reading'.whole = reading.whole
      BY <1>1, <1>9, <2>2, HeaderStep
    <3>2. UNCHANGED <<ring, reader, object, stale>>
      BY <3>1 DEF UnchangedByResolving, heapVars
    <3>3. NextCode' = NextCode /\ Resolving'
      BY <3>1, <3>2 DEF Resolving, Draining, NextCode
    <3> QED BY <1>1, <3>1, <3>2, <3>3 DEF ReadingInv
  <2> QED BY <2>1, <2>2
<1>10. CASE ReadData
  BY <1>1, <1>10, DataStep, FailsNothingRead, CachesNothingRead
<1> QED BY <1>2, <1>3, <1>4, <1>5, <1>6, <1>7, <1>8, <1>9, <1>10 DEF Next, Reader, Resolve, Interpreter

-----------------------------------------------------------------------------
(* Names in the cache.                                                     *)

Current(c, name) ==
  \/ name = Unknown
  \/ \E s \in PointersOf(object[c]) \intersect Unicodes : Shows(name, string[s].text)

\* A name is cached as it is read, of the object that is there.
LEMMA CachesCurrent ==
  ASSUME Inv, Resolving, NEW name, Caches(name), UnchangedByResolving,
         NextCode \notin stale => Current(NextCode, name)
  PROVE  NamesAreCurrent'
<1>1. UNCHANGED <<object, string, stale>>
  BY DEF UnchangedByResolving, heapVars
<1>2. /\ DOMAIN symbol_cache' = {NextCode} \union DOMAIN symbol_cache
      /\ symbol_cache'[NextCode] = name
      /\ \A c \in DOMAIN symbol_cache : c # NextCode => symbol_cache'[c] = symbol_cache[c]
  BY Cached
<1>3. ASSUME NEW c \in DOMAIN symbol_cache' \ stale PROVE Current(c, symbol_cache'[c])
  <2>1. CASE c = NextCode
    BY <1>2, <1>3, <2>1
  <2>2. CASE c # NextCode
    <3>1. c \in DOMAIN symbol_cache \ stale /\ symbol_cache'[c] = symbol_cache[c]
      BY <1>2, <1>3, <2>2
    <3> QED BY <3>1 DEF Inv, NamesAreCurrent, Current
  <2> QED BY <2>1, <2>2
<1>4. \A c \in DOMAIN symbol_cache' \ stale' :
        \/ symbol_cache'[c] = Unknown
        \/ \E s \in PointersOf(object'[c]) \intersect Unicodes : Shows(symbol_cache'[c], string'[s].text)
  BY <1>1, <1>3 DEF Current
<1> QED BY <1>4 DEF NamesAreCurrent

LEMMA CurrentStays ==
  ASSUME Inv, UNCHANGED symbol_cache, stale \subseteq stale', \A c \in Codes \ stale' : Kept(c)
  PROVE  NamesAreCurrent'
<1>1. DOMAIN symbol_cache \subseteq Codes
  BY DEF Inv, TypeOK
<1>2. ASSUME NEW c \in DOMAIN symbol_cache \ stale', symbol_cache[c] # Unknown
      PROVE  \E s \in PointersOf(object'[c]) \intersect Unicodes : Shows(symbol_cache[c], string'[s].text)
  <2>1. c \notin stale /\ Kept(c)
    BY <1>1, <1>2
  <2>2. PICK s \in PointersOf(object[c]) \intersect Unicodes : Shows(symbol_cache[c], string[s].text)
    BY <1>2, <2>1 DEF Inv, NamesAreCurrent
  <2>3. object'[c] = object[c] /\ string'[s].text = string[s].text
    BY <2>1, <2>2 DEF Kept
  <2> QED BY <2>2, <2>3
<1> QED BY <1>2 DEF NamesAreCurrent

LEMMA NamesStep ==
  ASSUME Inv, [Next]_vars
  PROVE  NamesAreCurrent'
<1>1. TypeOK /\ HeapInv /\ ReadingInv
  BY DEF Inv
<1>2. CASE Signal \/ Walk \/ Record \/ AddRecord \/ Drained \/ NotDue \/ ResolveCached \/ UNCHANGED vars
  <2>1. UNCHANGED <<symbol_cache, object, string, stale>>
    BY <1>2 DEF Signal, Walk, Record, AddRecord, Drained, NotDue, ResolveCached, UnchangedByResolving,
                vars, readerVars, heapVars
  <2> QED BY <2>1, CurrentStays DEF Kept
<1>3. CASE Interpreter
  BY <1>3, HeapType, ChangesKeep, CurrentStays
<1>4. ASSUME NoName, Resolving, UnchangedByResolving PROVE NamesAreCurrent'
  <2>1. CASE Caches(Unknown)
    BY <1>4, <2>1, CachesCurrent DEF Current
  <2>2. CASE UNCHANGED symbol_cache
    <3>1. UNCHANGED <<object, string, stale>>
      BY <1>4 DEF UnchangedByResolving, heapVars
    <3> QED BY <2>2, <3>1, CurrentStays DEF Kept
  <2> QED BY <1>1, <1>4, <2>1, <2>2, NoNameStep
<1>5. CASE ReadPointer \/ ReadHeader
  <2>1. Resolving /\ UnchangedByResolving /\ (NoName \/ UNCHANGED symbol_cache)
    BY <1>1, <1>5, PointerStep, HeaderStep
  <2>2. UNCHANGED <<object, string, stale>>
    BY <2>1 DEF UnchangedByResolving, heapVars
  <2> QED BY <1>4, <2>1, <2>2, CurrentStays DEF Kept
<1>6. CASE ReadData
  <2>1. /\ Resolving /\ UnchangedByResolving
        /\ reading.string \in Unicodes /\ reading.form # "unread"
    BY <1>1, <1>6, DataStep
  <2>2. ASSUME NEW name, Caches(name), name # EmptyString,
               reading.whole => name \in Names(reading.form, string[reading.string].text)
        PROVE  NamesAreCurrent'
    <3>1. ASSUME NextCode \notin stale PROVE Current(NextCode, name)
      <4>1. NextCode \in live
        BY <1>1, <2>1, <3>1, NextCodeType DEF TypeOK
      <4>2. reading.string = object[NextCode][reading.of] /\ reading.whole
        BY <1>1, <2>1, <3>1, PythonProfileAssumption DEF PythonProfileAssumption, ReadingInv
      <4>3. reading.of \in {"qualname", "name"}
        BY <1>1, ReadingType
      <4>4. reading.string \in PointersOf(object[NextCode]) \intersect Unicodes
        BY <2>1, <4>2, <4>3 DEF PointersOf
      <4>5. string[reading.string] \in Contents
        BY <1>1, <2>1, <4>1, <4>4 DEF TypeOK, HeapInv
      <4>6. string[reading.string].text \in Seq(DOMAIN Width)
        BY <4>5, PythonProfileAssumption DEF PythonProfileAssumption
      <4>7. Shows(name, string[reading.string].text)
        BY <2>2, <4>2, <4>6, NameShows
      <4> QED BY <4>4, <4>7 DEF Current
    <3> QED BY <2>1, <2>2, <3>1, CachesCurrent
  <2> QED BY <1>1, <1>4, <1>6, <2>1, <2>2, DataStep
<1>7. CASE Flush
  BY <1>7 DEF Flush, EmptyIndex, NamesAreCurrent
<1> QED BY <1>2, <1>3, <1>5, <1>6, <1>7 DEF Next, Reader, Resolve

-----------------------------------------------------------------------------
(* The profile.                                                            *)

LEMMA RecordAdded ==
  ASSUME Inv, AddRecord
  PROVE  BuilderInv'
<1> DEFINE record == Head(ring)
           frames == [i \in DOMAIN record |->
                        [name |-> symbol_cache[record[i]], filename |-> EmptyString,
                         first_line |-> 0]]
<1>1. builder' = add_sample(builder, frames, 1, Period) /\ window' = Append(window, frames)
  BY DEF AddRecord
<1>2. Len(record) \in Nat /\ DOMAIN record = 1..Len(record)
  <2>1. record \in Seq(Codes)
    BY HeadOfRing DEF Inv, AddRecord, Draining
  <2> HIDE DEF record
  <2> QED BY <2>1
<1> HIDE DEF record
<1>3. IsTable(frames)
  <2>1. DOMAIN frames = 1..Len(record)
    BY <1>2
  <2> DEFINE S == {frames[i] : i \in DOMAIN frames}
  <2>2. \A i \in DOMAIN frames : frames[i] \in S
    OBVIOUS
  <2>3. frames = [i \in 1..Len(record) |-> frames[i]]
    BY <1>2
  <2> HIDE DEF S, frames
  <2>4. frames \in [1..Len(record) -> S]
    BY <2>1, <2>2, <2>3
  <2>5. frames \in Seq(S)
    BY <1>2, <2>4
  <2> QED BY <2>5 DEF S, IsTable
<1>4. \A i \in DOMAIN frames : IsFrame(frames[i])
  BY DEF IsFrame
<1>5. Indexed(builder) /\ IsTable(window) /\ Counts(builder, window, Period) /\ Period \in Nat
  BY PythonProfileAssumption DEF PythonProfileAssumption, Inv, BuilderInv
<1> HIDE DEF frames
<1>6. Indexed(builder') /\ Counts(builder', window', Period)
  BY <1>1, <1>3, <1>4, <1>5, SampleAdded
<1>7. IsTable(window')
  BY <1>1, <1>5, Appended
<1> QED BY <1>6, <1>7 DEF BuilderInv

LEMMA ProfileStep ==
  ASSUME Inv, [Next]_vars
  PROVE  BuilderInv' /\ ProfileDecodes'
<1>1. BuilderInv /\ ProfileDecodes
  BY DEF Inv
<1>2. CASE AddRecord
  <2>1. sent' = sent
    BY <1>2 DEF AddRecord
  <2> QED BY <1>1, <1>2, <2>1, RecordAdded DEF ProfileDecodes
<1>3. CASE Flush
  <2>1. CASE UNCHANGED <<builder, window, sent>>
    BY <1>1, <2>1 DEF BuilderInv, ProfileDecodes
  <2>2. CASE ~ UNCHANGED <<builder, window, sent>>
    <3>1. /\ sent' = [profile |-> encode(builder), window |-> window]
          /\ builder' = reset(encoded(builder)) /\ window' = <<>>
      BY <1>3, <2>2 DEF Flush, FlushProfile
    <3>2. builder' = NewBuilder
      BY <3>1 DEF reset
    <3>3. BuilderInv'
      BY <3>1, <3>2, NothingCounted DEF BuilderInv
    <3>4. sent'.profile = encode(builder) /\ sent'.window = window
      BY <3>1
    <3>5. Period \in Nat
      BY PythonProfileAssumption DEF PythonProfileAssumption
    <3>6. /\ Closed(encode(builder))
          /\ Decode(encode(builder)) =
               [stack \in ToSet(window) |->
                  Period * Cardinality({i \in DOMAIN window : window[i] = stack})]
      BY <1>1, <3>5, EncodedCloses, EncodedDecodes DEF BuilderInv
    <3> QED BY <3>3, <3>4, <3>6 DEF ProfileDecodes
  <2> QED BY <2>1, <2>2
<1>4. CASE ~ AddRecord /\ ~ Flush
  <2>1. UNCHANGED <<builder, window, sent>>
    BY <1>4 DEF Next, Reader, Signal, Walk, Record, Interpreter, Free, Allocate, Recycle, CacheUtf8,
                Resolve, ResolveCached, ReadPointer, ReadHeader, ReadData, UnchangedByResolving,
                Drained, NotDue, vars, readerVars
  <2> QED BY <1>1, <2>1 DEF BuilderInv, ProfileDecodes
<1> QED BY <1>2, <1>3, <1>4

-----------------------------------------------------------------------------
(* The theorems.                                                           *)

LEMMA InvStep == Inv /\ [Next]_vars => Inv'
  BY WalkPartStep, RingStep, HeapStep, ReadingStep, NamesStep, ProfileStep DEF Inv

LEMMA InvAlways == Spec => []Inv
<1>1. Init => Inv
  BY InvInit
<1>2. Inv /\ [Next]_vars => Inv'
  BY InvStep
<1> QED BY <1>1, <1>2, PTL DEF Spec

\* No walk takes more than MAX_DEPTH frames, no record has more or none, and the reader
\* never resolves beyond the record it has.
THEOREM TypesAreRight == Spec => []TypeOK
<1>1. Inv => TypeOK
  BY DEF Inv
<1> QED BY <1>1, InvAlways, PTL

\* unwind(), as on_sigprof calls it: what goes into the record is the top of the stack.
THEOREM RecordedFramesAreTheStack == Spec => []FramesAreTheStack
<1>1. Inv => FramesAreTheStack
  BY DEF Inv
<1> QED BY <1>1, InvAlways, PTL

\* symbol_cache and resolve_function_name(): of every code object that has been allocated all
\* the time since the cache was cleared, the cached name is a name of its own, cut only where
\* the buffer ends, whatever other code objects and strings are freed and allocated, and
\* whatever UTF-8 is cached, between the reads that got it.  It says nothing of the name
\* cached for an address that was freed since: that may be any, until the next flush.
THEOREM NamesStayCurrent == Spec => []NamesAreCurrent
<1>1. Inv => NamesAreCurrent
  BY DEF Inv
<1> QED BY <1>1, InvAlways, PTL

\* ProfileBuilder, encode() and reset(), as the reader thread uses them: the profile that is
\* sent has, of each stack, what was added of it since the last one, and no other, whatever
\* strings, functions, locations and samples the stacks share.
THEOREM ProfilesSayWhatWasSampled == Spec => []ProfileDecodes
<1>1. Inv => ProfileDecodes
  BY DEF Inv
<1> QED BY <1>1, InvAlways, PTL
=============================================================================
