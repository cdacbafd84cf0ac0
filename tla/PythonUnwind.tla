---------------------------- MODULE PythonUnwind ----------------------------
(***************************************************************************)
(* python_unwind::unwind: the walk of the interpreter's frames that        *)
(* on_sigprof makes in the thread it interrupts.                           *)
(*                                                                         *)
(* The memory it reads does not change during the walk, but it may be any: *)
(* the signal can come while a frame is being linked.  Every read goes     *)
(* through kindasafe and may fail.                                         *)
(***************************************************************************)
EXTENDS Integers, Sequences

CONSTANTS
  Frames,     \* addresses of frames
  Codes,      \* addresses of code objects
  Memories,   \* contents of the frames, a set of functions on Frames
  MaxDepth,   \* MAX_DEPTH, the length of the frame buffer
  Null,       \* the null pointer
  Fault       \* what a read yields where no memory is readable

Fields == [owner : (0..4) \union {Fault}, executable : Codes \union {Null, Fault},
           previous : Frames \union {Null, Fault}]

ASSUME PythonUnwindAssumption ==
  /\ Null \notin Frames \union Codes /\ Fault \notin Frames \union Codes \union {Null}
  /\ Fault \notin 0..4
  /\ Memories \subseteq [Frames -> Fields] /\ Memories # {}
  /\ MaxDepth \in Nat

VARIABLES
  memory,       \* the frames
  walk,         \* "idle", "walking" or "done"
  start,        \* History: tstate.current_frame
  frame_ptr, prev_frame,
  buf           \* the code objects of buf[..depth]

unwindVars == <<memory, walk, start, frame_ptr, prev_frame, buf>>

\* kindasafe::u64: a read that faults returns the signal's number, and does not kill the
\* process: crash_handler finds the pc among the crash points and skips the load.
Readable(value) == value # Fault

\* (mutated form) only frames of the C stack are skipped.
SkippedOnlyC(owner) == owner >= 4

\* owner >= FRAME_SKIP_OWNER_MIN
Skipped(owner) == owner >= 3

UnwindInit ==
  /\ memory \in Memories
  /\ walk = "idle" /\ start = Null /\ frame_ptr = Null /\ prev_frame = Null /\ buf = <<>>

\* tstate.current_frame is read, or cannot be: then depth is 0.
Enters(first) ==
  /\ walk = "idle"
  /\ walk' = IF Readable(first) THEN "walking" ELSE "done"
  /\ start' = first
  /\ frame_ptr' = first /\ prev_frame' = Null /\ buf' = <<>>

Unwind(first) == Enters(first) /\ UNCHANGED memory

Here == memory[frame_ptr]
\* (mutated form) one frame too many.
GoesTooDeep ==
  walk = "walking" /\ frame_ptr # Null /\ frame_ptr # prev_frame /\ Len(buf) <= MaxDepth

Goes == walk = "walking" /\ frame_ptr # Null /\ frame_ptr # prev_frame /\ Len(buf) < MaxDepth
CanSkip == Readable(Here.owner) /\ Skipped(Here.owner) /\ Readable(Here.previous)
CanTake == Readable(Here.owner) /\ ~ Skipped(Here.owner) /\ Here.executable \in Codes

\* The condition of the loop fails, or one of the reads before the frame is taken does.
WalkStops ==
  /\ walk = "walking"
  /\ Goes => ~ CanSkip /\ ~ CanTake
  /\ walk' = "done"
  /\ UNCHANGED <<memory, start, frame_ptr, prev_frame, buf>>

\* (mutated form) the previous frame is not remembered.
WalkSkipsForgetful ==
  /\ Goes /\ CanSkip
  /\ frame_ptr' = Here.previous
  /\ UNCHANGED <<memory, walk, start, prev_frame, buf>>

WalkSkips ==
  /\ Goes /\ CanSkip
  /\ prev_frame' = frame_ptr /\ frame_ptr' = Here.previous
  /\ UNCHANGED <<memory, walk, start, buf>>

\* The frame is written to the buffer; the walk ends there if `previous` cannot be read.
\* A code object of another type is only reported.
WalkTakes ==
  /\ Goes /\ CanTake
  /\ buf' = Append(buf, Here.executable)
  /\ IF Readable(Here.previous)
     THEN prev_frame' = frame_ptr /\ frame_ptr' = Here.previous /\ UNCHANGED walk
     ELSE walk' = "done" /\ UNCHANGED <<prev_frame, frame_ptr>>
  /\ UNCHANGED <<memory, start>>

WalkStep == WalkStops \/ WalkSkips \/ WalkTakes

UnwindNext == WalkStep \/ \E first \in Frames \union {Null, Fault} : Unwind(first)

UnwindSpec == UnwindInit /\ [][UnwindNext]_unwindVars /\ WF_unwindVars(WalkStep)

-----------------------------------------------------------------------------
UnwindTypeOK ==
  /\ memory \in Memories /\ walk \in {"idle", "walking", "done"}
  /\ start \in Frames \union {Null, Fault} /\ frame_ptr \in Frames \union {Null, Fault}
  /\ (walk = "walking" => Readable(frame_ptr)) /\ prev_frame \in Frames \union {Null}
  /\ buf \in Seq(Codes) /\ Len(buf) <= MaxDepth

-----------------------------------------------------------------------------
(* The stack, as it is in the memory `m`.                                  *)

\* Frames of Python functions, of generators and of frame objects are owned by 0 to 2,
\* shims of the interpreter and entries of the C stack by 3 and 4.
OfPython(m, a) == a \in Frames /\ m[a].owner \in 0..2
OfInterpreter(m, a) == a \in Frames /\ m[a].owner \in {3, 4}

\* The addresses that links lead to from `a` on, up to the first that is none of the
\* interpreter's frames: the least set that has `a` and what such a frame of it links to.
Beyond(m, a) ==
  LET Closed(S) == a \in S /\ \A f \in S : OfInterpreter(m, f) => m[f].previous \in S
      Addresses == Frames \union {Null, Fault}
  IN  {b \in Addresses : \A S \in SUBSET Addresses : Closed(S) => b \in S}

\* Where the stack goes on below `stack`.
Below(m, first, stack) == IF stack = <<>> THEN first ELSE m[stack[Len(stack)]].previous
LinkedToItself(m, stack) == stack # <<>> /\ m[stack[Len(stack)]].previous = stack[Len(stack)]

\* `stack` is the frames of Python from `first` on, in their order and none left out.
IsStack(m, first, stack) ==
  \A i \in DOMAIN stack :
    LET above == SubSeq(stack, 1, i - 1)
    IN  /\ OfPython(m, stack[i]) /\ m[stack[i]].executable \in Codes
        /\ stack[i] \in Beyond(m, Below(m, first, above)) /\ ~ LinkedToItself(m, above)

\* There is no frame of Python below: a pointer is null or cannot be read, or a frame is
\* linked to itself, cannot be read or has no code object.
NoneBelow(m, first, stack) ==
  \/ LinkedToItself(m, stack)
  \/ \E a \in Beyond(m, Below(m, first, stack)) :
       \/ a \notin Frames \/ m[a].owner = Fault
       \/ OfInterpreter(m, a) /\ m[a].previous = a
       \/ OfPython(m, a) /\ m[a].executable \notin Codes

\* What unwind() returns is the top of the stack: its frames down to the last one that can
\* be read, or MaxDepth of them.
FramesAreTheStack ==
  walk = "done" =>
    \E stack \in [DOMAIN buf -> Frames] :
      /\ IsStack(memory, start, stack)
      /\ \A i \in DOMAIN buf : buf[i] = memory[stack[i]].executable
      /\ Len(buf) = MaxDepth \/ NoneBelow(memory, start, stack)

\* Frames from which every link is to another skipped frame.
SkippedCycles ==
  UNION {C \in SUBSET Frames :
           \A f \in C : memory[f].owner \in {3, 4} /\ memory[f].previous \in C \ {f}}

\* The walk ends, unless it gets into a cycle of two or more skipped frames.
UnwindEnds == walk = "walking" ~> walk = "done" \/ frame_ptr \in SkippedCycles

\* "Cycle detection and a max depth of `min(buf.len(), MAX_DEPTH)` prevent infinite loops
\* from corrupted pointers": the walk ends whatever the memory is.
UnwindAlwaysEnds == walk = "walking" ~> walk = "done"
=============================================================================
