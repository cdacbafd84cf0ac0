---------------------------- MODULE SampleLedger ----------------------------
(***************************************************************************)
(* What a profiling agent promises about samples, whatever its threads and *)
(* channels: a snapshot takes every sample that is buffered, in one batch; *)
(* batches are handed to the server in the order they were taken, each at  *)
(* most once; a sample that is lost or delivered stays so.                 *)
(***************************************************************************)
EXTENDS Naturals, Sequences

CONSTANT Samples

VARIABLES
  status,   \* "unrecorded", "buffered", "reported", "delivered" or "lost"
  batches   \* the batches taken and not handed over, oldest first

vars == <<status, batches>>

Init ==
  /\ status = [s \in Samples |-> "unrecorded"]
  /\ batches = <<>>

\* The samples of S become `to`.
Becomes(S, to) == status' = [s \in Samples |-> IF s \in S THEN to ELSE status[s]]
Buffered == {s \in Samples : status[s] = "buffered"}

Record(s) ==
  /\ status[s] = "unrecorded"
  /\ Becomes({s}, "buffered")
  /\ UNCHANGED batches

Snapshot ==
  /\ Becomes(Buffered, "reported")
  /\ batches' = Append(batches, Buffered)

\* The oldest batch is handed over, and accepted or not.
HandOver ==
  /\ batches # <<>>
  /\ \E to \in {"delivered", "lost"} : Becomes(Head(batches), to)
  /\ batches' = Tail(batches)

\* A batch is dropped before it is handed over.
DropBatch(i) ==
  /\ Becomes(batches[i], "lost")
  /\ batches' = SubSeq(batches, 1, i - 1) \o SubSeq(batches, i + 1, Len(batches))

\* What is buffered is thrown away.
Discard ==
  /\ Becomes(Buffered, "lost")
  /\ UNCHANGED batches

Next ==
  \/ \E s \in Samples : Record(s)
  \/ Snapshot
  \/ HandOver
  \/ \E i \in DOMAIN batches : DropBatch(i)
  \/ Discard

Spec == Init /\ [][Next]_vars
=============================================================================
