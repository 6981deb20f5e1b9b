---------------------------- MODULE ParallelPool ----------------------------
(***************************************************************************)
(* The pool of threads that run the parallel decoders.  All threads take   *)
(* batches from one channel, so that batches leave the pool in any order.  *)
(* Source: genet-kernel/src/decoder/parallel.rs.                           *)
(***************************************************************************)
EXTENDS Pipeline

VARIABLES
  pq,  \* the pool's channel: batches, and one Poison per thread at shutdown
  wk   \* wk[w]: what thread w is doing, and the batch it holds

parallelVars == <<pq, wk>>

Waiting == [pc |-> "recv", frames |-> <<>>]
Working(frames) == [pc |-> "decode", frames |-> frames]
Returned == [pc |-> "ended", frames |-> <<>>]
Panicked == [pc |-> "dead", frames |-> <<>>]

ParallelInit ==
  /\ pq = <<>>
  /\ wk = [w \in Workers |-> Waiting]

\* recv.recv(): a batch to decode, or None, which ends the thread.
WorkerRecv(w) ==
  /\ wk[w].pc = "recv"
  /\ pq # <<>>
  /\ pq' = Tail(pq)
  /\ wk' = [wk EXCEPT ![w] =
              IF Head(pq) = Poison THEN Returned ELSE Working(Head(pq))]
  /\ UNCHANGED <<chan, panics>>

\* Every frame of the batch decoded, callback.done(frames) sends it back.
WorkerDone(w) ==
  /\ wk[w].pc = "decode"
  /\ chan' = Append(chan, PushSerialFrames(wk[w].frames))
  /\ wk' = [wk EXCEPT ![w] = Waiting]
  /\ UNCHANGED <<pq, panics>>

\* A decoder panics: the thread unwinds, and the batch is dropped with it.
WorkerPanic(w) ==
  /\ wk[w].pc = "decode"
  /\ wk' = [wk EXCEPT ![w] = Panicked]
  /\ panics' = panics + 1
  /\ UNCHANGED <<chan, pq>>
=============================================================================
