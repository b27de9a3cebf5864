----------------------------- MODULE ByteQueue -----------------------------
(***************************************************************************)
(* What a pipe promises: a bounded first-in first-out queue of bytes that  *)
(* takes bytes while its read end is open, and ends once both ends have    *)
(* been closed.                                                            *)
(***************************************************************************)
EXTENDS Naturals, Sequences

CONSTANTS Byte, Capacity

VARIABLES queue, readopen, writeopen

absVars == <<queue, readopen, writeopen>>

AbsInit == queue = <<>> /\ readopen = TRUE /\ writeopen = TRUE

Put(b) ==
  /\ readopen /\ writeopen /\ Len(queue) < Capacity
  /\ queue' = Append(queue, b)
  /\ UNCHANGED <<readopen, writeopen>>

Get ==
  /\ readopen /\ queue # <<>>
  /\ queue' = Tail(queue)
  /\ UNCHANGED <<readopen, writeopen>>

Close ==
  /\ UNCHANGED queue
  /\ \/ readopen /\ ~readopen' /\ UNCHANGED writeopen
     \/ writeopen /\ ~writeopen' /\ UNCHANGED readopen

AbsNext == Get \/ Close \/ \E b \in Byte : Put(b)

AbsSpec == AbsInit /\ [][AbsNext]_absVars
=============================================================================
