----------------------------- MODULE ByteQueue -----------------------------
(***************************************************************************)
(* What a Buffer promises its user: a queue of bytes.  Bytes are put at    *)
(* its end and taken from its front; the user may also push bytes back in  *)
(* front and withdraw bytes it has put.                                    *)
(***************************************************************************)
EXTENDS Integers, Sequences

CONSTANT Chunks    \* the byte strings that are put or pushed

VARIABLE queue

Init == queue = <<>>

Put(s) == queue' = queue \o s
Push(s) == queue' = s \o queue
Take(n) == queue' = SubSeq(queue, n + 1, Len(queue))
Withdraw(n) == queue' = SubSeq(queue, 1, Len(queue) - n)

Next ==
    \/ \E s \in Chunks : Put(s) \/ Push(s)
    \/ \E n \in 0 .. Len(queue) : Take(n) \/ Withdraw(n)

Spec == Init /\ [][Next]_queue
============================================================================
