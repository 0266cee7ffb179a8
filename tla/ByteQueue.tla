------------------------------ MODULE ByteQueue ------------------------------
(***************************************************************************)
(* What a channel of RTT promises: a bounded queue of bytes.  The bytes    *)
(* are numbered in the order in which they are put, so what is taken says  *)
(* whether one was lost, repeated or changed.                              *)
(***************************************************************************)
EXTENDS Integers, Sequences

CONSTANTS Most \* bytes put or taken at a time

VARIABLES capacity, \* what the queue holds at most
          queue,
          taken     \* all bytes taken so far

Put(n) ==
  /\ Len(queue) + n <= capacity
  /\ queue' = queue \o [i \in 1..n |-> Len(taken) + Len(queue) + i]
  /\ UNCHANGED <<capacity, taken>>

Take(n) ==
  /\ n <= Len(queue)
  /\ taken' = taken \o SubSeq(queue, 1, n)
  /\ queue' = SubSeq(queue, n + 1, Len(queue))
  /\ UNCHANGED capacity

(* The target has prepared the channel.                                    *)
Ready == capacity = 0 /\ capacity' > 0 /\ UNCHANGED <<queue, taken>>

Init == capacity = 0 /\ queue = <<>> /\ taken = <<>>
Next == Ready \/ \E n \in 1..Most : Put(n) \/ Take(n)
Spec == Init /\ [][Next]_<<capacity, queue, taken>>
=============================================================================
