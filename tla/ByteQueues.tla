------------------------------ MODULE ByteQueues ------------------------------
(***************************************************************************)
(* What the ring buffers promise: two bounded FIFO queues in a row.  Bytes *)
(* are put into the first, moved from the first to the second as far as    *)
(* there is room, and taken from the second.  Nothing is lost, repeated or *)
(* reordered.                                                              *)
(***************************************************************************)
EXTENDS Integers, Sequences

CONSTANTS BufSize,     \* the capacity of a queue
          NumBytes,    \* bytes are numbered modulo NumBytes
          MaxTail      \* the longest piece offered to the second queue

VARIABLES first, second, next

Room(q) == BufSize - Len(q)
Least(i, j) == IF i <= j THEN i ELSE j
Fresh(n) == [i \in 1 .. n |-> (next + i - 1) % NumBytes]
Used(n) == next' = (next + n) % NumBytes

Init == first = <<>> /\ second = <<>> /\ next = 0

Put(n) ==
  /\ n <= Room(first)
  /\ first' = first \o Fresh(n)
  /\ Used(n)
  /\ UNCHANGED second

(* A piece that does not come from the first queue, cut off where the      *)
(* second one is full.                                                     *)
PutSecond(n) ==
  LET m == Least(n, Room(second)) IN
  /\ second' = second \o Fresh(m)
  /\ Used(m)
  /\ UNCHANGED first

Transfer ==
  LET n == Least(Len(first), Room(second)) IN
  /\ second' = second \o SubSeq(first, 1, n)
  /\ first' = SubSeq(first, n + 1, Len(first))
  /\ UNCHANGED next

Take(n) ==
  /\ n <= Len(second)
  /\ second' = SubSeq(second, n + 1, Len(second))
  /\ UNCHANGED <<first, next>>

Next ==
  \/ \E n \in 1 .. BufSize : Put(n) \/ Take(n)
  \/ \E n \in 1 .. MaxTail : PutSecond(n)
  \/ Transfer

Spec == Init /\ [][Next]_<<first, second, next>>
===============================================================================
