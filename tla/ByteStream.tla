------------------------------ MODULE ByteStream ------------------------------
(***************************************************************************)
(* What a buffer between two parties promises: what is written is          *)
(* delivered once, in order and whole.                                     *)
(***************************************************************************)
EXTENDS Integers, Sequences

VARIABLES queue,       \* written and not yet delivered, oldest first
          out          \* delivered

Init == queue = <<>> /\ out = <<>>

Write ==
  /\ Len(queue') > Len(queue)
  /\ SubSeq(queue', 1, Len(queue)) = queue
  /\ UNCHANGED out

Deliver ==
  \E n \in 1 .. Len(queue) :
    /\ out' = out \o SubSeq(queue, 1, n)
    /\ queue' = SubSeq(queue, n + 1, Len(queue))

Next == Write \/ Deliver

Spec == Init /\ [][Next]_<<queue, out>>
===============================================================================
