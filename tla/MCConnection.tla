----------------------------- MODULE MCConnection -----------------------------
(***************************************************************************)
(* Connection for TLC.  The client sends more than a buffer holds, so that *)
(* headers are split, ranges wrap around and buffers fill up; the server's *)
(* answer is a single byte, or the bare end of its stream.                 *)
(***************************************************************************)
EXTENDS Connection

(* Four bytes, as much as the two buffers of a direction hold, of which two *)
(* are the header, and an answer that is too short to be one.               *)
FourAndOne     == [down |-> 4, up |-> 1]
TwoByteHeaders == [down |-> 2, up |-> 2]

(* Two bytes, or one more than a send buffer holds, and an answer of none. *)
TwoAndNone     == [down |-> 2, up |-> 0]
ThreeAndNone   == [down |-> 3, up |-> 0]
OneByteHeaders == [down |-> 1, up |-> 1]

(* Spec, as long as no worker dies, with the ENABLED of its weak fairness   *)
(* written out, which TLC checks in a fraction of the time: Run is enabled  *)
(* but where the worker has ended or has nothing to wait for, and all but   *)
(* finitely many steps are steps of Run.                                    *)
Halted ==
  \/ pc \in {"closed", "failed", "exited"}
  \/ pc = "wait" /\ \A e \in Ends : interest[e] = {}

QuickSpec == Init /\ [][Next]_vars /\ ([]<>Halted \/ []<><<TRUE>>_vars)
===============================================================================
