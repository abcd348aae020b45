------------------------------- MODULE Relay -------------------------------
(***************************************************************************)
(* What a relaying session promises its two ends.  up is what the server   *)
(* was handed: the trojan request, 0, and then the client's pieces 1, 2... *)
(* in order.  down is what the client was handed: the server's pieces in   *)
(* order, and none before the server got the request.  open says that the  *)
(* client side is open.                                                    *)
(***************************************************************************)
EXTENDS Integers, Sequences

CONSTANTS MaxUp, MaxDown
VARIABLES up, down, open

Init == up = << >> /\ down = << >> /\ open = TRUE

(* The tunnel comes up: the request leaves with all that was buffered.     *)
Flush ==
  /\ up = << >>
  /\ \E n \in 0..MaxUp : up' = [i \in 1..(n + 1) |-> i - 1]
  /\ UNCHANGED <<down, open>>

Up ==
  /\ open /\ up # << >> /\ Len(up) <= MaxUp
  /\ up' = Append(up, Len(up))
  /\ UNCHANGED <<down, open>>

Down ==
  /\ up # << >> /\ Len(down) < MaxDown
  /\ down' = Append(down, Len(down) + 1)
  /\ UNCHANGED <<up, open>>

(* For good: nothing opens it again.                                       *)
Close == open /\ open' = FALSE /\ UNCHANGED <<up, down>>

Next == Flush \/ Up \/ Down \/ Close

Spec == Init /\ [][Next]_<<up, down, open>>
=============================================================================
