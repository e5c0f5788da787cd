------------------------------ MODULE BtChannel ------------------------------
(***************************************************************************)
(* What trans_bt.c promises the Bluetooth host: a bounded channel to the   *)
(* target that may lose messages but neither reorders nor repeats them.    *)
(***************************************************************************)
EXTENDS Naturals, Sequences, Functions

CONSTANTS Msgs, NoMsg, Capacity

VARIABLES
  chan,      \* messages accepted and on their way, the oldest first
  arrived    \* the message that reached the target last

Init == chan = << >> /\ arrived = NoMsg

Accept(m) ==
  /\ m \notin Range(chan)
  /\ Len(chan) < Capacity
  /\ chan' = Append(chan, m)
  /\ UNCHANGED arrived

(* The oldest message leaves the channel, and reaches the target or is     *)
(* lost.                                                                   *)
Leave ==
  /\ chan # << >>
  /\ chan' = Tail(chan)
  /\ arrived' \in {Head(chan), arrived}

Next == Leave \/ \E m \in Msgs : Accept(m)

Spec == Init /\ [][Next]_<<chan, arrived>>
=============================================================================
