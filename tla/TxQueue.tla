------------------------------- MODULE TxQueue -------------------------------
(***************************************************************************)
(* What the transmit list of trans_wifi.c promises to the Wi-Fi driver     *)
(* that fills it and to wifi_send_task that drains it: a queue whose       *)
(* operations are atomic.  Nothing is said of pointers, locks or loops;    *)
(* TxList is shown to implement this.                                      *)
(***************************************************************************)
EXTENDS TxFrames, Naturals, Sequences, Functions

VARIABLES
  queue,      \* the frames that wait, oldest first
  needSend,   \* the WIFI_NEED_SEND bit wifi_send_task sleeps on
  taken       \* the frame wifi_send_task holds, or NoBuf

vars == <<queue, needSend, taken>>

Init ==
  /\ queue = << >>
  /\ needSend = FALSE
  /\ taken = NoBuf

(* A frame that is nowhere in the path joins the queue, at the end its     *)
(* class asks for, and the task is told.                                   *)
Put(b) ==
  /\ b \notin Range(queue) \cup {taken}
  /\ queue' = IF GoesFirst(b) THEN <<b>> \o queue ELSE Append(queue, b)
  /\ needSend' = TRUE
  /\ UNCHANGED taken

(* The task takes the oldest frame ...                                     *)
Take ==
  /\ taken = NoBuf
  /\ queue # << >>
  /\ taken' = Head(queue)
  /\ queue' = Tail(queue)
  /\ UNCHANGED needSend

(* ... and may lower the bit only when there is none.                      *)
FindEmpty ==
  /\ taken = NoBuf
  /\ queue = << >>
  /\ needSend' = FALSE
  /\ UNCHANGED <<queue, taken>>

(* The frame it held leaves the path.                                      *)
Finish ==
  /\ taken # NoBuf
  /\ taken' = NoBuf
  /\ UNCHANGED <<queue, needSend>>

(* new is old without the frames a clear recycles, in the same order.      *)
ClearedFrom(new, old) ==
  /\ Range(new) = {b \in Range(old) : ~ Recyclable(b)}
  /\ \A i, j \in DOMAIN new :
       i < j => \E k, l \in DOMAIN old :
                  k < l /\ old[k] = new[i] /\ old[l] = new[j]

(* A clear is one step: no frame enters or leaves the queue in its middle. *)
Clear ==
  /\ queue' \in Seq(Bufs)
  /\ ClearedFrom(queue', queue)
  /\ UNCHANGED <<needSend, taken>>

Next ==
  \/ \E b \in Bufs : Put(b)
  \/ Take
  \/ FindEmpty
  \/ Finish
  \/ Clear

Spec == Init /\ [][Next]_vars

-------------------------------------------------------------------------------
(* What follows for whoever uses the list.                                 *)

(* A frame waits once, and not while wifi_send_task holds it.              *)
Waits(b) == b \in Range(queue)
WaitsOnce ==
  /\ queue \in Seq(Bufs)
  /\ \A i, j \in DOMAIN queue : i # j => queue[i] # queue[j]
  /\ taken \in Pointer /\ ~ Waits(taken)

(* b is nearer to the front of q than c.                                   *)
Before(q, b, c) == \E i, j \in DOMAIN q : i < j /\ q[i] = b /\ q[j] = c

(* Frames never overtake each other: who is behind another stays behind    *)
(* it, through clears and commands put in front, and is not taken before.  *)
KeepsOrder ==
  \A b, c \in Bufs : Before(queue, b, c) =>
    /\ taken' # c
    /\ Waits(b)' /\ Waits(c)' => Before(queue', b, c)
InOrder == [][KeepsOrder]_vars

(* A frame that waits goes nowhere but to wifi_send_task, or to the pool   *)
(* in a clear that may recycle it.                                         *)
DropsNothing ==
  \A b \in Bufs : Waits(b) =>
    Waits(b)' \/ taken' = b \/ (Recyclable(b) /\ UNCHANGED taken)
NothingDropped == [][DropsNothing]_vars
=============================================================================
