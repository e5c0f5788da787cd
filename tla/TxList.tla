-------------------------------- MODULE TxList --------------------------------
(***************************************************************************)
(* The Wi-Fi transmit list of trans_wifi.c: a singly linked list threaded  *)
(* through the bqentry field of the buffers (wifi_tx->tx_head, tx_tail),   *)
(* protected by list_lock, with the WIFI_NEED_SEND bit of list_event on    *)
(* which wifi_send_task sleeps.                                            *)
(*                                                                         *)
(* The tasks of the Wi-Fi driver call wifi_send_cmd and wifi_send_data;    *)
(* wifi_send_task removes.  list_insert, list_head_insert and list_remove  *)
(* touch the list only between taking and giving list_lock, and are one    *)
(* step each.  list_clear runs its loop one iteration a step, with the     *)
(* lock held: meanwhile buffers are allocated and sent.                    *)
(***************************************************************************)
EXTENDS TxFrames, Naturals, Sequences, Functions

CONSTANTS
  Callers,   \* the tasks that call wifi_send_cmd and wifi_send_data
  NoTask     \* nobody: list_lock is free

ASSUME CallersAssumption == NoTask \notin Callers

VARIABLES
  next,         \* bqentry.stqe_next of every buffer
  tx_head,      \* wifi_tx->tx_head
  tx_tail,      \* wifi_tx->tx_tail
  list_event,   \* the WIFI_NEED_SEND bit of wifi_tx->list_event
  list_lock,    \* the task that holds wifi_tx->list_lock across steps
  eb_head,      \* locals of list_clear: the frames kept so far
  eb_end,
  pool,         \* buffers esf_buf_alloc may return
  pc,           \* where each caller stands
  arg,          \* the buffer each caller is about to insert
  sender,       \* where wifi_send_task stands
  eb,           \* the frame wifi_send_task holds

  (* Written by the operations below and read by none of them: the         *)
  (* sequence the pointers stand for.                                      *)
  queue,        \* the content of the list, as of the last list_clear end
  kept,         \* during list_clear, the frames from eb_head to eb_end
  cursor        \* during list_clear, how many frames of queue it went over

listVars   == <<next, tx_head, tx_tail>>
clearVars  == <<eb_head, eb_end>>
callVars   == <<pc, arg>>
senderVars == <<sender, eb>>
ghostVars  == <<queue, kept, cursor>>
vars == <<listVars, list_event, list_lock, clearVars, pool, callVars,
          senderVars, ghostVars>>

Init ==
  /\ next = [b \in Bufs |-> NoBuf]
  /\ tx_head = NoBuf
  /\ tx_tail = NoBuf
  /\ list_event = FALSE
  /\ list_lock = NoTask
  /\ eb_head = NoBuf
  /\ eb_end = NoBuf
  /\ pool = Bufs
  /\ pc = [c \in Callers |-> "idle"]
  /\ arg = [c \in Callers |-> NoBuf]
  /\ sender \in {"wait", "dead"}  \* dead: no memory for its send_buf
  /\ eb = NoBuf
  /\ queue = << >>
  /\ kept = << >>
  /\ cursor = 0

-------------------------------------------------------------------------------
(* The callers.                                                            *)

(* wifi_send_cmd allocates its buffer; wifi_send_data is handed one the    *)
(* network stack allocated.  Either way bqentry holds what its last user   *)
(* left there.                                                             *)
Call(c, b) ==
  /\ pc[c] = "idle"
  /\ b \in pool
  /\ pool' = pool \ {b}
  /\ \E stale \in Pointer : next' = [next EXCEPT ![b] = stale]
  /\ arg' = [arg EXCEPT ![c] = b]
  /\ pc' = [pc EXCEPT ![c] = IF ClearsList(b) THEN "clear" ELSE "insert"]
  /\ UNCHANGED <<tx_head, tx_tail, list_event, list_lock, clearVars,
                 senderVars, ghostVars>>

(* When the pool is empty wifi_send_cmd returns ESP_FAIL: once the task    *)
(* that sends is gone, that is all that happens.                           *)
AllocFails(c) ==
  /\ pc[c] = "idle"
  /\ pool = {}
  /\ UNCHANGED vars

(* Variants of the operations, each with a slip of the kind this code      *)
(* invites, are written before the operation they vary.  Nothing uses      *)
(* them: a property is worth checking if one of them would break it.       *)

(* bqentry of the new last frame keeps what its last user left there.      *)
LinkLastUnterminated(b) ==
  \/ /\ tx_head = NoBuf
     /\ tx_head' = b
     /\ next' = [next EXCEPT ![b] = NoBuf]
     /\ tx_tail' = b
  \/ /\ tx_head # NoBuf
     /\ next' = [next EXCEPT ![tx_tail] = b]
     /\ tx_tail' = b
     /\ UNCHANGED tx_head

(* The pointer assignments of list_insert ...                              *)
LinkLast(b) ==
  \/ /\ tx_head = NoBuf
     /\ tx_head' = b
     /\ next' = [next EXCEPT ![b] = NoBuf]
     /\ tx_tail' = b
  \/ /\ tx_head # NoBuf
     /\ next' = [next EXCEPT ![tx_tail] = b, ![b] = NoBuf]
     /\ tx_tail' = b
     /\ UNCHANGED tx_head

(* ... and of list_head_insert.                                            *)
LinkFirst(b) ==
  \/ /\ tx_head = NoBuf
     /\ tx_head' = b
     /\ next' = [next EXCEPT ![b] = NoBuf]
     /\ tx_tail' = b
  \/ /\ tx_head # NoBuf
     /\ next' = [next EXCEPT ![b] = tx_head]
     /\ tx_head' = b
     /\ UNCHANGED tx_tail

(* SIP_CMD_TEST goes through list_insert like the rest.                    *)
InsertAlwaysLast(c) ==
  /\ pc[c] = "insert"
  /\ list_lock = NoTask
  /\ LinkLast(arg[c])
  /\ queue' = Append(queue, arg[c])
  /\ list_event' = TRUE
  /\ pc' = [pc EXCEPT ![c] = "idle"]
  /\ arg' = [arg EXCEPT ![c] = NoBuf]
  /\ UNCHANGED <<list_lock, clearVars, pool, senderVars, kept, cursor>>

Insert(c) ==
  LET b == arg[c]
  IN /\ pc[c] = "insert"
     /\ list_lock = NoTask
     /\ \/ /\ GoesFirst(b)
           /\ LinkFirst(b)
           /\ queue' = <<b>> \o queue
        \/ /\ ~ GoesFirst(b)
           /\ LinkLast(b)
           /\ queue' = Append(queue, b)
     /\ list_event' = TRUE
     /\ pc' = [pc EXCEPT ![c] = "idle"]
     /\ arg' = [arg EXCEPT ![c] = NoBuf]
     /\ UNCHANGED <<list_lock, clearVars, pool, senderVars, kept, cursor>>

(* list_clear takes the lock, with both its locals null.                   *)
ClearBegin(c) ==
  /\ pc[c] = "clear"
  /\ list_lock = NoTask
  /\ list_lock' = c
  /\ eb_head' = NoBuf
  /\ eb_end' = NoBuf
  /\ pc' = [pc EXCEPT ![c] = "clearing"]
  /\ UNCHANGED <<listVars, list_event, pool, arg, senderVars, ghostVars>>

(* A frame the loop keeps is linked behind the ones kept before.           *)
Keep(b) ==
  /\ \/ /\ eb_end = NoBuf
        /\ eb_head' = b
        /\ next' = [next EXCEPT ![b] = NoBuf]
     \/ /\ eb_end # NoBuf
        /\ next' = [next EXCEPT ![eb_end] = b, ![b] = NoBuf]
        /\ UNCHANGED eb_head
  /\ eb_end' = b
  /\ kept' = Append(kept, b)
  /\ UNCHANGED pool

(* The frame is dropped from the list and not given back.                  *)
RecycleForgotten(b) ==
  /\ next' = [next EXCEPT ![b] = NoBuf]
  /\ UNCHANGED <<pool, clearVars, kept>>

(* The other frames are unlinked and recycled.                             *)
Recycle(b) ==
  /\ next' = [next EXCEPT ![b] = NoBuf]
  /\ pool' = pool \cup {b}
  /\ UNCHANGED <<clearVars, kept>>

(* The loop recycles whatever it meets.                                    *)
ClearStepOfAll(c) ==
  /\ pc[c] = "clearing"
  /\ tx_head # NoBuf
  /\ tx_head' = next[tx_head]
  /\ Recycle(tx_head)
  /\ tx_tail' = IF tx_head' = NoBuf THEN NoBuf ELSE tx_tail
  /\ cursor' = cursor + 1
  /\ UNCHANGED <<list_event, list_lock, callVars, senderVars, queue>>

(* One iteration of the loop of list_clear.                                *)
ClearStep(c) ==
  /\ pc[c] = "clearing"
  /\ tx_head # NoBuf
  /\ tx_head' = next[tx_head]
  /\ \/ Recyclable(tx_head) /\ Recycle(tx_head)
     \/ ~ Recyclable(tx_head) /\ Keep(tx_head)
  /\ tx_tail' = IF tx_head' = NoBuf THEN NoBuf ELSE tx_tail
  /\ cursor' = cursor + 1
  /\ UNCHANGED <<list_event, list_lock, callVars, senderVars, queue>>

(* The loop is over: what was kept is the list.  wifi_send_cmd goes on to  *)
(* insert its command.                                                     *)
ClearEnd(c) ==
  /\ pc[c] = "clearing"
  /\ tx_head = NoBuf
  /\ tx_head' = eb_head
  /\ tx_tail' = eb_end
  /\ list_lock' = NoTask
  /\ pc' = [pc EXCEPT ![c] = "insert"]
  /\ queue' = kept
  /\ kept' = << >>
  /\ cursor' = 0
  /\ UNCHANGED <<next, list_event, clearVars, pool, arg, senderVars>>

-------------------------------------------------------------------------------
(* wifi_send_task.                                                         *)

(* xEventGroupWaitBits called with xClearOnExit = true.                    *)
WakeClearingTheBit ==
  /\ sender = "wait"
  /\ list_event
  /\ sender' = "remove"
  /\ list_event' = FALSE
  /\ UNCHANGED <<listVars, list_lock, clearVars, pool, callVars, eb, ghostVars>>

(* list_wait_item returns once the bit is up, and leaves it up.            *)
Wake ==
  /\ sender = "wait"
  /\ list_event
  /\ sender' = "remove"
  /\ UNCHANGED <<listVars, list_event, list_lock, clearVars, pool, callVars,
                 eb, ghostVars>>

(* list_remove, which lowers the bit when it finds the list empty.  It     *)
(* leaves tx_tail alone when it takes the last frame.                      *)
Remove ==
  /\ sender = "remove"
  /\ list_lock = NoTask
  /\ \/ /\ tx_head # NoBuf
        /\ eb' = tx_head
        /\ tx_head' = next[tx_head]
        /\ next' = [next EXCEPT ![tx_head] = NoBuf]
        /\ sender' = "credits"
        /\ queue' = Tail(queue)
        /\ UNCHANGED <<tx_tail, list_event>>
     \/ /\ tx_head = NoBuf
        /\ tx_tail' = NoBuf
        /\ list_event' = FALSE
        /\ sender' = "wait"
        /\ UNCHANGED <<next, tx_head, eb, queue>>
  /\ UNCHANGED <<list_lock, clearVars, pool, callVars, kept, cursor>>

(* The loop that waits until the target has room for the frame ends: it    *)
(* has no bound.  What it compares is WifiTx's matter.                     *)
RoomFound ==
  /\ sender = "credits"
  /\ sender' = "send"
  /\ UNCHANGED <<listVars, list_event, list_lock, clearVars, pool, callVars,
                 eb, ghostVars>>

(* The frame has been sent and goes back to the pool, directly or by way   *)
(* of the network stack's completion.                                      *)
Complete ==
  /\ sender = "send"
  /\ pool' = pool \cup {eb}
  /\ eb' = NoBuf
  /\ sender' = "wait"
  /\ UNCHANGED <<listVars, list_event, list_lock, clearVars, callVars,
                 ghostVars>>

(* A frame that is too long for send_buf aborts the program, before the    *)
(* wait.  The model lets the other tasks go on, which allows only more     *)
(* behaviours ...                                                          *)
Overflow ==
  /\ sender = "credits"
  /\ sender' = "dead"
  /\ UNCHANGED <<listVars, list_event, list_lock, clearVars, pool, callVars,
                 eb, ghostVars>>

(* ... and the task returns after a transfer that fails.  It never gives   *)
(* its frame back nor takes another one.                                   *)
TransferFails ==
  /\ sender = "send"
  /\ sender' = "dead"
  /\ UNCHANGED <<listVars, list_event, list_lock, clearVars, pool, callVars,
                 eb, ghostVars>>

Next ==
  \/ \E c \in Callers :
       \/ \E b \in Bufs : Call(c, b)
       \/ AllocFails(c)
       \/ Insert(c)
       \/ ClearBegin(c)
       \/ ClearStep(c)
       \/ ClearEnd(c)
  \/ Wake
  \/ Remove
  \/ RoomFound
  \/ Complete
  \/ Overflow
  \/ TransferFails

Spec == Init /\ [][Next]_vars

-------------------------------------------------------------------------------
(* Properties.                                                             *)

(* The type invariant.                                                     *)
TypeOK ==
  /\ next \in [Bufs -> Pointer]
  /\ tx_head \in Pointer
  /\ tx_tail \in Pointer
  /\ list_event \in BOOLEAN
  /\ list_lock \in Callers \cup {NoTask}
  /\ eb_head \in Pointer
  /\ eb_end \in Pointer
  /\ pool \subseteq Bufs
  /\ pc \in [Callers -> {"idle", "clear", "clearing", "insert"}]
  /\ arg \in [Callers -> Pointer]
  /\ sender \in {"wait", "remove", "credits", "send", "dead"}
  /\ eb \in Pointer
  /\ queue \in Seq(Bufs)
  /\ kept \in Seq(Bufs)
  /\ cursor \in 0 .. Len(queue)

(* From pointer p the bqentry fields go through s[from], s[from+1], ...    *)
(* and end with the null pointer behind the last element.                  *)
Linked(p, s, from) ==
  /\ p = IF from > Len(s) THEN NoBuf ELSE s[from]
  /\ \A i \in from .. Len(s) :
       next[s[i]] = IF i = Len(s) THEN NoBuf ELSE s[i + 1]

(* tx_tail may be followed (list_insert writes through it) whenever the    *)
(* list is not empty: it then is the last frame.  tx_head leads through    *)
(* all the frames, in order, and so does eb_head through those list_clear  *)
(* kept.  Every operation of the list has to preserve this, the stale      *)
(* tx_tail list_remove leaves behind the last frame included.              *)
ListRepresentsQueue ==
  /\ Linked(tx_head, queue, cursor + 1)
  /\ cursor < Len(queue) => tx_tail = queue[Len(queue)]
  /\ list_lock # NoTask =>
       /\ Linked(eb_head, kept, 1)
       /\ eb_end = IF kept = << >> THEN NoBuf ELSE kept[Len(kept)]

(* The frames linked in the list, those list_clear set aside included.     *)
InList == {queue[i] : i \in cursor + 1 .. Len(queue)} \cup Range(kept)

(* Every buffer is in one place: the pool, the list (once), a caller's     *)
(* hands or wifi_send_task's.  No frame is recycled twice or while someone *)
(* uses it (list_clear recycles next to the task that sends), none leaks   *)
(* but the one wifi_send_task holds when it returns.                       *)
HeldOnce ==
  /\ \A i, j \in DOMAIN queue : i # j => queue[i] # queue[j]
  /\ \A i, j \in DOMAIN kept : i # j => kept[i] # kept[j]
  /\ \A i \in cursor + 1 .. Len(queue) : queue[i] \notin Range(kept)
  /\ \A c, d \in Callers : c # d /\ arg[c] # NoBuf => arg[c] # arg[d]
  /\ \A c \in Callers : arg[c] \notin pool \cup InList
  /\ \A c \in Callers : arg[c] = eb => eb = NoBuf
  /\ eb \notin pool \cup InList
  /\ pool \cap InList = {}
  /\ Bufs \subseteq pool \cup InList \cup {eb} \cup Range(arg)

(* While list_clear runs, kept holds the frames it went over that are not  *)
(* for recycling, all of them and in their order.                          *)
ClearKeepsTheRest ==
  /\ \A i \in DOMAIN kept : ~ Recyclable(kept[i])
  /\ \A k \in 1 .. cursor :
       ~ Recyclable(queue[k]) => \E i \in DOMAIN kept : kept[i] = queue[k]
  /\ \A i \in DOMAIN kept : \E k \in 1 .. cursor : kept[i] = queue[k]
  /\ \A i, j \in DOMAIN kept :
       i < j => \E k, l \in 1 .. cursor :
                  k < l /\ queue[k] = kept[i] /\ queue[l] = kept[j]

(* The wake-up of wifi_send_task cannot be lost: as long as a frame is in  *)
(* the list the bit is up, although the task lowers it itself when it      *)
(* finds the list empty and callers insert at the same time.               *)
NoLostWakeup == queue # << >> => list_event

(* The operations are atomic and first in, first out, but for the commands *)
(* that list_head_insert puts in front; a clear removes the frames it has  *)
(* to, all at once, and nothing else.                                      *)
AbstractQueue ==
  INSTANCE TxQueue WITH needSend <- list_event, taken <- eb
ImplementsTxQueue == AbstractQueue!Spec

(* The tasks keep running.  Taking list_lock is strongly fair for the      *)
(* task that sends and for callers: FreeRTOS wakes the tasks that wait     *)
(* for a mutex when it is given.  The wait for room ends because the       *)
(* target processes what it got (WifiTx has the details).  Nothing says    *)
(* that a transfer succeeds: TransferFails may always come first.          *)
Fairness ==
  /\ WF_vars(Wake)
  /\ SF_vars(Remove)
  /\ WF_vars(RoomFound)
  /\ WF_vars(Complete)
  /\ \A c \in Callers :
       /\ SF_vars(Insert(c))
       /\ SF_vars(ClearBegin(c))
       /\ WF_vars(ClearStep(c) \/ ClearEnd(c))

FairSpec == Spec /\ Fairness

(* A frame given to wifi_send_cmd or wifi_send_data does not stay in the   *)
(* list for ever, whatever the callers do meanwhile, unless wifi_send_task *)
(* is gone, and as long as they do not send SIP_CMD_TEST without end: it   *)
(* overtakes and starves the others.                                       *)
EveryFrameLeaves ==
  (\A t \in Bufs : GoesFirst(t) => <>[](t \in pool)) =>
    \A b \in Bufs :
      (\E c \in Callers : arg[c] = b) ~> b \in pool \/ sender = "dead"
=============================================================================
