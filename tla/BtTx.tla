--------------------------------- MODULE BtTx ---------------------------------
(***************************************************************************)
(* The Bluetooth transmit path: trans_bt.c and the part of handle_intr1 in *)
(* trans_recv.c that gives tx_sem.                                         *)
(*                                                                         *)
(* bt_send_data puts a copy of a message into tx_que; bt_tx_task takes the *)
(* one credit there is (tx_sem), takes a message and sends it.  When the   *)
(* target has room for another it sets a bit of ESP_SDIO_CONFIG_W1 and     *)
(* raises TOHOST_BIT0; trans_recv_task clears the interrupt, reads the bit *)
(* and gives the credit back.                                              *)
(***************************************************************************)
EXTENDS Integers, Sequences, Functions

CONSTANTS
  Msgs,        \* identities of messages, used again when they are free
  NoMsg,
  Empty,       \* messages without data (len = 0)
  QueueLen,    \* length of tx_que
  SeqMod,      \* where tx_seq wraps
  MaxFaults    \* bound: allocations, accesses and transfers that fail

ASSUME BtTxAssumption ==
  /\ NoMsg \notin Msgs
  /\ Empty \subseteq Msgs
  /\ QueueLen \in Nat \ {0}
  /\ SeqMod \in Nat \ {0, 1}
  /\ MaxFaults \in Nat

VARIABLES
  caller,      \* what bt_send_data waits to put into tx_que
  tx_que, tx_sem,
  task,        \* where bt_tx_task stands
  buf,         \* its message
  hdrSeq,      \* hdr->seq
  tx_seq,
  receiver,    \* where trans_recv_task stands
  sdio_mutex,  \* who holds it across steps
  toHost,      \* SLCHOST_SLC1_TOHOST_BIT0_INT_RAW
  w1,          \* bit 0 of ESP_SDIO_CONFIG_W1
  target,      \* the message the target works on
  arrived,     \* history: the message that reached the target last,
  devSeq,      \*   and its number
  numberLost,  \*   a number was used for a transfer that failed
  creditLost,  \*   the credit was taken and will not come back
  clearFailed, \*   an interrupt was handled without being cleared
  faults, aborted

queueVars  == <<caller, tx_que>>
taskVars   == <<task, buf, hdrSeq, tx_seq>>
recvVars   == <<receiver, sdio_mutex>>
devVars    == <<toHost, w1, target, arrived, devSeq>>
faultVars  == <<numberLost, creditLost, clearFailed, faults, aborted>>
vars == <<queueVars, tx_sem, taskVars, recvVars, devVars, faultVars>>

InHand == IF task \in {"build", "send"} THEN <<buf>> ELSE << >>

Channel == INSTANCE BtChannel WITH chan <- InHand \o tx_que,
                                   Capacity <- QueueLen + 1

(* bt_start_up: one credit, and the target ready for one message.          *)
Init ==
  /\ caller = NoMsg
  /\ tx_que = << >>
  /\ tx_sem = 1
  /\ task = "lock"
  /\ buf = NoMsg
  /\ hdrSeq = 0
  /\ tx_seq = 0
  /\ receiver = "wait"
  /\ sdio_mutex = "nobody"
  /\ toHost = FALSE
  /\ w1 = TRUE
  /\ target = NoMsg
  /\ arrived = NoMsg
  /\ devSeq = SeqMod - 1
  /\ numberLost = FALSE
  /\ creditLost = FALSE
  /\ clearFailed = FALSE
  /\ faults = 0
  /\ aborted = FALSE

Running == ~ aborted

Fault == faults < MaxFaults /\ faults' = faults + 1

-------------------------------------------------------------------------------
(* The Bluetooth host: bt_send_data.  check_send_available always says     *)
(* yes, so a call may come at any time.  Its calloc is not checked: with   *)
(* no memory the copy goes to a null pointer.                              *)
SendData(m) ==
  /\ Running
  /\ caller = NoMsg
  /\ m \notin Range(InHand \o tx_que) \cup {target}
  /\ \/ caller' = m /\ UNCHANGED <<faults, aborted>>
     \/ Fault /\ aborted' = TRUE /\ UNCHANGED caller
  /\ UNCHANGED <<tx_que, tx_sem, taskVars, recvVars, devVars,
                 numberLost, creditLost, clearFailed>>

(* As in the other modules, a variant of the kind this code invites comes  *)
(* before the operation it varies, and nothing uses it.                    *)

(* In a full queue the newest message takes the place of the oldest.       *)
QueueOverwriting ==
  /\ Running
  /\ caller # NoMsg
  /\ tx_que' = IF Len(tx_que) < QueueLen THEN Append(tx_que, caller)
                                         ELSE <<caller>> \o Tail(tx_que)
  /\ caller' = NoMsg
  /\ UNCHANGED <<tx_sem, taskVars, recvVars, devVars, faultVars>>

(* xQueueSend as far as there is room.                                     *)
Queue ==
  /\ Running
  /\ caller # NoMsg
  /\ Len(tx_que) < QueueLen
  /\ tx_que' = Append(tx_que, caller)
  /\ caller' = NoMsg
  /\ UNCHANGED <<tx_sem, taskVars, recvVars, devVars, faultVars>>

(* xQueueSend with portMAX_DELAY.                                          *)
QueueNoTimeout == FALSE /\ UNCHANGED vars

(* Five seconds without room in tx_que: the message is lost, and the copy  *)
(* never freed.                                                            *)
QueueTimeout ==
  /\ Running
  /\ caller # NoMsg
  /\ Len(tx_que) = QueueLen
  /\ caller' = NoMsg
  /\ UNCHANGED <<tx_que, tx_sem, taskVars, recvVars, devVars, faultVars>>

-------------------------------------------------------------------------------
(* bt_tx_task.                                                             *)

(* esp_extconn_trans_bt_send_lock.                                         *)
Lock ==
  /\ Running
  /\ task = "lock"
  /\ tx_sem = 1
  /\ tx_sem' = 0
  /\ task' = "receive"
  /\ UNCHANGED <<queueVars, buf, hdrSeq, tx_seq, recvVars, devVars, faultVars>>

(* xQueueReceive.  A message without data is forgotten, and the credit     *)
(* with it.                                                                *)
Receive ==
  /\ Running
  /\ task = "receive"
  /\ tx_que # << >>
  /\ buf' = Head(tx_que)
  /\ tx_que' = Tail(tx_que)
  /\ \/ buf' \notin Empty /\ task' = "build" /\ UNCHANGED creditLost
     \/ buf' \in Empty /\ task' = "lock" /\ creditLost' = TRUE
  /\ UNCHANGED <<caller, tx_sem, hdrSeq, tx_seq, recvVars, devVars,
                 numberLost, clearFailed, faults, aborted>>

(* The number is taken before the allocation.                              *)
BuildNumberingFirst ==
  /\ Running
  /\ task = "build"
  /\ hdrSeq' = tx_seq
  /\ tx_seq' = (tx_seq + 1) % SeqMod
  /\ \/ task' = "send" /\ UNCHANGED <<creditLost, faults>>
     \/ Fault /\ task' = "lock" /\ creditLost' = TRUE
  /\ UNCHANGED <<queueVars, tx_sem, buf, recvVars, devVars,
                 numberLost, clearFailed, aborted>>

(* The header: a sequence number, or no memory.  The message is then       *)
(* dropped, and the credit with it.                                        *)
Build ==
  /\ Running
  /\ task = "build"
  /\ \/ /\ hdrSeq' = tx_seq
        /\ tx_seq' = (tx_seq + 1) % SeqMod
        /\ task' = "send"
        /\ UNCHANGED <<creditLost, faults>>
     \/ /\ Fault
        /\ task' = "lock"
        /\ creditLost' = TRUE
        /\ UNCHANGED <<hdrSeq, tx_seq>>
  /\ UNCHANGED <<queueVars, tx_sem, buf, recvVars, devVars,
                 numberLost, clearFailed, aborted>>

(* The message reaches the target, which may or may not lower its bit      *)
(* while it works on it.                                                   *)
Arrives ==
  /\ target' = buf
  /\ arrived' = buf
  /\ devSeq' = hdrSeq
  /\ w1' \in {w1, FALSE}
  /\ UNCHANGED toHost

(* The credit is given back where it was taken, as a lock would be.        *)
SendPacketUnlocking ==
  /\ Running
  /\ task = "send"
  /\ sdio_mutex = "nobody"
  /\ task' = "lock"
  /\ tx_sem' = 1
  /\ Arrives
  /\ UNCHANGED <<queueVars, buf, hdrSeq, tx_seq, recvVars, faultVars>>

(* An error is retried.                                                    *)
SendPacketRetrying ==
  /\ Running
  /\ task = "send"
  /\ sdio_mutex = "nobody"
  /\ Arrives
  /\ \/ task' = "lock" /\ UNCHANGED faults
     \/ Fault /\ UNCHANGED task
  /\ UNCHANGED <<queueVars, tx_sem, buf, hdrSeq, tx_seq, recvVars,
                 numberLost, creditLost, clearFailed, aborted>>

(* An error ends the task, as it ends wifi_send_task.                      *)
SendPacketReturning ==
  /\ Running
  /\ task = "send"
  /\ sdio_mutex = "nobody"
  /\ Arrives
  /\ \/ task' = "lock" /\ UNCHANGED faults
     \/ Fault /\ task' = "gone"
  /\ UNCHANGED <<queueVars, tx_sem, buf, hdrSeq, tx_seq, recvVars,
                 numberLost, creditLost, clearFailed, aborted>>

(* esp_extconn_sdio_send_packet under sdio_mutex.  An error is logged and  *)
(* forgotten; whether the target got the message depends on the error.     *)
SendPacket ==
  /\ Running
  /\ task = "send"
  /\ sdio_mutex = "nobody"
  /\ task' = "lock"
  /\ \/ Arrives /\ UNCHANGED <<numberLost, creditLost, faults>>
     \/ Fault /\ Arrives /\ UNCHANGED <<numberLost, creditLost>>
     \/ Fault /\ numberLost' = TRUE /\ creditLost' = TRUE /\ UNCHANGED devVars
  /\ UNCHANGED <<queueVars, tx_sem, buf, hdrSeq, tx_seq, recvVars,
                 clearFailed, aborted>>

-------------------------------------------------------------------------------
(* trans_recv_task, as far as it serves TOHOST_BIT0.                       *)

(* The interrupts are read; if that fails the task returns.                *)
GetIntr ==
  /\ Running
  /\ receiver = "wait"
  /\ toHost
  /\ sdio_mutex = "nobody"
  /\ \/ receiver' = "clear" /\ UNCHANGED faults
     \/ Fault /\ receiver' = "gone"
  /\ UNCHANGED <<queueVars, tx_sem, taskVars, sdio_mutex, devVars,
                 numberLost, creditLost, clearFailed, aborted>>

(* handle_intr1 takes sdio_mutex and clears the interrupt.  After a        *)
(* failure it gives the mutex back and goes on all the same.               *)
ClearIntr ==
  /\ Running
  /\ receiver = "clear"
  /\ sdio_mutex = "nobody"
  /\ \/ toHost' = FALSE /\ sdio_mutex' = "receiver" /\ UNCHANGED <<clearFailed, faults>>
     \/ Fault /\ clearFailed' = TRUE /\ UNCHANGED <<toHost, sdio_mutex>>
  /\ receiver' = "read"
  /\ UNCHANGED <<queueVars, tx_sem, taskVars, w1, target, arrived, devSeq,
                 numberLost, creditLost, aborted>>

(* config_w1 is read; it stays 0 if that fails.                            *)
ReadW1 ==
  /\ Running
  /\ receiver = "read"
  /\ sdio_mutex' = "nobody"
  /\ \/ receiver' = (IF w1 THEN "give" ELSE "wait") /\ UNCHANGED <<creditLost, faults>>
     \/ Fault /\ receiver' = "wait" /\ creditLost' = TRUE
  /\ UNCHANGED <<queueVars, tx_sem, taskVars, devVars,
                 numberLost, clearFailed, aborted>>

(* esp_extconn_trans_bt_send_unlock: tx_sem counts to one.                 *)
Give ==
  /\ Running
  /\ receiver = "give"
  /\ tx_sem' = 1
  /\ receiver' = "wait"
  /\ UNCHANGED <<queueVars, taskVars, sdio_mutex, devVars, faultVars>>

-------------------------------------------------------------------------------
(* The target has room again.                                              *)
Ready ==
  /\ target # NoMsg
  /\ target' = NoMsg
  /\ w1' = TRUE
  /\ toHost' = TRUE
  /\ UNCHANGED <<queueVars, tx_sem, taskVars, recvVars, arrived, devSeq, faultVars>>

Next ==
  \/ \E m \in Msgs : SendData(m)
  \/ Queue \/ QueueTimeout
  \/ Lock \/ Receive \/ Build \/ SendPacket
  \/ GetIntr \/ ClearIntr \/ ReadW1 \/ Give
  \/ Ready

Spec == Init /\ [][Next]_vars

-------------------------------------------------------------------------------
(* Properties.                                                             *)

(* The type invariant.                                                     *)
TypeOK ==
  /\ caller \in Msgs \cup {NoMsg}
  /\ tx_que \in Seq(Msgs)
  /\ Len(tx_que) <= QueueLen
  /\ tx_sem \in {0, 1}
  /\ task \in {"lock", "receive", "build", "send"}
  /\ buf \in Msgs \cup {NoMsg}
  /\ task \in {"build", "send"} => buf \in Msgs
  /\ hdrSeq \in 0 .. SeqMod - 1
  /\ tx_seq \in 0 .. SeqMod - 1
  /\ receiver \in {"wait", "clear", "read", "give", "gone"}
  /\ sdio_mutex \in {"nobody", "receiver"}
  /\ toHost \in BOOLEAN
  /\ w1 \in BOOLEAN
  /\ target \in Msgs \cup {NoMsg}
  /\ arrived \in Msgs \cup {NoMsg}
  /\ devSeq \in 0 .. SeqMod - 1
  /\ numberLost \in BOOLEAN
  /\ creditLost \in BOOLEAN
  /\ clearFailed \in BOOLEAN
  /\ faults \in 0 .. MaxFaults
  /\ aborted \in BOOLEAN

(* Where the credit can be: in tx_sem, with bt_tx_task, in the target, or  *)
(* on its way back.                                                        *)
Places ==
  << tx_sem = 1,
     task # "lock",
     target # NoMsg,
     toHost \/ receiver \in {"clear", "read", "give"} >>

(* There is exactly one credit, in exactly one place, until it is lost at  *)
(* one of the places named by creditLost; a second one can only come from  *)
(* an interrupt handled twice because it could not be cleared.             *)
CreditConserved ==
  ~ clearFailed =>
    /\ \A i, j \in 1 .. 4 : Places[i] /\ Places[j] => i = j
    /\ creditLost <=> \A i \in 1 .. 4 : ~ Places[i]

(* No message reaches the target while it still works on another, although *)
(* bt_tx_task may have held the credit for any time before it had a        *)
(* message; with the same exception.                                       *)
NeverOverrun ==
  [][devSeq' # devSeq /\ ~ clearFailed => target = NoMsg]_vars

(* The numbers the target sees have a gap only behind a failed transfer,   *)
(* however many messages were dropped.                                     *)
NumberedInSequence ==
  [][devSeq' # devSeq /\ ~ numberLost => devSeq' = (devSeq + 1) % SeqMod]_vars

(* Messages are lost, but never reordered or sent twice.                   *)
ImplementsChannel == Channel!Spec

(* The tasks run, sdio_mutex goes to who waits for it, the target works    *)
(* and the five seconds pass.                                              *)
Fairness ==
  /\ WF_vars(Queue) /\ WF_vars(QueueTimeout)
  /\ WF_vars(Lock) /\ WF_vars(Receive) /\ WF_vars(Build)
  /\ SF_vars(SendPacket) /\ SF_vars(GetIntr) /\ SF_vars(ClearIntr)
  /\ WF_vars(ReadW1) /\ WF_vars(Give)
  /\ WF_vars(Ready)

FairSpec == Spec /\ Fairness

(* Every message in tx_que is sent or dropped, unless the credit is lost,  *)
(* nobody is left to bring it back or the system went down.                *)
EveryMessageLeaves ==
  \A m \in Msgs :
    m \in Range(tx_que) ~>
      m \notin Range(tx_que) \/ creditLost \/ receiver = "gone" \/ aborted

(* bt_send_data returns, even if nothing is ever sent again.               *)
CallerReturns == caller # NoMsg ~> caller = NoMsg \/ aborted
=============================================================================
