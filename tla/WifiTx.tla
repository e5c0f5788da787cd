-------------------------------- MODULE WifiTx --------------------------------
(***************************************************************************)
(* wifi_send_task of trans_wifi.c and the flow control of the Wi-Fi SDIO   *)
(* function in ext_sdio_adapter.c: frames leave the transmit list one by   *)
(* one, wait until the target has room, get a sequence number and cross    *)
(* the SDIO bus, which other tasks use too (sdio_mutex).                   *)
(*                                                                         *)
(* The target counts the receive buffers it ever offered in a 12-bit token *)
(* register; the host counts in total_tx those it ever filled.  What lies  *)
(* between the two is what the host may still send.                        *)
(*                                                                         *)
(* The transmit list is a sequence here, and each of its operations one    *)
(* step: TxList has its pointers, lock and loops, and shows that they      *)
(* amount to this.                                                         *)
(***************************************************************************)
EXTENDS TxFrames, Integers, Sequences, Functions, FiniteSets

CONSTANTS
  FrameLen,      \* bytes of a frame, with its SIP header
  TxBlks,        \* sip->tx_blksz, announced by the target
  TxBufferMax,   \* TX_BUFFER_MAX: where token and total_tx wrap
  DevBufs,       \* receive buffers of the target, 512 bytes each
  SeqMod,        \* where sip->txseq wraps
  MaxFaults      \* bound: SDIO transfers that fail in a behaviour

(* roundup(x, y) of esp_sip.h is a rounding only if y is a power of two.   *)
SendLen(b) == ((FrameLen[b] + TxBlks - 1) \div TxBlks) * TxBlks

(* buffer_used of esp_extconn_sdio_send_packet.                            *)
BuffersUsed(len) == (len + 511) \div 512

(* A frame the target has no room for when it is idle would never be sent, *)
(* and tokens that wrap at the number of buffers could not tell a full     *)
(* target from an idle one.                                                *)
ASSUME CreditAssumption ==
  /\ FrameLen \in [Bufs -> Nat \ {0}]
  /\ TxBlks \in {1, 2, 4, 8, 16, 32, 64, 128, 256, 512, 1024, 2048}
  /\ DevBufs \in Nat \ {0}
  /\ TxBufferMax \in Nat
  /\ DevBufs < TxBufferMax
  /\ \A b \in Bufs : BuffersUsed(SendLen(b)) <= DevBufs
  /\ SeqMod \in Nat \ {0, 1}
  /\ MaxFaults \in Nat

VARIABLES
  queue,       \* the transmit list
  needSend,    \* WIFI_NEED_SEND
  pool,        \* buffers the driver and the stack may use
  pending,     \* a disconnect command whose list_clear is done, not inserted
  txdq,        \* frames given to net80211_en_txdq, not completed yet
  sender,      \* where wifi_send_task stands
  eb,          \* its frame
  num,         \* what get_buffer_size said last
  hdrSeq,      \* shdr->seq in send_buf
  busUser,     \* who holds sdio_mutex across steps
  total_tx,    \* host->total_tx
  txseq,       \* sip->txseq
  token,       \* ESP_SDIO_TOKEN_RDATA of the target
  devUsed,     \* buffers of the target that hold data
  devSeq,      \* the sequence number of the last frame the target got
  faults       \* transfers that failed so far

frameVars  == <<queue, needSend, pool, pending, txdq>>
senderVars == <<sender, eb, num, hdrSeq>>
hostVars   == <<total_tx, txseq>>
devVars    == <<token, devUsed, devSeq>>
vars == <<frameVars, senderVars, busUser, hostVars, devVars, faults>>

(* trans_wifi_init runs after the BOOTUP and INIT commands of esp_sip.c:   *)
(* these used a buffer each, which the target has processed, and txseq     *)
(* counts INIT.                                                            *)
Init ==
  /\ queue = << >>
  /\ needSend = FALSE
  /\ pool = Bufs
  /\ pending = {}
  /\ txdq = {}
  /\ sender = "wait"
  /\ eb = NoBuf
  /\ num = 0
  /\ hdrSeq = 0
  /\ busUser = "nobody"
  /\ total_tx = 2 % TxBufferMax
  /\ txseq = 1
  /\ token = (2 + DevBufs) % TxBufferMax
  /\ devUsed = 0
  /\ devSeq = 0
  /\ faults = 0

-------------------------------------------------------------------------------
(* The Wi-Fi driver: wifi_send_cmd and wifi_send_data.                     *)

Enqueue(b) ==
  /\ queue' = IF GoesFirst(b) THEN <<b>> \o queue ELSE Append(queue, b)
  /\ needSend' = TRUE

Submit(b) ==
  /\ b \in pool
  /\ ~ ClearsList(b)
  /\ Enqueue(b)
  /\ pool' = pool \ {b}
  /\ UNCHANGED <<pending, txdq, senderVars, busUser, hostVars, devVars, faults>>

(* The places of the frames that list_clear links again ...                *)
Kept == {i \in DOMAIN queue : ~ Recyclable(queue[i])}

(* ... behind each other, in the order in which its loop meets them.  This *)
(* is what SIP_CMD_SETSTA with set = 0 does first ...                      *)
ClearFor(b) ==
  /\ b \in pool
  /\ ClearsList(b)
  /\ \E place \in [1 .. Cardinality(Kept) -> Kept] :
       /\ \A i, j \in DOMAIN place : i < j => place[i] < place[j]
       /\ queue' = [i \in DOMAIN place |-> queue[place[i]]]
  /\ pool' = (pool \cup {x \in Range(queue) : Recyclable(x)}) \ {b}
  /\ pending' = pending \cup {b}
  /\ UNCHANGED <<needSend, txdq, senderVars, busUser, hostVars, devVars, faults>>

(* ... and joins it afterwards.                                            *)
SubmitAfterClear(b) ==
  /\ b \in pending
  /\ Enqueue(b)
  /\ pending' = pending \ {b}
  /\ UNCHANGED <<pool, txdq, senderVars, busUser, hostVars, devVars, faults>>

(* The stack completes a frame it asked to be told of.                     *)
Completed(b) ==
  /\ b \in txdq
  /\ txdq' = txdq \ {b}
  /\ pool' = pool \cup {b}
  /\ UNCHANGED <<queue, needSend, pending, senderVars, busUser, hostVars,
                 devVars, faults>>

-------------------------------------------------------------------------------
(* wifi_send_task.                                                         *)

Wake ==
  /\ sender = "wait"
  /\ needSend
  /\ sender' = "remove"
  /\ UNCHANGED <<frameVars, eb, num, hdrSeq, busUser, hostVars, devVars, faults>>

Remove ==
  /\ sender = "remove"
  /\ \/ /\ queue # << >>
        /\ eb' = Head(queue)
        /\ queue' = Tail(queue)
        /\ sender' = "poll"
        /\ UNCHANGED needSend
     \/ /\ queue = << >>
        /\ needSend' = FALSE
        /\ sender' = "wait"
        /\ UNCHANGED <<queue, eb>>
  /\ UNCHANGED <<pool, pending, txdq, num, hdrSeq, busUser, hostVars, devVars,
                 faults>>

(* esp_extconn_sdio_get_buffer_size.                                       *)
BufferSize == (token + TxBufferMax - total_tx) % TxBufferMax

(* The loop waits only while there is no room at all.                      *)
PollForOne ==
  /\ sender = "poll"
  /\ busUser = "nobody"
  /\ num' = BufferSize
  /\ sender' = IF num' = 0 THEN "poll" ELSE "number"
  /\ UNCHANGED <<frameVars, eb, hdrSeq, busUser, hostVars, devVars, faults>>

(* As in TxList, variants with a slip of the kind this code invites come   *)
(* before the operation they vary, and nothing uses them.                  *)

(* Each round of the loop takes a sequence number.                         *)
PollNumbering ==
  /\ sender = "poll"
  /\ busUser = "nobody"
  /\ num' = BufferSize
  /\ txseq' = (txseq + 1) % SeqMod
  /\ sender' = IF num' * 512 < SendLen(eb) THEN "poll" ELSE "number"
  /\ UNCHANGED <<frameVars, eb, hdrSeq, busUser, total_tx, devVars, faults>>

(* After a read that fails the task goes on with the next frame.           *)
PollGivingUp ==
  /\ sender = "poll"
  /\ busUser = "nobody"
  /\ \/ /\ num' = BufferSize
        /\ sender' = IF num' * 512 < SendLen(eb) THEN "poll" ELSE "number"
        /\ UNCHANGED <<eb, faults>>
     \/ /\ faults < MaxFaults
        /\ num' = 0
        /\ faults' = faults + 1
        /\ sender' = "wait"
        /\ eb' = NoBuf
  /\ UNCHANGED <<frameVars, hdrSeq, busUser, hostVars, devVars>>

(* A round of the loop that waits for room, with sdio_mutex around the     *)
(* read.  A read that fails leaves num at 0 and counts as no room.         *)
Poll ==
  /\ sender = "poll"
  /\ busUser = "nobody"
  /\ \/ /\ num' = BufferSize
        /\ UNCHANGED faults
     \/ /\ faults < MaxFaults
        /\ num' = 0
        /\ faults' = faults + 1
  /\ sender' = IF num' * 512 < SendLen(eb) THEN "poll" ELSE "number"
  /\ UNCHANGED <<frameVars, eb, hdrSeq, busUser, hostVars, devVars>>

(* Every frame is numbered: the condition in front of the assignment is    *)
(* always true.                                                            *)
Number ==
  /\ sender = "number"
  /\ hdrSeq' = txseq
  /\ txseq' = (txseq + 1) % SeqMod
  /\ sender' = "send"
  /\ UNCHANGED <<frameVars, eb, num, busUser, total_tx, devVars, faults>>

(* esp_extconn_sdio_send_packet, under sdio_mutex: the data crosses the    *)
(* bus ...                                                                 *)
Transfer ==
  /\ sender = "send"
  /\ busUser = "nobody"
  /\ busUser' = "wifi_send"
  /\ devUsed' = devUsed + BuffersUsed(SendLen(eb))
  /\ devSeq' = hdrSeq
  /\ sender' = "sent"
  /\ UNCHANGED <<frameVars, eb, num, hdrSeq, hostVars, token, faults>>

(* A packet is counted as one buffer.                                      *)
AccountPackets ==
  /\ sender = "sent"
  /\ total_tx' = IF total_tx + 1 >= TxBufferMax THEN 0 ELSE total_tx + 1
  /\ busUser' = "nobody"
  /\ sender' = "finish"
  /\ UNCHANGED <<frameVars, eb, num, hdrSeq, txseq, devVars, faults>>

(* The reduction at the end of esp_extconn_sdio_send_packet.               *)
Wrapped(total) == IF total >= TxBufferMax THEN total - TxBufferMax ELSE total

(* ... and is counted.                                                     *)
Account ==
  /\ sender = "sent"
  /\ total_tx' = Wrapped(total_tx + BuffersUsed(SendLen(eb)))
  /\ busUser' = "nobody"
  /\ sender' = "finish"
  /\ UNCHANGED <<frameVars, eb, num, hdrSeq, txseq, devVars, faults>>

(* A transfer fails, some or all of its buffers filled.  The task gives    *)
(* the mutex back and returns: nothing is ever sent again.                 *)
TransferFails ==
  /\ sender = "send"
  /\ busUser = "nobody"
  /\ faults < MaxFaults
  /\ faults' = faults + 1
  /\ \E part \in 0 .. BuffersUsed(SendLen(eb)) : devUsed' = devUsed + part
  /\ devSeq' \in {devSeq, hdrSeq}
  /\ sender' = "dead"
  /\ UNCHANGED <<frameVars, eb, num, hdrSeq, busUser, hostVars, token>>

(* net80211_en_txdq if someone waits for the completion, esp_sip_recycle   *)
(* otherwise.                                                              *)
Finish ==
  /\ sender = "finish"
  /\ \/ txdq' = txdq \cup {eb} /\ UNCHANGED pool
     \/ pool' = pool \cup {eb} /\ UNCHANGED txdq
  /\ eb' = NoBuf
  /\ sender' = "wait"
  /\ UNCHANGED <<queue, needSend, pending, num, hdrSeq, busUser, hostVars,
                 devVars, faults>>

-------------------------------------------------------------------------------
(* The other tasks that use the bus, and the target.                       *)

(* trans_recv_task and bt_tx_task hold sdio_mutex while they transfer.     *)
OtherLocks ==
  /\ busUser = "nobody"
  /\ busUser' = "other"
  /\ UNCHANGED <<frameVars, senderVars, hostVars, devVars, faults>>

OtherUnlocks ==
  /\ busUser = "other"
  /\ busUser' = "nobody"
  /\ UNCHANGED <<frameVars, senderVars, hostVars, devVars, faults>>

(* The target has processed a buffer and offers it again.                  *)
FreeBuffer ==
  /\ devUsed > 0
  /\ devUsed' = devUsed - 1
  /\ token' = IF token + 1 = TxBufferMax THEN 0 ELSE token + 1
  /\ UNCHANGED <<frameVars, senderVars, busUser, hostVars, devSeq, faults>>

Next ==
  \/ \E b \in Bufs :
       \/ Submit(b)
       \/ ClearFor(b)
       \/ SubmitAfterClear(b)
       \/ Completed(b)
  \/ Wake
  \/ Remove
  \/ Poll
  \/ Number
  \/ Transfer
  \/ Account
  \/ TransferFails
  \/ Finish
  \/ OtherLocks
  \/ OtherUnlocks
  \/ FreeBuffer

Spec == Init /\ [][Next]_vars

-------------------------------------------------------------------------------
(* Properties.                                                             *)

(* The type invariant.                                                     *)
TypeOK ==
  /\ queue \in Seq(Bufs)
  /\ needSend \in BOOLEAN
  /\ pool \subseteq Bufs
  /\ pending \subseteq Bufs
  /\ txdq \subseteq Bufs
  /\ sender \in {"wait", "remove", "poll", "number", "send", "sent", "finish",
                 "dead"}
  /\ eb \in Pointer
  /\ sender \in {"poll", "number", "send", "sent", "finish", "dead"} =>
       eb \in Bufs
  /\ num \in 0 .. TxBufferMax - 1
  /\ hdrSeq \in 0 .. SeqMod - 1
  /\ busUser \in {"nobody", "wifi_send", "other"}
  /\ total_tx \in 0 .. TxBufferMax - 1
  /\ txseq \in 0 .. SeqMod - 1
  /\ token \in 0 .. TxBufferMax - 1
  /\ devUsed \in Nat
  /\ devSeq \in 0 .. SeqMod - 1
  /\ faults \in 0 .. MaxFaults

(* What the host computes from token and total_tx is what the target has   *)
(* free, modulo the wrap of both counters; but for a frame that crossed    *)
(* the bus and is not counted yet, which only its sender could see.  After *)
(* a failed transfer, which ends the task, the host takes for free what    *)
(* the transfer filled: at most what the frame needs, and never more, as   *)
(* the target goes on to free its buffers.                                 *)
Uncounted == IF sender = "sent" THEN BuffersUsed(SendLen(eb)) ELSE 0
CreditsExact ==
  \E part \in IF sender = "dead" THEN 0 .. BuffersUsed(SendLen(eb))
                                ELSE {Uncounted} :
    BufferSize = (DevBufs - devUsed + part) % TxBufferMax

(* A frame never finds the target without room: the room is read under     *)
(* sdio_mutex and used after it was given and taken again, while the other *)
(* tasks use the bus and the target frees buffers.                         *)
Reserved ==
  IF sender \in {"number", "send"} THEN BuffersUsed(SendLen(eb)) ELSE 0
NeverOverrun == devUsed + Reserved <= DevBufs

(* The target gets the frames numbered without a gap or a repetition, as   *)
(* its own check of the sequence demands, however often the task had to    *)
(* wait for room.                                                          *)
NumberedInSequence ==
  [][sender = "send" /\ sender' = "sent" =>
       devSeq' = (devSeq + 1) % SeqMod]_vars

(* The tasks run, sdio_mutex goes to a task that keeps waiting for it, its *)
(* holders give it back (the longest holds it for RECV_WAIT_MS), the       *)
(* target processes what it received and the stack completes its frames.   *)
Fairness ==
  /\ WF_vars(Wake)
  /\ WF_vars(Remove)
  /\ SF_vars(Poll)
  /\ WF_vars(Number)
  /\ SF_vars(Transfer)
  /\ WF_vars(Account)
  /\ WF_vars(Finish)
  /\ WF_vars(OtherUnlocks)
  /\ WF_vars(FreeBuffer)
  /\ \A b \in Bufs : WF_vars(SubmitAfterClear(b)) /\ WF_vars(Completed(b))

FairSpec == Spec /\ Fairness

(* A frame the driver submits comes back to the pool, sent or recycled,    *)
(* unless a transfer failed; a read of the credits that failed is retried. *)
(* SIP_CMD_TEST overtakes, and without end would starve the others.        *)
EveryFrameReturns ==
  (\A t \in Bufs : GoesFirst(t) => <>[](t \in pool)) =>
    \A b \in Bufs : b \in Range(queue) ~> b \in pool \/ sender = "dead"
=============================================================================
