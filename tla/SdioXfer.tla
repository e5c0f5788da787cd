------------------------------ MODULE SdioXfer ------------------------------
(***************************************************************************)
(* One transfer of ext_sdio_adapter.c, esp_extconn_sdio_send_packet or     *)
(* esp_extconn_sdio_get_packet, as the CMD53 commands it is split into:    *)
(* whole blocks first, then the rest in bytes, rounded up to words.        *)
(*                                                                         *)
(* For function 1 the target learns from a command's address how much of   *)
(* the packet is still to come: up to ESP_SLAVE_CMD53_END_ADDR.  What goes *)
(* over the bus behind that address it ignores.                            *)
(*                                                                         *)
(* The names XferInit to XferSpec tell this specification from FwDownload, *)
(* with which TransferProofs joins it.                                     *)
(***************************************************************************)
EXTENDS Lengths

CONSTANTS
  Frames,       \* lengths of what wifi_send_task sends
  TxBlks,       \* what sip->tx_blksz may be, to which it rounds them up
  Commands,     \* lengths of what esp_sip_send_cmd sends
  Messages,     \* lengths of what bt_tx_task sends
  Available     \* what the target may have to be read

Block   == 512
EndAddr == 129024  \* ESP_SLAVE_CMD53_END_ADDR
RecvBuf == 32768   \* RECV_BUF_LEN
Wanted  == 1034    \* of function 2

(* The length wifi_send_task hands down.                                   *)
SendLen(n, blk) == Roundup(n, blk)

(* A frame fits into send_buf, a command and the answers to it are small.  *)
(* tx_blksz is taken from the target unchecked; roundup rounds if it is a  *)
(* power of two.                                                           *)
ASSUME LengthsAssumption ==
  /\ TxBlks \subseteq {1, 2, 4, 8, 16, 32, 64, 128, 256, 512, 1024, 2048}
  /\ Frames \subseteq Nat \ {0}
  /\ \A n \in Frames, blk \in TxBlks : SendLen(n, blk) <= EndAddr
  /\ Commands \subseteq 1 .. Block - 1
  /\ Messages \subseteq Nat \ {0}
  /\ Available \subseteq Nat \ {0}

VARIABLES
  stage,        \* "loop", "done" or "failed"
  dir, fn,      \* what is transferred: "send" or "get", over function 1 or 2
  length,       \* how much of it
  remain,       \* len_remain
  target,       \* what is to come by the address of the last command
  last,         \* the last command: where in the buffer, how much
  filled,       \* buffers filled in the target
  counted       \* what total_tx or total_rx was advanced by

xferVars == <<stage, dir, fn, length, remain, target, last, filled, counted>>

Request(d, f, n) ==
  /\ dir = d /\ fn = f /\ length = n
  /\ remain = n /\ target = n

XferInit ==
  /\ stage = "loop"
  /\ \/ \E n \in Frames, blk \in TxBlks : Request("send", 1, SendLen(n, blk))
     \/ \E n \in Commands : Request("send", 1, n)
     \/ \E n \in Messages : Request("send", 2, n)
     \/ \E n \in Available : \/ Request("get", 1, Least(n, RecvBuf))
                             \/ Request("get", 2, Least(n, Wanted))
  /\ last = [from |-> 0, count |-> 0]
  /\ filled = 0
  /\ counted = 0

-------------------------------------------------------------------------------
(* As in the other modules, variants of the kind this code invites come    *)
(* before the operations they vary, and nothing uses them.                 *)

(* The last block is not whole.                                            *)
WholeBlocksUp(n) == ((n + Block - 1) \div Block) * Block

WholeBlocks(n) == (n \div Block) * Block

(* The bytes of the next command.                                          *)
Count(n) == IF WholeBlocks(n) > 0 THEN WholeBlocks(n) ELSE Roundup(n, 4)

(* len_to_send.                                                            *)
Moved(n) == IF WholeBlocks(n) > 0 THEN WholeBlocks(n) ELSE n

(* get_packet takes the address from the whole length, like send_packet.   *)
AddressOfWhole == IF fn = 1 THEN EndAddr - length ELSE 0

(* get_packet takes it from what remains, send_packet once.                *)
Address ==
  IF fn # 1 THEN 0
  ELSE IF dir = "get" THEN EndAddr - remain ELSE EndAddr - length

BuffersOf(n) == (n + Block - 1) \div Block

(* One command.  If it fails, the transfer fails, whatever came through.   *)
Command ==
  /\ stage = "loop"
  /\ remain > 0
  /\ last' = [from |-> length - remain, count |-> Count(remain)]
  /\ filled' = filled + BuffersOf(Moved(remain))
  /\ \/ /\ remain' = remain - Moved(remain)
        /\ target' = (EndAddr - Address) - Least(Count(remain), EndAddr - Address)
        /\ stage' = stage
     \/ /\ stage' = "failed"
        /\ UNCHANGED <<remain, target>>
  /\ UNCHANGED <<dir, fn, length, counted>>

(* Whole blocks are counted only.                                          *)
BuffersUsedWhole(n) == n \div Block

(* buffer_used.                                                            *)
BuffersUsed(n) == (n + Block - 1) \div Block

(* Transfers of function 2 have no credits.                                *)
Account ==
  /\ stage = "loop"
  /\ remain = 0
  /\ counted' = IF fn = 2 THEN 0 ELSE IF dir = "send" THEN BuffersUsed(length) ELSE length
  /\ stage' = "done"
  /\ UNCHANGED <<dir, fn, length, remain, target, last, filled>>

XferNext == Command \/ Account

XferSpec == XferInit /\ [][XferNext]_xferVars

-------------------------------------------------------------------------------
(* Properties.                                                             *)

(* The type invariant.                                                     *)
XferTypeOK ==
  /\ stage \in {"loop", "done", "failed"}
  /\ dir \in {"send", "get"} /\ fn \in {1, 2}
  /\ length \in Nat \ {0}
  /\ remain \in Nat /\ target \in Nat
  /\ last \in [from : Nat, count : Nat]
  /\ filled \in Nat /\ counted \in Nat

(* send_packet does not move the address on: a rest behind whole blocks    *)
(* goes where the blocks went.                                             *)
RestBehindBlocks == dir = "send" /\ WholeBlocks(length) \notin {0, length}

(* Host and target agree after every command how much of a packet of       *)
(* function 1 is still to come: the rounding is ignored, and the next      *)
(* packet begins where the host begins it.  There is one exception, which  *)
(* tx_blksz = 512 or a multiple keeps from happening: of a frame with a    *)
(* rest behind whole blocks the target knows, when the host is done, no    *)
(* more than the rest.                                                     *)
TargetAgrees ==
  fn = 1 /\ stage # "failed" =>
    target = IF RestBehindBlocks /\ remain = 0
             THEN length - Roundup(length - WholeBlocks(length), 4) ELSE remain

(* A command is one that CMD53 can do: blocks, or at most one block in     *)
(* bytes, and those in whole words.                                        *)
CommandPossible ==
  \/ last.count % Block = 0
  \/ last.count < Block /\ last.count % 4 = 0

(* send_packet reads no more than three bytes behind the packet it sends,  *)
(* wherever that ends, and get_packet writes no more than three behind the *)
(* one it reads, and none behind recv_buf.                                 *)
WithinBuffer ==
  /\ last.from + last.count <= length + 3
  /\ dir = "get" => last.from + last.count <= RecvBuf

(* What the host counts is what the target counts: buffers that were       *)
(* filled, or bytes; nothing for function 2.                               *)
CountsAgree ==
  stage = "done" => counted = IF fn = 2 THEN 0
                           ELSE IF dir = "send" THEN filled ELSE length - remain
=============================================================================
