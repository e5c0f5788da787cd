------------------------------- MODULE RecvPath -------------------------------
(***************************************************************************)
(* The receive path of SIP: trans_recv_task and handle_intr0 in            *)
(* trans_recv.c, esp_extconn_sdio_get_packet in ext_sdio_adapter.c.        *)
(*                                                                         *)
(* What the target sends is one long string of bytes, of which ends[n] is  *)
(* the end of packet n; packet n carries the number n - 1.  The host knows *)
(* the length of the string modulo RX_BYTE_MAX and counts what it has read *)
(* in an unsigned word, total_rx.  An interrupt says that there is more.   *)
(* A unit of length stands for four bytes, which the lengths of packets    *)
(* are multiples of; a header takes three.                                 *)
(***************************************************************************)
EXTENDS Integers, Sequences

CONSTANTS
  HdrLen,       \* sizeof(struct sip_hdr)
  Sizes,        \* lengths of packets, with their headers
  RxByteMax,    \* RX_BYTE_MAX
  Word,         \* 2^32, where total_rx wraps
  RecvBuf,      \* RECV_BUF_LEN
  MaxPending,   \* what the target keeps for the host at most
  MaxPackets,   \* bound: packets sent
  MaxFaults     \* bound: accesses and transfers that fail

ASSUME RecvAssumption ==
  /\ HdrLen \in Nat \ {0}
  /\ Sizes \subseteq Nat /\ \A s \in Sizes : HdrLen <= s
  /\ RxByteMax \in Nat /\ RecvBuf \in Nat \ {0} /\ MaxPackets \in Nat /\ MaxFaults \in Nat
  /\ MaxPending \in Nat /\ MaxPending < RxByteMax
  /\ Word \in Nat /\ \E k \in 1 .. Word : Word = k * RxByteMax

VARIABLES
  ends,         \* of the packets the target has sent
  taken,        \* how far the target has handed out its bytes
  newPkt,       \* SLCHOST_SLC0_RX_NEW_PACKET_INT_RAW
  receiver,     \* where trans_recv_task stands
  total_rx,     \* host->total_rx
  lo, hi,       \* recv_buf: what is left to parse
  rxseq,        \* sip->rxseq
  handled,      \* history: the packet handed on last,
  missed,       \*   the last get_packet left with an error,
  torn,         \*   bytes were read that total_rx does not count,
  cut,          \*   there was more to read than recv_buf holds,
  garbled,      \*   what is no whole header was counted in rxseq
  faults

devVars  == <<ends, newPkt>>
readVars == <<taken, total_rx, missed, torn, cut>>
bufVars  == <<lo, hi>>
seqVars  == <<rxseq, handled, garbled>>
vars == <<devVars, readVars, bufVars, seqVars, receiver, faults>>

Start(n) == IF n = 1 THEN 0 ELSE ends[n - 1]
End == Start(Len(ends) + 1)

(* esp_extconn_sdio_get_rx_data_size, in unsigned 32-bit arithmetic.       *)
DataSize == (((End % RxByteMax) + RxByteMax - total_rx) % Word) % RxByteMax

Least(a, b) == IF a < b THEN a ELSE b

Fault == faults < MaxFaults /\ faults' = faults + 1

Init ==
  /\ ends = << >>
  /\ taken = 0
  /\ newPkt = FALSE
  /\ receiver = "wait"
  /\ total_rx = 0
  /\ lo = 0 /\ hi = 0
  /\ rxseq = 0
  /\ handled = 0
  /\ missed = FALSE /\ torn = FALSE /\ cut = FALSE /\ garbled = FALSE
  /\ faults = 0

-------------------------------------------------------------------------------
(* The target sends a packet.                                              *)
Produce(s) ==
  /\ Len(ends) < MaxPackets
  /\ End + s - taken <= MaxPending
  /\ ends' = Append(ends, End + s)
  /\ newPkt' = TRUE
  /\ UNCHANGED <<readVars, bufVars, seqVars, receiver, faults>>

(* The interrupts are read; if that fails the task returns.                *)
GetIntr ==
  /\ receiver = "wait"
  /\ newPkt
  /\ \/ receiver' = "clear" /\ UNCHANGED faults
     \/ Fault /\ receiver' = "gone"
  /\ UNCHANGED <<devVars, readVars, bufVars, seqVars>>

(* What was read is cleared, before it is served; nobody looks whether     *)
(* that worked.                                                            *)
ClearIntr ==
  /\ receiver = "clear"
  /\ \/ newPkt' = FALSE /\ UNCHANGED faults
     \/ Fault /\ UNCHANGED newPkt
  /\ receiver' = "read"
  /\ UNCHANGED <<ends, readVars, bufVars, seqVars>>

(* As in the other modules, a variant of the kind this code invites comes  *)
(* before the operation it varies, and nothing uses it.                    *)

(* The bytes are accounted for, whether they were read or not.             *)
GetPacketFailsAccounting ==
  /\ receiver = "read"
  /\ Fault
  /\ total_rx' = (total_rx + DataSize) % Word
  /\ missed' = TRUE
  /\ receiver' = "wait"
  /\ UNCHANGED <<devVars, taken, torn, cut, bufVars, seqVars>>

(* get_packet fails, reading the length or after any part of the data.     *)
(* handle_intr0 sees a length of 0 and gives up.                           *)
GetPacketFails ==
  /\ receiver = "read"
  /\ Fault
  /\ \E k \in 0 .. Least(DataSize, RecvBuf) :
       /\ taken' = Least(taken + k, End)
       /\ torn' = (torn \/ k > 0)
  /\ missed' = TRUE
  /\ receiver' = "wait"
  /\ UNCHANGED <<devVars, total_rx, cut, bufVars, seqVars>>

(* Fifty polls have found nothing to read.                                 *)
GetPacketTimeout ==
  /\ receiver = "read"
  /\ DataSize = 0
  /\ receiver' = "wait"
  /\ UNCHANGED <<devVars, readVars, bufVars, seqVars, faults>>

(* get_packet reads what there is, as far as it fits into recv_buf.  If    *)
(* total_rx lags the host reads on behind the end, where there is nothing  *)
(* that the target sent.  handle_intr0 gives up what is shorter than a     *)
(* header.                                                                 *)
GetPacket ==
  LET len == Least(DataSize, RecvBuf) IN
  /\ receiver = "read"
  /\ DataSize > 0
  /\ lo' = taken
  /\ hi' = taken + len
  /\ taken' = Least(taken + len, End)
  /\ total_rx' = (total_rx + len) % Word
  /\ cut' = (cut \/ len < DataSize)
  /\ missed' = FALSE
  /\ receiver' = IF len < HdrLen THEN "wait" ELSE "parse"
  /\ UNCHANGED <<devVars, torn, seqVars, faults>>

-------------------------------------------------------------------------------
(* The loop of handle_intr0.                                               *)

(* The header of packet n comes next in recv_buf, and all of it was read.  *)
HeaderIs(n) == lo = Start(n) /\ lo + HdrLen <= taken

(* One packet for each interrupt.                                          *)
BehindOne(n) == receiver' = "wait" /\ UNCHANGED bufVars

(* Behind packet n: the next header, or the end of the buffer.             *)
Behind(n) ==
  IF ends[n] < hi THEN lo' = ends[n] /\ UNCHANGED <<hi, receiver>>
                  ELSE receiver' = "wait" /\ UNCHANGED bufVars

(* The interrupt is cleared when it has been served.                       *)
HandleClearing(n) ==
  /\ receiver = "parse"
  /\ HeaderIs(n)
  /\ n - 1 = rxseq
  /\ rxseq' = rxseq + 1
  /\ handled' = n
  /\ Behind(n)
  /\ newPkt' = FALSE
  /\ UNCHANGED <<ends, readVars, garbled, faults>>

Handle(n) ==
  /\ receiver = "parse"
  /\ HeaderIs(n)
  /\ n - 1 = rxseq
  /\ rxseq' = rxseq + 1
  /\ handled' = n
  /\ Behind(n)
  /\ UNCHANGED <<devVars, readVars, garbled, faults>>

(* The number is logged, and nothing else.                                 *)
RefuseLogging(n) ==
  /\ receiver = "parse"
  /\ HeaderIs(n)
  /\ n - 1 # rxseq
  /\ rxseq' = rxseq + 1
  /\ handled' = n
  /\ Behind(n)
  /\ UNCHANGED <<devVars, readVars, garbled, faults>>

(* A number out of sequence is counted, and the rest of the buffer is      *)
(* dropped.                                                                *)
Refuse(n) ==
  /\ receiver = "parse"
  /\ HeaderIs(n)
  /\ n - 1 # rxseq
  /\ rxseq' = rxseq + 1
  /\ receiver' = "wait"
  /\ UNCHANGED <<devVars, readVars, bufVars, handled, garbled, faults>>

(* The loop looks for a header in whatever is left, be it less than one:   *)
(* behind the bytes that were read comes what an earlier packet left in    *)
(* recv_buf.  What is no header, or not all of it, has a bad length, which *)
(* is noticed before rxseq is advanced, or a number out of sequence.       *)
(* (That it has all of a header by chance is left out.)                    *)
Garbage ==
  /\ receiver = "parse"
  /\ \A n \in 1 .. Len(ends) : ~ HeaderIs(n)
  /\ \/ UNCHANGED <<rxseq, garbled>>
     \/ rxseq' = rxseq + 1 /\ garbled' = TRUE
  /\ receiver' = "wait"
  /\ UNCHANGED <<devVars, readVars, bufVars, handled, faults>>

Parse ==
  \/ \E n \in 1 .. Len(ends) : Handle(n) \/ Refuse(n)
  \/ Garbage

Read == GetPacketFails \/ GetPacketTimeout \/ GetPacket

Next == (\E s \in Sizes : Produce(s)) \/ GetIntr \/ ClearIntr \/ Read \/ Parse

Spec == Init /\ [][Next]_vars

-------------------------------------------------------------------------------
(* Properties.                                                             *)

(* The type invariant.                                                     *)
TypeOK ==
  /\ ends \in Seq(Nat) /\ Len(ends) <= MaxPackets
  /\ taken \in 0 .. End
  /\ newPkt \in BOOLEAN
  /\ receiver \in {"wait", "clear", "read", "parse", "gone"}
  /\ total_rx \in 0 .. Word - 1
  /\ lo \in Nat /\ hi \in Nat
  /\ receiver = "parse" => lo < hi
  /\ rxseq \in Nat
  /\ handled \in 0 .. Len(ends)
  /\ missed \in BOOLEAN /\ torn \in BOOLEAN /\ cut \in BOOLEAN /\ garbled \in BOOLEAN
  /\ faults \in 0 .. MaxFaults

(* The length the host computes from its word and the target's register is *)
(* what there is to read, however often either wrapped, unless a transfer  *)
(* failed half way.                                                        *)
AccountInStep == ~ torn => DataSize = End - taken

(* As long as there is something to read the host will look, although      *)
(* packets arrive between the reading, the clearing and the serving of an  *)
(* interrupt; unless it has just failed, or the stream is torn or cut.     *)
NoPacketForgotten ==
  taken < End =>
    newPkt \/ receiver \in {"clear", "read", "gone"} \/ missed \/ torn \/ cut

(* All that was read has been handed on: no packet is refused or split     *)
(* between two buffers, unless a transfer failed half way or the buffer    *)
(* was too small.                                                          *)
AllReadIsHandled ==
  receiver # "parse" /\ ~ torn /\ ~ cut => taken = Start(handled + 1)

(* Packets are handed on in order, once and without a gap, whatever was    *)
(* lost before: the path falls silent rather than skip one, unless         *)
(* something that is no whole header was counted as one.                   *)
HandledInSequence ==
  [][handled' # handled /\ ~ garbled => handled' = handled + 1]_vars

(* The tasks run.                                                          *)
Fairness == WF_vars(GetIntr) /\ WF_vars(ClearIntr) /\ WF_vars(Read) /\ WF_vars(Parse)

FairSpec == Spec /\ Fairness

(* Every packet is handed on, unless a failure left it behind (the next    *)
(* interrupt then brings it), or the stream is torn or cut.                *)
EveryPacketHandled ==
  \A n \in 1 .. MaxPackets :
    Len(ends) >= n ~> handled >= n \/ missed \/ torn \/ cut \/ receiver = "gone"
=============================================================================
