----------------------------- MODULE WifiTxProofs -----------------------------
(***************************************************************************)
(* Theorems about the flow control of WifiTx, for every size of the        *)
(* target, every wrap of the counters, every frame length and any number   *)
(* of failed reads.                                                        *)
(***************************************************************************)
EXTENDS WifiTx, FiniteSetTheorems, TLAPS

(* Reducing a number below two turns of the counter.                       *)
LEMMA ModOneTurn ==
  ASSUME NEW M \in Nat, NEW x \in 0 .. M - 1
  PROVE  x % M = x
OBVIOUS

LEMMA ModTwoTurns ==
  ASSUME NEW M \in Nat, NEW x \in 0 .. M - 1
  PROVE  (x + M) % M = x
OBVIOUS

(* roundup and buffer_used on the frames of the model.                     *)
LEMMA FrameSizes ==
  ASSUME NEW b \in Bufs
  PROVE  /\ SendLen(b) \in Nat
         /\ BuffersUsed(SendLen(b)) \in 0 .. DevBufs
         /\ \A n \in Nat : ~ (n * 512 < SendLen(b)) => BuffersUsed(SendLen(b)) <= n
<1>1. TxBlks \in Nat \ {0} /\ FrameLen[b] \in Nat
  BY CreditAssumption
<1>2. (FrameLen[b] + TxBlks - 1) \div TxBlks \in Nat
  BY <1>1
<1>3. SendLen(b) \in Nat
  BY <1>1, <1>2 DEF SendLen
<1>4. BuffersUsed(SendLen(b)) \in Nat
  BY <1>3 DEF BuffersUsed
<1>5. BuffersUsed(SendLen(b)) <= DevBufs
  BY CreditAssumption
<1>6. \A n \in Nat : ~ (n * 512 < SendLen(b)) => BuffersUsed(SendLen(b)) <= n
  BY <1>3 DEF BuffersUsed
<1>7. QED
  BY <1>3, <1>4, <1>5, <1>6, CreditAssumption

-------------------------------------------------------------------------------
(* What the target could still take, as far as the host has counted.       *)
Room == DevBufs - devUsed + Uncounted

(* CreditsExact without the remainder: token is ahead of total_tx by the   *)
(* room, up to the turns of the counters ...                               *)
AheadBy(room) ==
  \/ token = total_tx + room
  \/ token + TxBufferMax = total_tx + room
  \/ token + 2 * TxBufferMax = total_tx + room

(* ... and by what a failed transfer filled.                               *)
TokenAhead ==
  /\ sender # "dead" => AheadBy(Room)
  /\ sender = "dead" =>
       \E part \in 0 .. BuffersUsed(SendLen(eb)) : AheadBy(Room + part)

(* The number a frame gets is the one the target waits for.                *)
NextNumber ==
  /\ sender \notin {"send", "dead"} => txseq = (devSeq + 1) % SeqMod
  /\ sender = "send" => /\ hdrSeq = (devSeq + 1) % SeqMod
                        /\ txseq = (hdrSeq + 1) % SeqMod

(* The inductive invariant.                                                *)
FlowInv ==
  /\ TypeOK
  /\ TokenAhead
  /\ NeverOverrun
  /\ NextNumber

LEMMA RoomRange ==
  ASSUME TypeOK, NeverOverrun
  PROVE  /\ Uncounted \in 0 .. DevBufs
         /\ Reserved \in 0 .. DevBufs
         /\ devUsed \in 0 .. DevBufs
         /\ Room \in Uncounted .. DevBufs + Uncounted
         /\ Room < 2 * TxBufferMax - 1
<1>1. /\ sender \in {"poll", "number", "send", "sent", "finish"} =>
           BuffersUsed(SendLen(eb)) \in 0 .. DevBufs
  BY FrameSizes DEF TypeOK
<1>2. Uncounted \in 0 .. DevBufs /\ Reserved \in 0 .. DevBufs
  BY <1>1, CreditAssumption DEF Uncounted, Reserved
<1>3. QED
  BY <1>2, CreditAssumption DEF NeverOverrun, Room, TypeOK

(* The remainder of a difference of two counters below TxBufferMax.        *)
LEMMA AheadIsRemainder ==
  ASSUME FlowInv, NEW room \in Nat, room < 2 * TxBufferMax - 1, AheadBy(room)
  PROVE  BufferSize = room % TxBufferMax
<1>1. /\ token \in 0 .. TxBufferMax - 1 /\ total_tx \in 0 .. TxBufferMax - 1
      /\ TxBufferMax \in Nat
  BY CreditAssumption DEF FlowInv, TypeOK
<1> DEFINE e == token + TxBufferMax - total_tx
<1>2. e \in 1 .. 2 * TxBufferMax - 1 /\ BufferSize = e % TxBufferMax
  BY <1>1 DEF BufferSize
<1>3. CASE token = total_tx + room
  <2>1. e = room + TxBufferMax /\ room \in 0 .. TxBufferMax - 1
    BY <1>3, <1>1
  <2>2. QED
    BY <2>1, <1>1, <1>2, ModOneTurn, ModTwoTurns
<1>4. CASE token + TxBufferMax = total_tx + room
  BY <1>4, <1>1, <1>2
<1>5. CASE token + 2 * TxBufferMax = total_tx + room
  <2>1. room = e + TxBufferMax /\ e \in 0 .. TxBufferMax - 1
    BY <1>5, <1>1, <1>2
  <2>2. QED
    BY <2>1, <1>1, <1>2, ModOneTurn, ModTwoTurns
<1>6. QED
  BY <1>3, <1>4, <1>5 DEF AheadBy

(* The room the host computes is exact.                                    *)
LEMMA TokenAheadIsCreditsExact == FlowInv => CreditsExact
<1>1. SUFFICES ASSUME FlowInv PROVE CreditsExact
  OBVIOUS
<1>2. CASE sender # "dead"
  <2>1. BufferSize = Room % TxBufferMax
    BY <1>1, <1>2, RoomRange, AheadIsRemainder DEF FlowInv, TokenAhead
  <2>2. QED
    BY <2>1, <1>2 DEF CreditsExact, Room
<1>3. CASE sender = "dead"
  <2>1. PICK part \in 0 .. BuffersUsed(SendLen(eb)) : AheadBy(Room + part)
    BY <1>1, <1>3 DEF FlowInv, TokenAhead
  <2>2. /\ Room = DevBufs - devUsed /\ devUsed \in 0 .. DevBufs
        /\ part \in 0 .. DevBufs
    BY <1>1, <1>3, RoomRange, FrameSizes, CreditAssumption
    DEF FlowInv, TypeOK, Room, Uncounted
  <2>3. Room + part \in Nat /\ Room + part < 2 * TxBufferMax - 1
    BY <2>2, CreditAssumption
  <2>4. BufferSize = (Room + part) % TxBufferMax
    BY <1>1, <2>1, <2>3, AheadIsRemainder
  <2>5. QED
    BY <1>3, <2>2, <2>4 DEF CreditsExact
<1>4. QED
  BY <1>2, <1>3

(* While no frame is on its way, what the host computes is what is free.   *)
LEMMA BufferSizeIsFree ==
  ASSUME FlowInv, sender = "poll"
  PROVE  BufferSize = DevBufs - devUsed
<1>1. Uncounted = 0 /\ Room = DevBufs - devUsed
  BY CreditAssumption DEF Uncounted, Room, FlowInv, TypeOK
<1>2. Room \in 0 .. TxBufferMax - 1 /\ TxBufferMax \in Nat
  BY <1>1, RoomRange, CreditAssumption DEF FlowInv
<1>3. BufferSize = Room % TxBufferMax
  BY RoomRange, AheadIsRemainder DEF FlowInv, TokenAhead
<1>4. QED
  BY <1>1, <1>2, <1>3, ModOneTurn

-------------------------------------------------------------------------------
LEMMA InitFlow == Init => FlowInv
<1>1. SUFFICES ASSUME Init PROVE FlowInv
  OBVIOUS
<1>2. /\ TxBufferMax \in Nat \ {0} /\ DevBufs \in 1 .. TxBufferMax - 1
      /\ SeqMod \in Nat /\ 1 \in 0 .. SeqMod - 1 /\ MaxFaults \in Nat
  BY CreditAssumption
<1>3. 2 % TxBufferMax \in 0 .. TxBufferMax - 1
      /\ (2 + DevBufs) % TxBufferMax \in 0 .. TxBufferMax - 1
  BY <1>2
<1>4. << >> \in Seq(Bufs)
  OBVIOUS
<1>5. TypeOK
  <2>1. /\ 0 \in 0 .. TxBufferMax - 1 /\ 0 \in 0 .. SeqMod - 1
        /\ 0 \in 0 .. MaxFaults /\ 0 \in Nat /\ {} \subseteq Bufs
    BY <1>2
  <2>2. QED
    BY <2>1, <1>1, <1>2, <1>3, <1>4 DEF Init, TypeOK, Pointer
<1>6. Uncounted = 0 /\ Reserved = 0 /\ Room = DevBufs
  BY <1>1, <1>2 DEF Init, Uncounted, Reserved, Room
<1>7. \/ (2 + DevBufs) % TxBufferMax = (2 % TxBufferMax) + DevBufs
      \/ ((2 + DevBufs) % TxBufferMax) + TxBufferMax = (2 % TxBufferMax) + DevBufs
  <2>1. CASE TxBufferMax = 2
    BY <2>1, <1>2
  <2>2. CASE TxBufferMax > 2
    <3>1. 2 % TxBufferMax = 2
      BY <2>2, <1>2, ModOneTurn
    <3>2. CASE 2 + DevBufs < TxBufferMax
      BY <3>1, <3>2, <1>2, ModOneTurn
    <3>3. CASE 2 + DevBufs >= TxBufferMax
      <4>1. 2 + DevBufs - TxBufferMax \in 0 .. TxBufferMax - 1
            /\ 2 + DevBufs = (2 + DevBufs - TxBufferMax) + TxBufferMax
        BY <3>3, <2>2, <1>2
      <4>2. (2 + DevBufs) % TxBufferMax = 2 + DevBufs - TxBufferMax
        BY <4>1, <1>2, ModTwoTurns
      <4>3. QED
        BY <3>1, <4>2, <1>2
    <3>4. QED
      BY <3>2, <3>3, <1>2
  <2>3. QED
    BY <2>1, <2>2, <1>2
<1>8. TokenAhead
  BY <1>1, <1>6, <1>7 DEF Init, TokenAhead, AheadBy
<1>9. NeverOverrun
  BY <1>1, <1>2, <1>6 DEF Init, NeverOverrun
<1>10. NextNumber
  BY <1>1, <1>2, ModOneTurn DEF Init, NextNumber
<1>11. QED
  BY <1>5, <1>8, <1>9, <1>10 DEF FlowInv

(* Steps of the driver, of the stack and of the other users of the bus     *)
(* leave the flow control alone.                                           *)
LEMMA OthersPreserve ==
  ASSUME FlowInv, TypeOK', UNCHANGED <<hostVars, devVars, senderVars>>
  PROVE  FlowInv'
BY DEF FlowInv, TokenAhead, AheadBy, Room, Uncounted, NeverOverrun, Reserved, NextNumber,
       hostVars, devVars, senderVars

LEMMA DriverTypes ==
  ASSUME TypeOK, NEW b \in Bufs,
         Submit(b) \/ ClearFor(b) \/ SubmitAfterClear(b) \/ Completed(b)
  PROVE  TypeOK'
<1>1. <<b>> \o queue \in Seq(Bufs) /\ Append(queue, b) \in Seq(Bufs)
  BY DEF TypeOK
<1>2. Range(queue) \subseteq Bufs
  BY DEF TypeOK, Range
<1>3. Cardinality(Kept) \in Nat
  <2>1. Len(queue) \in Nat /\ DOMAIN queue = 1 .. Len(queue)
    BY DEF TypeOK
  <2>2. IsFiniteSet(1 .. Len(queue))
    BY <2>1, FS_Interval
  <2>3. IsFiniteSet(Kept)
    BY <2>1, <2>2, FS_Subset DEF Kept
  <2>4. QED
    BY <2>3, FS_CardinalityType
<1>4. UNCHANGED <<senderVars, busUser, hostVars, devVars, faults>>
  BY DEF Submit, ClearFor, SubmitAfterClear, Completed
<1>5. CASE Submit(b) \/ SubmitAfterClear(b)
  BY <1>1, <1>4, <1>5
  DEF TypeOK, Submit, SubmitAfterClear, Enqueue, senderVars, hostVars, devVars,
      Pointer
<1>6. CASE ClearFor(b)
  <2>1. PICK place \in [1 .. Cardinality(Kept) -> Kept] :
          queue' = [i \in DOMAIN place |-> queue[place[i]]]
    BY <1>6 DEF ClearFor
  <2>2. \A i \in 1 .. Cardinality(Kept) : queue[place[i]] \in Bufs
    BY <2>1 DEF Kept, TypeOK
  <2>3. queue' \in Seq(Bufs)
    BY <2>1, <2>2, <1>3
  <2>4. QED
    BY <2>3, <1>2, <1>4, <1>6
    DEF TypeOK, ClearFor, senderVars, hostVars, devVars, Pointer
<1>7. CASE Completed(b)
  BY <1>4, <1>7 DEF TypeOK, Completed, senderVars, hostVars, devVars, Pointer
<1>8. QED
  BY <1>5, <1>6, <1>7

-------------------------------------------------------------------------------
(* The steps of wifi_send_task and of the target.                          *)

LEMMA SenderMovesPreserve ==
  ASSUME FlowInv, Wake \/ Remove \/ Finish
  PROVE  FlowInv'
<1>1. /\ UNCHANGED <<total_tx, txseq, token, devUsed, devSeq, hdrSeq>>
      /\ sender \in {"wait", "remove", "finish"}
      /\ sender' \in {"wait", "remove", "poll"}
  BY DEF Wake, Remove, Finish, hostVars, devVars
<1>2. TypeOK'
  <2>1. queue # << >> => Head(queue) \in Bufs /\ Tail(queue) \in Seq(Bufs)
    BY DEF FlowInv, TypeOK
  <2>2. CASE Wake
    BY <2>2 DEF FlowInv, TypeOK, Wake, frameVars, hostVars, devVars, Pointer
  <2>3. CASE Remove
    BY <2>1, <2>3 DEF FlowInv, TypeOK, Remove, hostVars, devVars, Pointer
  <2>4. CASE Finish
    BY <2>4 DEF FlowInv, TypeOK, Finish, hostVars, devVars, Pointer
  <2>5. QED
    BY <2>2, <2>3, <2>4
<1>3. Uncounted' = Uncounted /\ Room' = Room /\ Reserved' = Reserved
  BY <1>1 DEF Uncounted, Room, Reserved
<1>4. QED
  BY <1>1, <1>2, <1>3 DEF FlowInv, TokenAhead, AheadBy, NeverOverrun, NextNumber

LEMMA PollPreserves ==
  ASSUME FlowInv, Poll
  PROVE  FlowInv'
<1>1. /\ UNCHANGED <<total_tx, txseq, token, devUsed, devSeq, hdrSeq, eb>>
      /\ sender = "poll" /\ sender' \in {"poll", "number"}
      /\ eb \in Bufs /\ devUsed \in 0 .. DevBufs
  BY RoomRange DEF Poll, hostVars, devVars, FlowInv, TypeOK
<1>2. num' \in 0 .. DevBufs - devUsed
  <2>1. num' = BufferSize \/ num' = 0
    BY DEF Poll
  <2>2. QED
    BY <2>1, <1>1, BufferSizeIsFree, CreditAssumption
<1>3. TypeOK'
  BY <1>1, <1>2, CreditAssumption
  DEF FlowInv, TypeOK, Poll, frameVars, hostVars, devVars, Pointer
<1>4. NeverOverrun'
  <2>1. CASE sender' = "poll"
    BY <2>1, <1>1, CreditAssumption DEF NeverOverrun, Reserved
  <2>2. CASE sender' = "number"
    <3>1. ~ (num' * 512 < SendLen(eb))
      BY <2>2, <1>1 DEF Poll
    <3>2. BuffersUsed(SendLen(eb)) <= num'
      BY <3>1, <1>1, <1>2, FrameSizes, CreditAssumption
    <3>3. BuffersUsed(SendLen(eb)) \in 0 .. DevBufs
      BY <1>1, FrameSizes
    <3>4. QED
      BY <3>2, <3>3, <2>2, <1>1, <1>2, CreditAssumption DEF NeverOverrun, Reserved
  <2>3. QED
    BY <2>1, <2>2, <1>1
<1>5. Uncounted' = Uncounted /\ Room' = Room
  BY <1>1 DEF Uncounted, Room
<1>6. QED
  BY <1>1, <1>3, <1>4, <1>5 DEF FlowInv, TokenAhead, AheadBy, NextNumber

LEMMA NumberPreserves ==
  ASSUME FlowInv, Number
  PROVE  FlowInv'
<1>1. /\ UNCHANGED <<total_tx, token, devUsed, devSeq, eb>>
      /\ sender = "number" /\ sender' = "send"
      /\ hdrSeq' = txseq /\ txseq' = (txseq + 1) % SeqMod
  BY DEF Number, devVars
<1>2. txseq' \in 0 .. SeqMod - 1
  BY <1>1, CreditAssumption DEF FlowInv, TypeOK
<1>3. TypeOK'
  BY <1>1, <1>2 DEF FlowInv, TypeOK, Number, frameVars, devVars, Pointer
<1>4. Uncounted' = Uncounted /\ Room' = Room /\ Reserved' = Reserved
  BY <1>1 DEF Uncounted, Room, Reserved
<1>5. QED
  BY <1>1, <1>3, <1>4 DEF FlowInv, TokenAhead, AheadBy, NeverOverrun, NextNumber

LEMMA TransferPreserves ==
  ASSUME FlowInv, Transfer
  PROVE  FlowInv'
<1> DEFINE used == BuffersUsed(SendLen(eb))
<1>1. /\ UNCHANGED <<total_tx, txseq, token, hdrSeq, eb>>
      /\ sender = "send" /\ sender' = "sent"
      /\ devUsed' = devUsed + used /\ devSeq' = hdrSeq
      /\ devUsed \in 0 .. DevBufs /\ used \in 0 .. DevBufs
  BY FrameSizes, RoomRange DEF Transfer, hostVars, FlowInv, TypeOK
<1>2. TypeOK'
  BY <1>1, CreditAssumption
  DEF FlowInv, TypeOK, Transfer, frameVars, hostVars, Pointer
<1> HIDE DEF used
<1>3. Uncounted = 0 /\ Uncounted' = used /\ Reserved = used /\ Reserved' = 0
  BY <1>1 DEF Uncounted, Reserved, used
<1>4. Room' = Room
  BY <1>1, <1>3, CreditAssumption DEF Room
<1>5. NeverOverrun'
  BY <1>1, <1>3, CreditAssumption DEF FlowInv, NeverOverrun
<1>6. QED
  BY <1>1, <1>2, <1>4, <1>5 DEF FlowInv, TokenAhead, AheadBy, NextNumber

LEMMA AccountPreserves ==
  ASSUME FlowInv, Account
  PROVE  FlowInv'
<1> DEFINE used == BuffersUsed(SendLen(eb))
<1>1. /\ UNCHANGED <<txseq, token, devUsed, devSeq, hdrSeq, eb>>
      /\ sender = "sent" /\ sender' = "finish"
  BY DEF Account, devVars
<1>2. /\ total_tx' = IF total_tx + used >= TxBufferMax
                     THEN (total_tx + used) - TxBufferMax ELSE total_tx + used
      /\ devUsed \in 0 .. DevBufs /\ used \in 0 .. DevBufs
      /\ total_tx \in 0 .. TxBufferMax - 1 /\ token \in 0 .. TxBufferMax - 1
  <2>1. eb \in Bufs
    BY <1>1 DEF FlowInv, TypeOK
  <2>2. /\ devUsed \in 0 .. DevBufs /\ used \in 0 .. DevBufs
        /\ total_tx \in 0 .. TxBufferMax - 1 /\ token \in 0 .. TxBufferMax - 1
    BY <2>1, FrameSizes, RoomRange DEF FlowInv, TypeOK
  <2>3. total_tx' = IF total_tx + used >= TxBufferMax
                    THEN (total_tx + used) - TxBufferMax ELSE total_tx + used
    BY DEF Account, Wrapped
  <2>4. QED
    BY <2>2, <2>3
<1> HIDE DEF used
<1>3. total_tx' \in 0 .. TxBufferMax - 1
  BY <1>1, <1>2, CreditAssumption
<1>4. TypeOK'
  BY <1>1, <1>3 DEF FlowInv, TypeOK, Account, frameVars, devVars, Pointer
<1>5. Uncounted = used /\ Uncounted' = 0 /\ Reserved = 0 /\ Reserved' = 0
  BY <1>1 DEF Uncounted, Reserved, used
<1>6. Room' = Room - used
  BY <1>1, <1>2, <1>5, CreditAssumption DEF Room
<1>7. Room \in used .. DevBufs + used
  BY <1>5, RoomRange DEF FlowInv
<1>8. TokenAhead'
  BY <1>1, <1>2, <1>6, <1>7, CreditAssumption DEF FlowInv, TokenAhead, AheadBy
<1>9. QED
  BY <1>1, <1>4, <1>5, <1>8 DEF FlowInv, NeverOverrun, NextNumber

LEMMA TransferFailsPreserves ==
  ASSUME FlowInv, TransferFails
  PROVE  FlowInv'
<1>1. PICK part \in 0 .. BuffersUsed(SendLen(eb)) : devUsed' = devUsed + part
  BY DEF TransferFails
<1>2. /\ sender = "send" /\ sender' = "dead" /\ eb \in Bufs
      /\ devUsed \in 0 .. DevBufs
      /\ BuffersUsed(SendLen(eb)) \in 0 .. DevBufs
  BY FrameSizes, RoomRange DEF TransferFails, FlowInv, TypeOK
<1>3. TypeOK'
  BY <1>1, <1>2, CreditAssumption
  DEF FlowInv, TypeOK, TransferFails, frameVars, hostVars, Pointer
<1>4. NeverOverrun'
  BY <1>1, <1>2, CreditAssumption DEF FlowInv, NeverOverrun, Reserved
<1>5. TokenAhead'
  <2>1. UNCHANGED <<token, total_tx, eb>>
    BY DEF TransferFails, hostVars
  <2>2. Room = DevBufs - devUsed /\ Room' = DevBufs - devUsed'
    <3>1. Uncounted = 0 /\ Uncounted' = 0
      BY <1>2 DEF Uncounted
    <3>2. devUsed \in Int /\ devUsed' \in Int /\ DevBufs \in Int
      BY <1>1, <1>2, CreditAssumption
    <3>3. QED
      BY <3>1, <3>2 DEF Room
  <2>3. Room = Room' + part
    BY <1>1, <1>2, <2>2, CreditAssumption
  <2>4. AheadBy(Room)
    BY <1>2 DEF FlowInv, TokenAhead
  <2>5. AheadBy(Room + part)'
    BY <2>1, <2>3, <2>4 DEF AheadBy
  <2>6. QED
    BY <1>1, <1>2, <2>1, <2>5 DEF TokenAhead
<1>6. QED
  BY <1>2, <1>3, <1>4, <1>5 DEF FlowInv, NextNumber

LEMMA FreeBufferPreserves ==
  ASSUME FlowInv, FreeBuffer
  PROVE  FlowInv'
<1>1. /\ UNCHANGED <<sender, eb, hdrSeq, total_tx, txseq, devSeq>>
      /\ devUsed \in 1 .. DevBufs /\ devUsed' = devUsed - 1
      /\ token' = IF token + 1 = TxBufferMax THEN 0 ELSE token + 1
      /\ total_tx \in 0 .. TxBufferMax - 1 /\ token \in 0 .. TxBufferMax - 1
  BY RoomRange, CreditAssumption
  DEF FreeBuffer, senderVars, hostVars, FlowInv, TypeOK
<1>2. token' \in 0 .. TxBufferMax - 1 /\ devUsed' \in Nat
  BY <1>1, CreditAssumption
<1>3. TypeOK'
  BY <1>1, <1>2
  DEF FlowInv, TypeOK, FreeBuffer, frameVars, senderVars, hostVars, Pointer
<1>4. /\ Uncounted' = Uncounted /\ Reserved' = Reserved
      /\ Uncounted \in 0 .. DevBufs /\ Reserved \in 0 .. DevBufs
  BY <1>1, RoomRange DEF Uncounted, Reserved, FlowInv
<1>5. Room' = Room + 1 /\ Room \in 0 .. 2 * DevBufs - 1
  BY <1>1, <1>4, CreditAssumption DEF Room
<1>6. TokenAhead'
  <2>1. ASSUME NEW extra \in 0 .. DevBufs, AheadBy(Room + extra),
               Room + extra < 2 * DevBufs
        PROVE  AheadBy(Room + extra)'
    <3>1. \/ token + 1 = TxBufferMax /\ token' = 0
          \/ token + 1 # TxBufferMax /\ token' = token + 1
      BY <1>1
    <3>2. Room + extra \in Nat /\ (Room + extra)' = Room + extra + 1
      BY <1>5, <2>1, CreditAssumption
    <3>3. QED
      BY <1>1, <2>1, <3>1, <3>2, CreditAssumption DEF AheadBy
  <2>2. CASE sender # "dead"
    <3>1. AheadBy(Room + 0) /\ Room + 0 < 2 * DevBufs
      BY <1>5, <2>2, CreditAssumption DEF FlowInv, TokenAhead
    <3>2. AheadBy(Room + 0)'
      BY <2>1, <3>1, CreditAssumption
    <3>3. AheadBy(Room)'
      BY <3>2, <1>5, CreditAssumption DEF AheadBy
    <3>4. QED
      BY <1>1, <2>2, <3>3 DEF TokenAhead
  <2>3. CASE sender = "dead"
    <3>1. BuffersUsed(SendLen(eb)) \in 0 .. DevBufs
      BY <2>3, FrameSizes DEF FlowInv, TypeOK
    <3>2. PICK part \in 0 .. BuffersUsed(SendLen(eb)) : AheadBy(Room + part)
      BY <2>3 DEF FlowInv, TokenAhead
    <3>3. Room < DevBufs
      BY <1>1, <2>3, CreditAssumption DEF Room, Uncounted
    <3>4. part \in 0 .. DevBufs /\ Room + part < 2 * DevBufs
      BY <1>5, <3>1, <3>3, CreditAssumption
    <3>5. AheadBy(Room + part)'
      BY <2>1, <3>2, <3>4
    <3>6. QED
      BY <1>1, <2>3, <3>2, <3>5 DEF TokenAhead
  <2>4. QED
    BY <2>2, <2>3
<1>7. NeverOverrun'
  BY <1>1, <1>4, CreditAssumption DEF FlowInv, NeverOverrun
<1>8. QED
  BY <1>1, <1>3, <1>6, <1>7 DEF FlowInv, NextNumber

(* The invariant holds in every reachable state.                           *)
THEOREM FlowInvariance == Spec => []FlowInv
<1>1. FlowInv /\ [Next]_vars => FlowInv'
  <2>1. SUFFICES ASSUME FlowInv, [Next]_vars PROVE FlowInv'
    OBVIOUS
  <2>2. ASSUME NEW b \in Bufs,
               Submit(b) \/ ClearFor(b) \/ SubmitAfterClear(b) \/ Completed(b)
        PROVE  FlowInv'
    <3>1. TypeOK'
      BY <2>1, <2>2, DriverTypes DEF FlowInv
    <3>2. UNCHANGED <<hostVars, devVars, senderVars>>
      BY <2>2 DEF Submit, ClearFor, SubmitAfterClear, Completed
    <3>3. QED
      BY <2>1, <3>1, <3>2, OthersPreserve
  <2>3. CASE OtherLocks \/ OtherUnlocks \/ UNCHANGED vars
    <3>1. TypeOK'
      BY <2>1, <2>3
      DEF FlowInv, TypeOK, OtherLocks, OtherUnlocks, vars, frameVars, senderVars,
          hostVars, devVars, Pointer
    <3>2. UNCHANGED <<hostVars, devVars, senderVars>>
      BY <2>3 DEF OtherLocks, OtherUnlocks, vars
    <3>3. QED
      BY <2>1, <3>1, <3>2, OthersPreserve
  <2>4. CASE Wake \/ Remove \/ Finish
    BY <2>1, <2>4, SenderMovesPreserve
  <2>5. CASE Poll
    BY <2>1, <2>5, PollPreserves
  <2>6. CASE Number
    BY <2>1, <2>6, NumberPreserves
  <2>7. CASE Transfer
    BY <2>1, <2>7, TransferPreserves
  <2>8. CASE Account
    BY <2>1, <2>8, AccountPreserves
  <2>9. CASE TransferFails
    BY <2>1, <2>9, TransferFailsPreserves
  <2>10. CASE FreeBuffer
    BY <2>1, <2>10, FreeBufferPreserves
  <2>11. QED
    BY <2>1, <2>2, <2>3, <2>4, <2>5, <2>6, <2>7, <2>8, <2>9, <2>10 DEF Next
<1>2. QED
  BY InitFlow, <1>1, PTL DEF Spec

(* total_tx and token never leave their 12 bits, the sequence number its   *)
(* width, and wifi_send_task only sends frames it took.                    *)
THEOREM WifiTxTypeCorrect == Spec => []TypeOK
<1>1. FlowInv => TypeOK
  BY DEF FlowInv
<1>2. QED
  BY FlowInvariance, <1>1, PTL

(* esp_extconn_sdio_get_buffer_size returns exactly what the target has    *)
(* free, however often token and total_tx wrapped.                         *)
THEOREM CreditsAreExact == Spec => []CreditsExact
BY FlowInvariance, TokenAheadIsCreditsExact, PTL

(* wifi_send_task never sends a frame the target has no room for, although *)
(* it gives sdio_mutex back between looking and sending.                   *)
THEOREM TargetIsNeverOverrun == Spec => []NeverOverrun
<1>1. FlowInv => NeverOverrun
  BY DEF FlowInv
<1>2. QED
  BY FlowInvariance, <1>1, PTL

(* No credit ever leaks: when wifi_send_task has to wait for room, the     *)
(* target holds data it will free.  An idle target takes any frame, after  *)
(* however many turns of token and total_tx; the loop around               *)
(* esp_extconn_sdio_get_buffer_size, which has no limit, never waits for   *)
(* nothing.                                                                *)
THEOREM OnlyABusyTargetRefuses ==
  Spec => [](sender = "poll" /\ BufferSize * 512 < SendLen(eb) => devUsed > 0)
<1>1. FlowInv => (sender = "poll" /\ BufferSize * 512 < SendLen(eb) => devUsed > 0)
  <2>1. SUFFICES ASSUME FlowInv, sender = "poll", devUsed = 0
                 PROVE  ~ (BufferSize * 512 < SendLen(eb))
    BY DEF FlowInv, TypeOK
  <2>2. BufferSize = DevBufs /\ DevBufs \in Nat
    BY <2>1, BufferSizeIsFree, CreditAssumption
  <2>3. eb \in Bufs
    BY <2>1 DEF FlowInv, TypeOK
  <2>4. SendLen(eb) \in Nat /\ BuffersUsed(SendLen(eb)) <= DevBufs
    BY <2>3, FrameSizes, CreditAssumption
  <2>5. SendLen(eb) <= DevBufs * 512
    BY <2>2, <2>4 DEF BuffersUsed
  <2>6. QED
    BY <2>2, <2>4, <2>5
<1>2. QED
  BY <1>1, FlowInvariance, PTL

(* The target gets consecutive sequence numbers.                           *)
THEOREM FramesAreNumberedInSequence == Spec => NumberedInSequence
<1>1. FlowInv /\ [Next]_vars =>
        [sender = "send" /\ sender' = "sent" =>
           devSeq' = (devSeq + 1) % SeqMod]_vars
  <2>1. SUFFICES ASSUME FlowInv, Next, sender = "send", sender' = "sent"
                 PROVE  devSeq' = (devSeq + 1) % SeqMod
    BY DEF vars
  <2>2. Transfer
    BY <2>1
    DEF Next, Submit, ClearFor, SubmitAfterClear, Completed, Wake, Remove, Poll,
        Number, Account, TransferFails, Finish, OtherLocks, OtherUnlocks,
        FreeBuffer, senderVars
  <2>3. QED
    BY <2>1, <2>2 DEF Transfer, FlowInv, NextNumber
<1>2. QED
  BY FlowInvariance, <1>1, PTL DEF Spec, NumberedInSequence
=============================================================================
