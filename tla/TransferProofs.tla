---------------------------- MODULE TransferProofs ----------------------------
(***************************************************************************)
(* Theorems about what is transferred: about SdioXfer, for every length,   *)
(* about FwDownload, for every image that is laid out as its assumptions   *)
(* say and every byte of the target's memory, and about the commands of a  *)
(* download as transfers.                                                  *)
(***************************************************************************)
EXTENDS SdioXfer, FwDownload, TLAPS

(***************************************************************************)
(* SdioXfer.                                                               *)
(***************************************************************************)

(* A transfer has three stages: nothing is transferred, the whole blocks   *)
(* are, everything is.                                                     *)
XferStages ==
  \/ remain = length /\ filled = 0
  \/ /\ WholeBlocks(length) > 0
     /\ remain = length - WholeBlocks(length)
     /\ filled = WholeBlocks(length) \div Block
  \/ remain = 0 /\ filled = BuffersOf(length)

(* What can be asked for.                                                  *)
LengthInv ==
  /\ fn = 1 /\ dir = "send" => length <= EndAddr
  /\ dir = "get" => length <= RecvBuf

XferInv ==
  /\ XferTypeOK /\ LengthInv /\ TargetAgrees /\ CommandPossible /\ WithinBuffer /\ CountsAgree
  /\ remain <= length
  /\ stage = "loop" => XferStages /\ counted = 0

-------------------------------------------------------------------------------
LEMMA Rounded ==
  ASSUME NEW n \in Nat
  PROVE  /\ Roundup(n, 4) \in Nat /\ Roundup(n, 4) % 4 = 0
         /\ n <= Roundup(n, 4) /\ Roundup(n, 4) <= n + 3
         /\ n > 0 => Roundup(n, 4) > 0
<1>1. (n + 4 - 1) \div 4 \in Nat /\ 4 * ((n + 4 - 1) \div 4) <= n + 3
      /\ n + 3 < 4 * ((n + 4 - 1) \div 4) + 4
  OBVIOUS
<1>2. \A k \in Nat : (k * 4) % 4 = 0
  OBVIOUS
<1>3. QED
  BY <1>1, <1>2 DEF Roundup

LEMMA Divided ==
  ASSUME NEW n \in Nat
  PROVE  /\ WholeBlocks(n) \in Nat /\ WholeBlocks(n) % Block = 0
         /\ WholeBlocks(n) <= n /\ n < WholeBlocks(n) + Block
         /\ n % Block = 0 => WholeBlocks(n) = n
         /\ n < Block => WholeBlocks(n) = 0
         /\ n >= Block => WholeBlocks(n) > 0
<1>1. /\ n \div 512 \in Nat /\ 512 * (n \div 512) <= n /\ n < 512 * (n \div 512) + 512
      /\ n = 512 * (n \div 512) + (n % 512)
  OBVIOUS
<1>2. \A k \in Nat : (k * 512) % 512 = 0
  OBVIOUS
<1>3. QED
  BY <1>1, <1>2 DEF WholeBlocks, Block

LEMMA Buffers ==
  ASSUME NEW n \in Nat
  PROVE  /\ BuffersOf(n) \in Nat /\ BuffersOf(n) = BuffersUsed(n)
         /\ BuffersOf(WholeBlocks(n)) = WholeBlocks(n) \div Block
         /\ WholeBlocks(n) \div Block \in Nat
         /\ WholeBlocks(n) = n => BuffersOf(n) = WholeBlocks(n) \div Block
         /\ WholeBlocks(n) < n =>
              WholeBlocks(n) \div Block + BuffersOf(n - WholeBlocks(n)) = BuffersOf(n)
<1>1. PICK q \in Nat, r \in 0 .. 511 : n = 512 * q + r /\ q = n \div 512
  <2>1. n \div 512 \in Nat /\ n % 512 \in 0 .. 511 /\ n = 512 * (n \div 512) + (n % 512)
    OBVIOUS
  <2>2. QED
    BY <2>1
<1>2. WholeBlocks(n) = 512 * q
  BY <1>1 DEF WholeBlocks, Block
<1>3. (512 * q) \div 512 = q /\ (512 * q + 511) \div 512 = q
  BY <1>1
<1>4. r > 0 => (512 * q + r + 511) \div 512 = q + 1 /\ (r + 511) \div 512 = 1
  BY <1>1
<1>5. QED
  BY <1>1, <1>2, <1>3, <1>4 DEF BuffersOf, BuffersUsed, Block

(* A frame rounded up to tx_blksz fits.                                    *)
LEMMA FramesFit ==
  ASSUME NEW n \in Frames, NEW blk \in TxBlks
  PROVE  SendLen(n, blk) \in Nat \ {0} /\ SendLen(n, blk) <= EndAddr
<1>1. n \in Nat \ {0} /\ blk \in Nat \ {0} /\ SendLen(n, blk) <= EndAddr
  BY LengthsAssumption
<1>2. PICK q \in Nat \ {0} : q = (n + blk - 1) \div blk
  <2>1. n + blk - 1 \in Nat /\ n + blk - 1 >= blk
    BY <1>1
  <2>2. ASSUME NEW a \in Nat, NEW b \in Nat \ {0}, a >= b PROVE a \div b \in Nat \ {0}
    <3>1. a \div b \in Nat /\ a < b * (a \div b) + b
      BY <2>2
    <3>2. a \div b # 0
      BY <2>2, <3>1
    <3>3. QED
      BY <3>1, <3>2
  <2>3. QED
    BY <1>1, <2>1, <2>2
<1>3. q * blk \in Nat \ {0}
  BY <1>1, <1>2
<1>4. QED
  BY <1>1, <1>2, <1>3 DEF SendLen, Roundup

-------------------------------------------------------------------------------
LEMMA XferInitInv == XferInit => XferInv
<1> SUFFICES ASSUME XferInit PROVE XferInv
  OBVIOUS
<1> DEFINE Asked == /\ length \in Nat \ {0} /\ remain = length /\ target = length
                    /\ dir \in {"send", "get"} /\ fn \in {1, 2} /\ LengthInv
<1>1. Asked
  <2>1. ASSUME NEW n \in Frames, NEW blk \in TxBlks, Request("send", 1, SendLen(n, blk))
        PROVE  Asked
    BY <2>1, FramesFit DEF Request, LengthInv
  <2>2. ASSUME NEW n \in Commands, Request("send", 1, n) PROVE Asked
    BY <2>2, LengthsAssumption DEF Request, LengthInv, Block, EndAddr
  <2>3. ASSUME NEW n \in Messages, Request("send", 2, n) PROVE Asked
    BY <2>3, LengthsAssumption DEF Request, LengthInv
  <2>4. ASSUME NEW n \in Available,
               Request("get", 1, Least(n, RecvBuf)) \/ Request("get", 2, Least(n, Wanted))
        PROVE  Asked
    BY <2>4, LengthsAssumption DEF Request, LengthInv, Least, RecvBuf, Wanted
  <2>5. QED
    BY <2>1, <2>2, <2>3, <2>4 DEF XferInit
<1>2. stage = "loop" /\ last = [from |-> 0, count |-> 0] /\ filled = 0 /\ counted = 0
  BY DEF XferInit
<1>3. XferTypeOK /\ TargetAgrees /\ CountsAgree /\ XferStages /\ remain <= length
  BY <1>1, <1>2 DEF XferTypeOK, TargetAgrees, CountsAgree, XferStages
<1>4. CommandPossible /\ WithinBuffer
  BY <1>1, <1>2 DEF CommandPossible, WithinBuffer, Block, RecvBuf
<1>5. QED
  BY <1>1, <1>2, <1>3, <1>4 DEF XferInv

LEMMA CommandStep ==
  ASSUME XferInv, Command
  PROVE  XferInv'
<1> DEFINE W == WholeBlocks(remain)
           R == Roundup(remain, 4)
<1>1. /\ length \in Nat /\ remain \in Nat /\ remain > 0 /\ remain <= length
      /\ filled \in Nat /\ counted = 0 /\ XferStages /\ stage = "loop" /\ target \in Nat
  BY DEF XferInv, XferTypeOK, Command
<1>2. /\ UNCHANGED <<dir, fn, length, counted>>
      /\ last' = [from |-> length - remain, count |-> Count(remain)]
      /\ filled' = filled + BuffersOf(Moved(remain))
      /\ \/ /\ remain' = remain - Moved(remain)
            /\ target' = (EndAddr - Address) - Least(Count(remain), EndAddr - Address)
            /\ stage' = "loop"
         \/ stage' = "failed" /\ UNCHANGED <<remain, target>>
  BY <1>1 DEF Command
<1>3. /\ W \in Nat /\ W % Block = 0 /\ W <= remain /\ remain < W + Block
      /\ remain % Block = 0 => W = remain
      /\ remain < Block => W = 0
      /\ remain >= Block => W > 0
  BY <1>1, Divided
<1>4. R \in Nat /\ R % 4 = 0 /\ remain <= R /\ R <= remain + 3 /\ R > 0
  BY <1>1, Rounded
<1>5. \/ W > 0 /\ Count(remain) = W /\ Moved(remain) = W
      \/ W = 0 /\ remain < 512 /\ Count(remain) = R /\ Moved(remain) = remain
  BY <1>1, <1>3 DEF Count, Moved, Block
<1>6. /\ Count(remain) \in Nat /\ Moved(remain) \in Nat /\ Moved(remain) <= remain
      /\ Count(remain) <= remain + 3
  BY <1>1, <1>3, <1>4, <1>5
<1>7. CommandPossible'
  <2>1. W = 0 => Count(remain) <= 512
    <3>1. remain < 512 => R <= 512
      BY <1>1, <1>4
    <3>2. QED
      BY <1>5, <3>1
  <2>2. QED
    <3>1. last'.count = Count(remain)
      BY <1>2
    <3>2. CASE W > 0 /\ Count(remain) = W
      BY <1>3, <3>1, <3>2 DEF CommandPossible
    <3>3. CASE W = 0 /\ Count(remain) = R
      <4>1. R \in Nat /\ R <= 512 /\ R % 4 = 0
        BY <1>4, <2>1, <3>3
      <4>2. R % 512 = 0 \/ R < 512
        BY <4>1
      <4>3. QED
        BY <3>1, <3>3, <4>1, <4>2 DEF CommandPossible, Block
    <3>4. QED
      BY <1>5, <3>2, <3>3
<1>8. WithinBuffer'
  <2>1. last'.from + last'.count <= length + 3
    BY <1>1, <1>2, <1>6
  <2>2. ASSUME dir = "get" PROVE last'.from + last'.count <= RecvBuf
    <3>1. length <= RecvBuf
      BY <2>2 DEF XferInv, LengthInv
    <3>2. length - remain + W <= length
      BY <1>1, <1>3
    <3>3. W = 0 => (length - remain) % 4 = 0 /\ length - remain \in Nat
      <4>1. W = 0 => remain = length \/ (WholeBlocks(length) > 0 /\ remain = length - WholeBlocks(length))
        BY <1>1 DEF XferStages
      <4>2. WholeBlocks(length) % 512 = 0 /\ WholeBlocks(length) \in Nat
        BY <1>1, Divided DEF Block
      <4>3. WholeBlocks(length) % 4 = 0
        BY <4>2
      <4>4. QED
        BY <1>1, <4>1, <4>2, <4>3
    <3>4. W = 0 => length - remain + R <= RecvBuf
      BY <1>1, <1>4, <3>1, <3>3 DEF RecvBuf
    <3>5. last'.from = length - remain /\ last'.count = Count(remain)
      BY <1>2
    <3>6. CASE W > 0 /\ Count(remain) = W
      BY <1>1, <1>3, <3>1, <3>2, <3>5, <3>6 DEF RecvBuf
    <3>7. CASE W = 0 /\ Count(remain) = R
      BY <3>4, <3>5, <3>7
    <3>8. QED
      BY <1>5, <3>6, <3>7
  <2>3. QED
    BY <1>2, <2>1, <2>2 DEF WithinBuffer
<1>9. ASSUME stage' = "loop", fn = 1
      PROVE  /\ remain' = remain - Moved(remain)
             /\ target' = IF RestBehindBlocks' /\ remain' = 0
                          THEN length - Roundup(length - WholeBlocks(length), 4)
                          ELSE remain'
             /\ target' \in Nat
  <2>1. length <= EndAddr
    BY <1>9 DEF XferInv, LengthInv, RecvBuf, EndAddr, XferTypeOK
  <2>2. /\ remain' = remain - Moved(remain)
        /\ target' = (EndAddr - Address) - Least(Count(remain), EndAddr - Address)
        /\ RestBehindBlocks' <=> RestBehindBlocks
    BY <1>2, <1>9 DEF RestBehindBlocks, WholeBlocks
  <2>3. Least(Count(remain), remain) = Moved(remain)
    BY <1>1, <1>3, <1>4, <1>5 DEF Least
  <2>4. CASE dir = "get"
    <3>1. EndAddr - Address = remain /\ ~ RestBehindBlocks
      BY <1>1, <1>9, <2>1, <2>4 DEF Address, EndAddr, RestBehindBlocks
    <3>2. QED
      BY <1>1, <1>6, <2>2, <2>3, <3>1
  <2>5. CASE dir = "send" /\ remain = length
    <3>1. EndAddr - Address = remain
      BY <1>1, <1>9, <2>1, <2>5 DEF Address, EndAddr
    <3>2. RestBehindBlocks => remain' # 0
      BY <1>1, <1>3, <1>5, <2>2, <2>5 DEF RestBehindBlocks
    <3>3. QED
      BY <1>1, <1>6, <2>2, <2>3, <3>1, <3>2
  <2>6. CASE dir = "send" /\ remain # length
    <3>1. WholeBlocks(length) > 0 /\ remain = length - WholeBlocks(length)
      BY <1>1, <2>6 DEF XferStages
    <3>2. WholeBlocks(length) \in Nat /\ WholeBlocks(length) % 512 = 0
          /\ length < WholeBlocks(length) + 512
      BY <1>1, Divided DEF Block
    <3>3. WholeBlocks(length) >= 512 /\ W = 0
      BY <1>1, <1>3, <3>1, <3>2 DEF Block
    <3>4. Count(remain) = R /\ remain' = 0 /\ RestBehindBlocks
      BY <1>1, <1>5, <2>2, <2>6, <3>1, <3>2, <3>3 DEF RestBehindBlocks
    <3>5. EndAddr - Address = length
      BY <1>1, <1>9, <2>1, <2>6 DEF Address, EndAddr
    <3>6. R < length
      BY <1>1, <1>4, <3>1, <3>2, <3>3
    <3>7. target' = length - R
      BY <1>1, <1>4, <2>2, <3>4, <3>5, <3>6 DEF Least
    <3>8. target' \in Nat
      BY <1>1, <1>4, <3>6, <3>7
    <3>9. QED
      BY <2>2, <3>1, <3>4, <3>7, <3>8
  <2>7. QED
    BY <2>4, <2>5, <2>6 DEF XferInv, XferTypeOK
<1>10. target' \in Nat
  <2>1. CASE fn = 1
    BY <1>1, <1>2, <1>9, <2>1
  <2>2. CASE fn # 1
    BY <1>2, <1>6, <1>1, <2>2 DEF Address, EndAddr, Least
  <2>3. QED
    BY <2>1, <2>2
<1>11. BuffersOf(Moved(remain)) \in Nat
  BY <1>6, Buffers
<1>12. XferTypeOK'
  <2>1. last' \in [from : Nat, count : Nat]
    BY <1>1, <1>2, <1>6
  <2>2. remain' \in Nat /\ filled' \in Nat
    BY <1>1, <1>2, <1>6, <1>11
  <2>3. QED
    BY <1>2, <1>10, <2>1, <2>2 DEF XferInv, XferTypeOK
<1>13. stage' = "loop" => XferStages'
  <2> SUFFICES ASSUME stage' = "loop" PROVE XferStages'
    OBVIOUS
  <2>0. remain' = remain - Moved(remain)
    BY <1>2
  <2>1. CASE remain = length /\ filled = 0 /\ W > 0
    <3>1. BuffersOf(W) = W \div Block /\ W \div Block \in Nat
      BY <1>1, Buffers
    <3>2. QED
      BY <1>2, <1>5, <2>0, <2>1, <3>1 DEF XferStages
  <2>2. CASE remain = length /\ filled = 0 /\ W = 0
    <3>1. BuffersOf(length) \in Nat
      BY <1>1, Buffers
    <3>2. QED
      BY <1>1, <1>2, <1>5, <2>0, <2>2, <3>1 DEF XferStages
  <2>3. CASE /\ WholeBlocks(length) > 0
             /\ remain = length - WholeBlocks(length)
             /\ filled = WholeBlocks(length) \div Block
    <3>1. WholeBlocks(length) \in Nat /\ length < WholeBlocks(length) + Block
      BY <1>1, Divided
    <3>2. W = 0 /\ WholeBlocks(length) < length
      BY <1>1, <1>3, <2>3, <3>1 DEF Block
    <3>3. WholeBlocks(length) \div Block + BuffersOf(length - WholeBlocks(length))
            = BuffersOf(length)
      BY <1>1, <3>2, Buffers
    <3>4. QED
      BY <1>1, <1>2, <1>5, <2>0, <2>3, <3>2, <3>3 DEF XferStages
  <2>4. QED
    BY <1>1, <1>3, <2>1, <2>2, <2>3 DEF XferStages
<1>14. TargetAgrees' /\ CountsAgree' /\ LengthInv'
  <2>1. TargetAgrees'
    BY <1>2, <1>9 DEF TargetAgrees, WholeBlocks
  <2>2. QED
    BY <1>2, <2>1 DEF CountsAgree, LengthInv, XferInv
<1>15. remain' <= length' /\ counted' = 0
  BY <1>1, <1>2, <1>6
<1>16. QED
  BY <1>7, <1>8, <1>12, <1>13, <1>14, <1>15 DEF XferInv

LEMMA AccountStep ==
  ASSUME XferInv, Account
  PROVE  XferInv'
<1>1. /\ length \in Nat \ {0} /\ remain = 0 /\ filled \in Nat /\ XferStages
      /\ counted' = IF fn = 2 THEN 0 ELSE IF dir = "send" THEN BuffersUsed(length) ELSE length
      /\ stage' = "done" /\ UNCHANGED <<dir, fn, length, remain, target, last, filled>>
  BY DEF XferInv, XferTypeOK, Account
<1>2. BuffersOf(length) \in Nat /\ BuffersOf(length) = BuffersUsed(length)
      /\ (WholeBlocks(length) = length => BuffersOf(length) = WholeBlocks(length) \div Block)
      /\ WholeBlocks(length) \in Nat
  BY <1>1, Buffers, Divided
<1>3. filled = BuffersOf(length)
  BY <1>1, <1>2 DEF XferStages
<1>4. counted' \in Nat
  BY <1>1, <1>2
<1>5. XferTypeOK'
  BY <1>1, <1>4 DEF XferInv, XferTypeOK
<1>6. CountsAgree'
  BY <1>1, <1>2, <1>3 DEF CountsAgree
<1>7. LengthInv' /\ TargetAgrees' /\ CommandPossible' /\ WithinBuffer'
  BY <1>1
  DEF XferInv, LengthInv, TargetAgrees, RestBehindBlocks, WholeBlocks, CommandPossible,
      WithinBuffer, Account
<1>8. QED
  BY <1>1, <1>5, <1>6, <1>7 DEF XferInv

LEMMA XferInvariant == XferSpec => []XferInv
<1>1. XferInv /\ [XferNext]_xferVars => XferInv'
  <2>1. XferInv /\ UNCHANGED xferVars => XferInv'
    BY DEF xferVars, XferInv, XferTypeOK, LengthInv, TargetAgrees, RestBehindBlocks, WholeBlocks,
       CommandPossible, WithinBuffer, CountsAgree, XferStages
  <2>2. QED
    BY <2>1, CommandStep, AccountStep DEF XferNext
<1>2. QED
  BY XferInitInv, <1>1, PTL DEF XferSpec

-------------------------------------------------------------------------------
(* For every length: the variables of a transfer keep their types; the     *)
(* rest is never negative.                                                 *)
THEOREM XferTypeCorrect == XferSpec => []XferTypeOK
BY XferInvariant, PTL DEF XferInv

(* For every length and every tx_blksz: after each command the target      *)
(* knows what is to come, but for the rest of a frame that send_packet     *)
(* sends to the address of the blocks in front of it; and of that it is    *)
(* said what the target then takes to be missing.                          *)
THEOREM TargetKnowsTheRest == XferSpec => []TargetAgrees
BY XferInvariant, PTL DEF XferInv

(* For every length: CMD53 can do what is asked of it.                     *)
THEOREM CommandsArePossible == XferSpec => []CommandPossible
BY XferInvariant, PTL DEF XferInv

(* For every length: no command reaches more than three bytes behind the   *)
(* packet, and none that reads a packet behind recv_buf.                   *)
THEOREM CommandsStayInBuffer == XferSpec => []WithinBuffer
BY XferInvariant, PTL DEF XferInv

(* For every length: the host counts the buffers it fills.                 *)
THEOREM BuffersAreCounted == XferSpec => []CountsAgree
BY XferInvariant, PTL DEF XferInv

(* For every length: two commands are enough, one for the whole blocks and *)
(* one for the rest, so the loops of send_packet and get_packet end.       *)
TwoCommands ==
  Command /\ stage' = "loop" => remain' < Block /\ (remain < Block => remain' = 0)
THEOREM TwoCommandsAreEnough == XferSpec => [][TwoCommands]_xferVars
<1>1. XferInv => TwoCommands
  <2>1. SUFFICES ASSUME XferInv, Command, stage' = "loop"
                 PROVE  remain' < Block /\ (remain < Block => remain' = 0)
    BY DEF TwoCommands
  <2>2. remain \in Nat /\ remain > 0 /\ remain' = remain - Moved(remain)
    BY <2>1 DEF XferInv, XferTypeOK, Command
  <2>3. /\ WholeBlocks(remain) \in Nat /\ remain < WholeBlocks(remain) + Block
        /\ remain < Block => WholeBlocks(remain) = 0
        /\ remain >= Block => WholeBlocks(remain) > 0
    BY <2>2, Divided
  <2>4. QED
    BY <2>2, <2>3 DEF Moved, Block
<1>2. QED
  BY <1>1, XferInvariant, PTL

-------------------------------------------------------------------------------
(***************************************************************************)
(* FwDownload.                                                             *)
(***************************************************************************)

(* Where esp_fw_download is in the image.                                  *)
PlaceInv ==
  /\ pc = "magic" => block = 1 /\ offset = FwHdr
  /\ pc = "header" =>
       offset = IF block = 1 THEN FwHdr
                             ELSE Image[block - 1].data + Image[block - 1].data_len
  /\ pc = "write" =>
       /\ block \in Blocks
       /\ offset = Image[block].data
       /\ remains <= Image[block].data_len
       /\ remains > 0 => (Image[block].data_len - remains) % 4 = 0

DownloadInv == TypeOK /\ PlaceInv /\ InPlace /\ NothingElseWritten /\ CommandFits

-------------------------------------------------------------------------------
LEMMA Elements == ASSUME NEW S, NEW s \in Seq(S), NEW i \in 1 .. Len(s) PROVE s[i] \in S
OBVIOUS

LEMMA BlockFacts ==
  ASSUME NEW b \in Blocks
  PROVE  /\ Image[b].load_addr \in Nat /\ Image[b].data_len \in Nat /\ Image[b].data \in Nat
         /\ b \in Nat /\ b >= 1 /\ b <= Len(Image) /\ Len(Image) \in Nat
<1>1. Image \in Seq([load_addr : Nat, data_len : Nat, data : Nat])
  BY ImageIsLaidOut
<1>2. Len(Image) \in Nat
  BY <1>1
<1>3. b \in 1 .. Len(Image)
  BY DEF Blocks
<1>4. Image[b] \in [load_addr : Nat, data_len : Nat, data : Nat]
  BY <1>1, <1>3, Elements
<1>5. QED
  BY <1>2, <1>3, <1>4

LEMMA RoundupAdds ==
  ASSUME NEW m \in Nat, NEW n \in Nat, m % 4 = 0
  PROVE  Roundup(m + n, 4) = m + Roundup(n, 4)
<1>1. (m + n + 3) \div 4 = (m \div 4) + ((n + 3) \div 4) /\ m = (m \div 4) * 4
  OBVIOUS
<1>2. QED
  BY <1>1 DEF Roundup

LEMMA ChunkFacts ==
  ASSUME NEW n \in Nat, n > 0
  PROVE  /\ Chunk(n) \in 1 .. 236 /\ Chunk(n) % 4 = 0
         /\ Left(n) \in Nat /\ Left(n) <= n
         /\ \/ Chunk(n) = Roundup(n, 4) /\ Left(n) = 0
            \/ n >= 236 /\ Chunk(n) = 236 /\ Left(n) = n - 236
<1>1. CASE n < 236
  <2>1. Chunk(n) = Roundup(n, 4)
    BY <1>1 DEF Chunk, BufSize, Hdrs
  <2>2. /\ Roundup(n, 4) \in Nat /\ Roundup(n, 4) % 4 = 0
        /\ n <= Roundup(n, 4) /\ Roundup(n, 4) <= n + 3
    BY Rounded
  <2>3. Roundup(n, 4) <= 236
    BY <1>1, <2>2
  <2>4. QED
    BY <2>1, <2>2, <2>3 DEF Left, Least
<1>2. CASE n >= 236
  BY <1>2 DEF Chunk, BufSize, Hdrs, Left, Least
<1>3. QED
  BY <1>1, <1>2

(* Two blocks with their rounding do not meet.                             *)
LEMMA Apart ==
  ASSUME NEW b \in Blocks, NEW c \in Blocks, b # c, NEW w \in Nat,
         w >= Image[b].load_addr, w < Image[b].load_addr + Roundup(Image[b].data_len, 4)
  PROVE  ~ (w >= Image[c].load_addr /\ w < Image[c].load_addr + Roundup(Image[c].data_len, 4))
<1>1. /\ Image[b].load_addr \in Nat /\ Roundup(Image[b].data_len, 4) \in Nat
      /\ Image[c].load_addr \in Nat /\ Roundup(Image[c].data_len, 4) \in Nat
  BY BlockFacts, Rounded
<1>2. QED
  BY <1>1, BlocksAreApart

-------------------------------------------------------------------------------
LEMMA InitInv == Init => DownloadInv
<1> SUFFICES ASSUME Init PROVE DownloadInv
  OBVIOUS
<1>1. TypeOK /\ PlaceInv
  <2>1. Len(Image) \in Nat
    BY ImageIsLaidOut
  <2>2. command \in [len : Nat, src : Nat, addr : Nat]
    BY DEF Init
  <2>3. block \in 1 .. Len(Image) + 1 /\ offset \in Nat /\ remains \in Nat
    BY <2>1 DEF Init, FwHdr
  <2>4. rawbuf \in BOOLEAN /\ pc = "magic" /\ watched \in Watched /\ content = Untouched
    BY DEF Init
  <2>5. QED
    BY <2>2, <2>3, <2>4 DEF Init, TypeOK, PlaceInv
<1>2. InPlace
  <2> SUFFICES ASSUME NEW b \in Blocks PROVE Image[b].load_addr + Written(b) - 1 < Image[b].load_addr
    BY BlockFacts, WatchedAreAddresses DEF InPlace, Init, Written
  <2>1. Written(b) = 0 /\ Image[b].load_addr \in Nat
    BY BlockFacts DEF Init, Written
  <2>2. QED
    BY <2>1
<1>3. NothingElseWritten /\ CommandFits
  BY DEF Init, NothingElseWritten, CommandFits
<1>4. QED
  BY <1>1, <1>2, <1>3 DEF DownloadInv

(* Only Write touches the memory of the target and sends commands.         *)
LEMMA OtherSteps ==
  ASSUME TypeOK, InPlace, NothingElseWritten, CommandFits,
         UNCHANGED <<command, watched, content>>,
         \A b \in Blocks : Written(b)' \in Nat /\ Written(b)' <= Written(b)
  PROVE  InPlace' /\ NothingElseWritten' /\ CommandFits'
<1>1. NothingElseWritten' /\ CommandFits'
  BY DEF NothingElseWritten, CommandFits
<1>2. ASSUME NEW b \in Blocks,
             watched' \in Image[b].load_addr .. (Image[b].load_addr + Written(b)' - 1)
      PROVE  content' = Image[b].data + (watched' - Image[b].load_addr)
  <2>1. Image[b].load_addr \in Nat /\ Written(b) \in Nat /\ watched \in Nat
    BY BlockFacts, WatchedAreAddresses DEF TypeOK, Written
  <2>2. Written(b)' \in Nat /\ Written(b)' <= Written(b) /\ watched' = watched
    OBVIOUS
  <2>3. watched \in Image[b].load_addr .. (Image[b].load_addr + Written(b) - 1)
    BY <1>2, <2>1, <2>2
  <2>4. QED
    BY <2>3 DEF InPlace
<1>3. QED
  BY <1>1, <1>2 DEF InPlace

LEMMA WriteStep ==
  ASSUME DownloadInv, Write
  PROVE  DownloadInv'
<1> DEFINE L == Image[block].data_len
           A == Image[block].load_addr
           D == Image[block].data
           done == L - remains
           n == Chunk(remains)
<1>1. /\ TypeOK /\ pc = "write" /\ remains \in Nat /\ remains > 0 /\ block \in Blocks
      /\ offset = D /\ remains <= L /\ done % 4 = 0
  BY DEF DownloadInv, PlaceInv, TypeOK, Write
<1>2. /\ L \in Nat /\ A \in Nat /\ D \in Nat /\ done \in Nat /\ watched \in Nat
      /\ Roundup(L, 4) \in Nat /\ L <= Roundup(L, 4)
  BY <1>1, BlockFacts, Rounded, WatchedAreAddresses DEF TypeOK
<1>3. /\ n \in 1 .. 236 /\ n % 4 = 0
      /\ Left(remains) \in Nat /\ Left(remains) <= remains
      /\ \/ n = Roundup(remains, 4) /\ Left(remains) = 0
         \/ remains >= 236 /\ n = 236 /\ Left(remains) = remains - 236
  BY <1>1, ChunkFacts
<1>4. done + n <= Roundup(L, 4) /\ L - Left(remains) <= done + n
  <2>1. CASE n = Roundup(remains, 4) /\ Left(remains) = 0
    <3>1. Roundup(done + remains, 4) = done + Roundup(remains, 4)
      BY <1>1, <1>2, RoundupAdds
    <3>2. done + remains = L
      BY <1>1, <1>2
    <3>3. QED
      BY <1>1, <1>2, <2>1, <3>1, <3>2
  <2>2. CASE remains >= 236 /\ n = 236 /\ Left(remains) = remains - 236
    BY <1>1, <1>2, <2>2
  <2>3. QED
    BY <1>3, <2>1, <2>2
<1>5. /\ remains' = Left(remains) /\ UNCHANGED <<block, offset, rawbuf, watched>>
      /\ command' = [len |-> n + Hdrs, src |-> D + done, addr |-> A + done]
      /\ pc' \in {"write", "failed"}
      /\ pc' = "write" => content' = Stored(D + done, A + done, n)
      /\ content' \in {content, Stored(D + done, A + done, n)}
  BY <1>1 DEF Write
<1>6. Stored(D + done, A + done, n) =
        IF watched \in (A + done) .. (A + done + n - 1) THEN D + (watched - A) ELSE content
  BY <1>1, <1>2, <1>3 DEF Stored
<1>7. \/ content' = content
      \/ /\ watched >= A + done /\ watched < A + done + n
         /\ content' = D + (watched - A)
  BY <1>2, <1>3, <1>5, <1>6
<1>8. TypeOK'
  <2>1. content' \in Nat \cup {Untouched}
    <3>1. content \in Nat \cup {Untouched}
      BY <1>1 DEF TypeOK
    <3>2. watched >= A + done => D + (watched - A) \in Nat
      BY <1>2
    <3>3. QED
      BY <1>7, <3>1, <3>2
  <2>2. command' \in [len : Nat, src : Nat, addr : Nat]
    <3>1. n + Hdrs \in Nat /\ D + done \in Nat /\ A + done \in Nat
      BY <1>2, <1>3 DEF Hdrs
    <3>2. QED
      BY <1>5, <3>1
  <2>3. QED
    BY <1>1, <1>3, <1>5, <2>1, <2>2 DEF TypeOK
<1>9. PlaceInv'
  <2>1. remains' <= L
    BY <1>1, <1>2, <1>3, <1>5
  <2>2. remains' > 0 => (L - remains') % 4 = 0
    <3>1. ASSUME remains' > 0 PROVE L - remains' = done + 236
      BY <1>1, <1>2, <1>3, <1>5, <3>1
    <3>2. (done + 236) % 4 = 0
      BY <1>1, <1>2
    <3>3. QED
      BY <3>1, <3>2
  <2>3. QED
    BY <1>1, <1>5, <2>1, <2>2 DEF PlaceInv
<1>10. InPlace'
  <2> SUFFICES ASSUME NEW b \in Blocks,
                      watched \in Image[b].load_addr .. (Image[b].load_addr + Written(b)' - 1)
               PROVE  content' = Image[b].data + (watched - Image[b].load_addr)
    BY <1>5 DEF InPlace
  <2>1. /\ Image[b].load_addr \in Nat /\ Image[b].data_len \in Nat
        /\ Image[b].data_len <= Roundup(Image[b].data_len, 4)
        /\ Roundup(Image[b].data_len, 4) \in Nat
    BY BlockFacts, Rounded
  <2>2. CASE b # block
    <3>1. Written(b)' = Written(b) /\ Written(b) <= Image[b].data_len /\ Written(b) \in Nat
      BY <1>5, <2>1, <2>2 DEF Written
    <3>2. watched >= Image[b].load_addr
          /\ watched < Image[b].load_addr + Roundup(Image[b].data_len, 4)
      BY <1>2, <2>1, <3>1
    <3>3. ~ (watched >= A /\ watched < A + Roundup(L, 4))
      BY <1>1, <1>2, <2>2, <3>2, Apart
    <3>4. content' = content
      BY <1>2, <1>3, <1>4, <1>7, <3>3
    <3>5. QED
      BY <3>1, <3>4 DEF DownloadInv, InPlace
  <2>3. CASE b = block /\ pc' = "failed"
    <3>1. Written(b)' = 0
      BY <1>1, <1>5, <2>3, BlockFacts DEF Written
    <3>2. QED
      BY <1>2, <2>1, <3>1
  <2>4. CASE b = block /\ pc' = "write"
    <3>1. Written(b)' = L - Left(remains) /\ Written(b) = done
      BY <1>1, <1>5, <2>4, BlockFacts DEF Written
    <3>2. CASE watched < A + done
      <4>1. watched \in A .. (A + Written(b) - 1)
        BY <1>2, <2>4, <3>1, <3>2
      <4>2. content = D + (watched - A)
        BY <2>4, <4>1 DEF DownloadInv, InPlace
      <4>3. QED
        BY <1>7, <2>4, <4>2
    <3>3. CASE watched >= A + done
      <4>1. watched \in (A + done) .. (A + done + n - 1)
        BY <1>2, <1>3, <1>4, <2>4, <3>1, <3>3
      <4>2. QED
        BY <1>5, <1>6, <2>4, <4>1
    <3>4. QED
      BY <1>2, <3>2, <3>3
  <2>5. QED
    BY <1>5, <2>2, <2>3, <2>4
<1>11. NothingElseWritten'
  <2>1. CASE content' = content
    BY <1>5, <2>1 DEF DownloadInv, NothingElseWritten
  <2>2. CASE /\ watched >= A + done /\ watched < A + done + n
             /\ content' = D + (watched - A)
    <3>1. watched - A \in 0 .. Roundup(L, 4) - 1
      BY <1>2, <1>3, <1>4, <2>2
    <3>2. QED
      BY <1>1, <1>5, <2>2, <3>1 DEF NothingElseWritten
  <2>3. QED
    BY <1>7, <2>1, <2>2
<1>12. CommandFits'
  <2>1. command'.len = n + Hdrs /\ command'.src = D + done
    BY <1>5
  <2>2. n + Hdrs \in Hdrs + 1 .. BufSize /\ (n + Hdrs) % 4 = 0
    BY <1>3 DEF Hdrs, BufSize
  <2>3. D + Roundup(L, 4) <= ImageLen
    BY <1>1, BlocksAreApart
  <2>4. D + done + (n + Hdrs) - Hdrs <= ImageLen
    <3>1. ImageLen \in Nat
      BY ImageIsLaidOut
    <3>2. QED
      BY <1>2, <1>3, <1>4, <2>3, <3>1 DEF Hdrs
  <2>5. QED
    BY <2>1, <2>2, <2>4 DEF CommandFits
<1>13. QED
  BY <1>8, <1>9, <1>10, <1>11, <1>12 DEF DownloadInv

LEMMA DownloadInvariant == Spec => []DownloadInv
<1>1. DownloadInv /\ [Next]_vars => DownloadInv'
  <2> SUFFICES ASSUME DownloadInv, [Next]_vars PROVE DownloadInv'
    OBVIOUS
  <2>0. TypeOK /\ PlaceInv /\ InPlace /\ NothingElseWritten /\ CommandFits
    BY DEF DownloadInv
  <2>1. CASE CheckMagic
    <3>1. TypeOK' /\ PlaceInv'
      BY <2>0, <2>1 DEF CheckMagic, TypeOK, PlaceInv
    <3>2. \A b \in Blocks : Written(b)' \in Nat /\ Written(b)' <= Written(b)
      BY <2>0, <2>1, BlockFacts DEF CheckMagic, Written, TypeOK
    <3>3. QED
      BY <2>0, <2>1, <3>1, <3>2, OtherSteps DEF CheckMagic, DownloadInv
  <2>2. CASE NextBlock
    <3>0. block \in Blocks /\ Image[block].data_len \in Nat /\ block \in Nat
      BY <2>2, BlockFacts DEF NextBlock
    <3>1. offset + BlkHdr = Image[block].data
      <4>1. Image[block].data = (IF block = 1 THEN FwHdr
              ELSE Image[block - 1].data + Image[block - 1].data_len) + BlkHdr
        BY <3>0, ImageIsLaidOut
      <4>2. offset = IF block = 1 THEN FwHdr
              ELSE Image[block - 1].data + Image[block - 1].data_len
        BY <2>0, <2>2 DEF NextBlock, PlaceInv
      <4>3. QED
        BY <4>1, <4>2
    <3>2. TypeOK'
      <4>1. offset' \in Nat /\ remains' \in Nat /\ block' \in 1 .. Len(Image) + 1
        BY <2>0, <2>2, <3>0 DEF NextBlock, TypeOK, BlkHdr
      <4>2. rawbuf' \in BOOLEAN /\ pc' \in {"write", "failed"}
        BY <2>0, <2>2 DEF NextBlock, TypeOK
      <4>3. UNCHANGED <<command, watched, content>>
        BY <2>2 DEF NextBlock
      <4>4. QED
        BY <2>0, <4>1, <4>2, <4>3 DEF TypeOK
    <3>3. PlaceInv'
      BY <2>2, <3>0, <3>1 DEF NextBlock, PlaceInv
    <3>4. \A b \in Blocks : Written(b)' \in Nat /\ Written(b)' <= Written(b)
      BY <2>0, <2>2, <3>0, BlockFacts DEF NextBlock, Written, TypeOK
    <3>5. QED
      BY <2>0, <2>2, <3>2, <3>3, <3>4, OtherSteps DEF NextBlock, DownloadInv
  <2>3. CASE Write
    BY <2>3, WriteStep
  <2>4. CASE EndBlock
    <3>0. /\ block \in Blocks /\ Image[block].data_len \in Nat /\ block \in Nat
          /\ Len(Image) \in Nat /\ block <= Len(Image) /\ block >= 1
          /\ offset = Image[block].data
      BY <2>0, <2>4, BlockFacts DEF EndBlock, PlaceInv
    <3>1. TypeOK'
      BY <2>0, <2>4, <3>0 DEF EndBlock, TypeOK
    <3>2. PlaceInv'
      BY <2>4, <3>0 DEF EndBlock, PlaceInv
    <3>3. \A b \in Blocks : Written(b)' \in Nat /\ Written(b)' <= Written(b)
      BY <2>0, <2>4, <3>0, BlockFacts DEF EndBlock, Written, TypeOK
    <3>4. QED
      BY <2>0, <2>4, <3>1, <3>2, <3>3, OtherSteps DEF EndBlock, DownloadInv
  <2>5. CASE Return
    <3>1. TypeOK' /\ PlaceInv'
      BY <2>0, <2>5 DEF Return, TypeOK, PlaceInv
    <3>2. \A b \in Blocks : Written(b)' \in Nat /\ Written(b)' <= Written(b)
      BY <2>0, <2>5, BlockFacts DEF Return, Written, TypeOK
    <3>3. QED
      BY <2>0, <2>5, <3>1, <3>2, OtherSteps DEF Return, DownloadInv
  <2>6. CASE UNCHANGED vars
    BY <2>6, <2>0 DEF vars, DownloadInv, TypeOK, PlaceInv, InPlace, Written,
       NothingElseWritten, CommandFits
  <2>7. QED
    BY <2>1, <2>2, <2>3, <2>4, <2>5, <2>6 DEF Next
<1>2. QED
  BY InitInv, <1>1, PTL DEF Spec

-------------------------------------------------------------------------------
(* The variables of the download keep their types; what remains is never   *)
(* negative.                                                               *)
THEOREM DownloadTypeCorrect == Spec => []TypeOK
BY DownloadInvariant, PTL DEF DownloadInv

(* For every image: its bytes arrive at their places.                      *)
THEOREM ImageIsInPlace == Spec => []InPlace
BY DownloadInvariant, PTL DEF DownloadInv

(* For every image: nothing but its bytes, and at most three behind a      *)
(* block, is written.                                                      *)
THEOREM NothingElseIsWritten == Spec => []NothingElseWritten
BY DownloadInvariant, PTL DEF DownloadInv

(* For every image: the commands fit rawbuf and are read from the image.   *)
THEOREM CommandsFit == Spec => []CommandFits
BY DownloadInvariant, PTL DEF DownloadInv

(* For every image: ESP_OK means that the whole of every block is at its   *)
(* place, not only what was written by then.                               *)
THEOREM OkMeansWholeImage ==
  Spec => [](pc = "ok" => \A b \in Blocks :
               watched \in Image[b].load_addr .. (Image[b].load_addr + Image[b].data_len - 1) =>
                 content = Image[b].data + (watched - Image[b].load_addr))
<1> DEFINE Behind == pc = "ok" => block = Len(Image) + 1
           Whole == \A b \in Blocks :
             watched \in Image[b].load_addr .. (Image[b].load_addr + Image[b].data_len - 1) =>
               content = Image[b].data + (watched - Image[b].load_addr)
<1>1. Init => Behind
  BY DEF Init
<1>2. DownloadInv /\ Behind /\ [Next]_vars => Behind'
  <2>1. SUFFICES ASSUME DownloadInv, Behind, [Next]_vars PROVE Behind'
    OBVIOUS
  <2>2. CASE Return
    BY <2>1, <2>2, ImageIsLaidOut DEF Return, DownloadInv, TypeOK, Blocks
  <2>3. QED
    BY <2>1, <2>2 DEF Next, CheckMagic, NextBlock, Write, EndBlock, vars
<1>3. DownloadInv /\ Behind => (pc = "ok" => Whole)
  <2>1. SUFFICES ASSUME DownloadInv, Behind, pc = "ok", NEW b \in Blocks
                 PROVE  Written(b) = Image[b].data_len
    BY DEF DownloadInv, InPlace
  <2>2. QED
    BY <2>1, BlockFacts DEF Written
<1>4. QED
  BY <1>1, <1>2, <1>3, DownloadInvariant, PTL DEF Spec

(* For every image: every step of esp_fw_download and of the loop of       *)
(* esp_sip_write_mem goes on, to the next block, to the next of its        *)
(* stages, or to less that remains, all of which are bounded (TypeOK).     *)
(* That is why the loops end.                                              *)
Stage == [magic |-> 0, header |-> 1, write |-> 2, ok |-> 3, failed |-> 3]
GoesOn ==
  \/ block' > block
  \/ block' = block /\ Stage[pc'] > Stage[pc]
  \/ block' = block /\ pc' = pc /\ remains' < remains
THEOREM DownloadGoesOn == Spec => [][GoesOn]_vars
<1>1. DownloadInv /\ [Next]_vars => [GoesOn]_vars
  <2>1. SUFFICES ASSUME DownloadInv, Next PROVE GoesOn
    OBVIOUS
  <2>2. block \in Nat /\ remains \in Nat
    BY <2>1, ImageIsLaidOut DEF DownloadInv, TypeOK
  <2>3. CASE Write
    <3>1. Chunk(remains) > 0 /\ Left(remains) < remains
      BY <2>2, <2>3, ChunkFacts DEF Write
    <3>2. QED
      BY <2>3, <3>1 DEF Write, GoesOn, Stage
  <2>4. CASE CheckMagic \/ NextBlock \/ EndBlock \/ Return
    BY <2>2, <2>4 DEF CheckMagic, NextBlock, EndBlock, Return, GoesOn, Stage
  <2>5. QED
    BY <2>1, <2>3, <2>4 DEF Next
<1>2. QED
  BY <1>1, DownloadInvariant, PTL DEF Spec

-------------------------------------------------------------------------------
(***************************************************************************)
(* The two together.                                                       *)
(***************************************************************************)

(* esp_sip_write_mem goes to write_bytes directly.  For every image, what  *)
(* it hands down there is what send_packet would make of the same length:  *)
(* one command of exactly these bytes, which leaves no rest, takes one     *)
(* buffer of the target, and for which (chdr->len + 3) & (~3) reads        *)
(* nothing behind rawbuf.                                                  *)
OneTransfer ==
  command.len # 0 =>
    LET n == command.len IN
      /\ n < Block
      /\ Count(n) = n /\ Moved(n) = n
      /\ BuffersUsed(n) = 1
      /\ Roundup(n, 4) <= BufSize

THEOREM DownloadTakesNoLoop == Spec => []OneTransfer
<1>1. DownloadInv => OneTransfer
  <2> SUFFICES ASSUME DownloadInv, NEW n, n = command.len, n # 0
               PROVE  /\ n < Block
                      /\ Count(n) = n /\ Moved(n) = n
                      /\ BuffersUsed(n) = 1
                      /\ Roundup(n, 4) <= BufSize
    BY DEF OneTransfer
  <2>1. n \in 21 .. 256 /\ n % 4 = 0
    BY DEF DownloadInv, CommandFits, Hdrs, BufSize
  <2>2. Roundup(n, 4) = n
    <3>1. (n + 4 - 1) \div 4 = n \div 4 /\ n = (n \div 4) * 4
      BY <2>1
    <3>2. QED
      BY <3>1 DEF Roundup
  <2>3. WholeBlocks(n) = 0
    <3>1. n \in Nat /\ n < Block
      BY <2>1 DEF Block
    <3>2. QED
      BY <3>1, Divided
  <2>4. BuffersUsed(n) = 1
    BY <2>1 DEF BuffersUsed, Block
  <2>5. QED
    BY <2>1, <2>2, <2>3, <2>4 DEF Count, Moved, Block, BufSize
<1>2. QED
  BY DownloadInvariant, <1>1, PTL
=============================================================================
