---------------------------- MODULE RecvPathProofs ----------------------------
(***************************************************************************)
(* Theorems about RecvPath, for every width of the counters, every size of *)
(* headers and of recv_buf and any number of packets and failures.         *)
(***************************************************************************)
EXTENDS RecvPath, TLAPS

(* The parts of the inductive invariant.                                   *)

(* Packets follow one another, and each has a header; the target keeps     *)
(* less than the host's counter can tell apart.                            *)
StreamInv ==
  /\ \A i, j \in 1 .. Len(ends) : i <= j => Start(i) + HdrLen <= ends[j]
  /\ End - taken <= MaxPending

(* total_rx is the true count in as many bits as it has.                   *)
CountInv == ~ torn => total_rx = taken % Word

(* Unless the stream is torn or cut, the host parses from one start of a   *)
(* packet to another and has handed on everything in front of the first.   *)
WholeInv ==
  ~ torn /\ ~ cut =>
    /\ rxseq = handled
    /\ \E n \in 1 .. Len(ends) + 1 :
         /\ n = handled + 1
         /\ receiver # "parse" => taken = Start(n)
         /\ receiver = "parse" => lo = Start(n)
    /\ receiver = "parse" =>
         /\ hi = taken
         /\ \E m \in 1 .. Len(ends) + 1 : taken = Start(m)

(* Every header still to come has a number that rxseq has not passed, and  *)
(* it has passed them for good once it lags.                               *)
Cursor == IF receiver = "parse" THEN Least(lo, taken) ELSE taken

OrderInv ==
  ~ garbled =>
    /\ handled <= rxseq
    /\ rxseq <= Len(ends)
    /\ rxseq # handled => rxseq < Len(ends)
    /\ \A n \in 1 .. Len(ends) :
         Start(n) >= Cursor => /\ n - 1 >= rxseq
                               /\ rxseq # handled => n - 1 > rxseq

RecvInv ==
  /\ TypeOK /\ StreamInv /\ CountInv /\ WholeInv /\ OrderInv
  /\ NoPacketForgotten
-------------------------------------------------------------------------------
(* Arithmetic.  A distance shorter than one turn of a counter can be read  *)
(* off the counter, whatever wider counter the other end is kept in.       *)
LEMMA Remainder ==
  ASSUME NEW M \in Nat \ {0}, NEW z \in Int, NEW d \in 0 .. M - 1
  PROVE  (d + M * z) % M = d
OBVIOUS

LEMMA Quotient ==
  ASSUME NEW M \in Nat \ {0}, NEW a \in Int
  PROVE  \E q \in Int : a = (a % M) + M * q
<1> WITNESS a \div M \in Int
<1> QED OBVIOUS

LEMMA Distance ==
  ASSUME NEW M \in Nat \ {0}, NEW W, \E k \in Nat \ {0} : W = k * M,
         NEW a \in Int, NEW b \in Int, a - b \in 0 .. M - 1
  PROVE  (((a % M) + M - (b % W)) % W) % M = a - b
<1>1. PICK k \in Nat \ {0} : W = k * M
  OBVIOUS
<1>2. PICK x : x = (a % M) + M - (b % W)
  OBVIOUS
<1>3. W \in Nat \ {0} /\ x \in Int
  BY <1>1, <1>2
<1>4. PICK p \in Int : a = (a % M) + M * p
  BY Quotient
<1>5. PICK q \in Int : b = (b % W) + W * q
  BY <1>3, Quotient
<1>6. PICK r \in Int : x = (x % W) + W * r
  BY <1>3, Quotient
<1>7. PICK u \in Int : W * q = M * u
  <2>1. k * q \in Int /\ W * q = M * (k * q)
    BY <1>1
  <2>2. QED
    BY <2>1
<1>8. PICK v \in Int : W * r = M * v
  <2>1. k * r \in Int /\ W * r = M * (k * r)
    BY <1>1
  <2>2. QED
    BY <2>1
<1>9. PICK z \in Int : z = u + 1 - p - v
  OBVIOUS
<1>10. PICK P, U, V, Z \in Int : P = M * p /\ U = M * u /\ V = M * v /\ Z = M * z
  OBVIOUS
<1>11. Z = U + M - P - V
  BY <1>9, <1>10
<1>12. a % M \in Int /\ b % W \in Int /\ x % W \in Int
  BY <1>3
<1>13. a = (a % M) + P
  BY <1>4, <1>10
<1>14. b = (b % W) + U
  BY <1>5, <1>7, <1>10
<1>15. x = (x % W) + V
  BY <1>6, <1>8, <1>10
<1>16. x % W = (a - b) + Z
  BY <1>2, <1>11, <1>12, <1>13, <1>14, <1>15
<1>17. QED
  BY <1>2, <1>10, <1>16, Remainder

(* Only the remainder of what was counted before matters.                  *)
LEMMA AddBehind ==
  ASSUME NEW W \in Nat \ {0}, NEW a \in Int, NEW b \in Int
  PROVE  ((a % W) + b) % W = (a + b) % W
<1>1. PICK q \in Int : a = (a % W) + W * q
  BY Quotient
<1>2. PICK r \in Int : (a % W) + b = (((a % W) + b) % W) + W * r
  <2>1. (a % W) + b \in Int
    OBVIOUS
  <2>2. QED
    BY <2>1, Quotient
<1>3. ((a % W) + b) % W \in 0 .. W - 1 /\ a % W \in Int
  OBVIOUS
<1>4. PICK z \in Int : z = q + r
  OBVIOUS
<1>5. PICK P, Q, Z \in Int : P = W * q /\ Q = W * r /\ Z = W * z
  OBVIOUS
<1>6. Z = P + Q
  BY <1>4, <1>5
<1>7. a + b = (((a % W) + b) % W) + Z
  BY <1>1, <1>2, <1>3, <1>5, <1>6
<1>8. PICK d \in 0 .. W - 1 : d = ((a % W) + b) % W
  BY <1>3
<1>9. (d + W * z) % W = d
  BY Remainder
<1>10. QED
  BY <1>5, <1>7, <1>8, <1>9

LEMMA Constants ==
  /\ RxByteMax \in Nat \ {0} /\ Word \in Nat \ {0}
  /\ MaxPending \in Nat /\ MaxPending < RxByteMax
  /\ RecvBuf \in Nat \ {0} /\ MaxFaults \in Nat /\ MaxPackets \in Nat
  /\ HdrLen \in Nat \ {0}
  /\ \E k \in Nat \ {0} : Word = k * RxByteMax
<1>1. PICK k \in 1 .. Word : Word = k * RxByteMax
  BY RecvAssumption
<1>2. RxByteMax \in Nat \ {0} /\ Word \in Nat
  BY RecvAssumption
<1>3. k \in Nat \ {0}
  BY <1>2
<1>4. QED
  BY <1>1, <1>2, <1>3, RecvAssumption

LEMMA FaultCounts ==
  ASSUME TypeOK, Fault \/ UNCHANGED faults
  PROVE  faults' \in 0 .. MaxFaults
BY Constants DEF TypeOK, Fault

(* The starts of the packets, and of the one that would come next.         *)
LEMMA Starts ==
  ASSUME TypeOK, StreamInv
  PROVE  /\ Len(ends) \in Nat
         /\ End = Start(Len(ends) + 1)
         /\ \A n \in 1 .. Len(ends) + 1 : Start(n) \in Nat
         /\ \A n \in 1 .. Len(ends) : ends[n] \in Nat /\ Start(n + 1) = ends[n]
         /\ \A i, j \in 1 .. Len(ends) + 1 :
              i < j => Start(i) + HdrLen <= Start(j) /\ Start(i) < Start(j)
<1>1. ends \in Seq(Nat) /\ Len(ends) \in Nat
  BY DEF TypeOK
<1>2. \A n \in 1 .. Len(ends) : ends[n] \in Nat
  BY <1>1
<1>3. \A n \in 1 .. Len(ends) + 1 : Start(n) \in Nat
  BY <1>1, <1>2 DEF Start
<1>4. \A n \in 1 .. Len(ends) : Start(n + 1) = ends[n]
  BY <1>1 DEF Start
<1>5. ASSUME NEW i \in 1 .. Len(ends) + 1, NEW j \in 1 .. Len(ends) + 1, i < j
      PROVE  Start(i) + HdrLen <= Start(j) /\ Start(i) < Start(j)
  <2>1. i \in 1 .. Len(ends) /\ j - 1 \in 1 .. Len(ends) /\ i <= j - 1
    BY <1>1, <1>5
  <2>2. Start(j) = ends[j - 1]
    BY <1>1, <1>5 DEF Start
  <2>3. Start(i) + HdrLen <= ends[j - 1]
    BY <2>1 DEF StreamInv
  <2>4. Start(i) \in Nat /\ ends[j - 1] \in Nat
    BY <1>2, <1>3, <2>1
  <2>5. QED
    BY <2>2, <2>3, <2>4, Constants
<1>6. QED
  BY <1>1, <1>2, <1>3, <1>4, <1>5 DEF End

(* From a start of a packet in front of another, a header fits in between. *)
LEMMA HeaderFits ==
  ASSUME TypeOK, StreamInv,
         NEW i \in 1 .. Len(ends) + 1, NEW m \in 1 .. Len(ends) + 1,
         Start(i) < Start(m)
  PROVE  i \in 1 .. Len(ends) /\ Start(i) + HdrLen <= Start(m)
<1>1. Len(ends) \in Nat /\ Start(i) \in Nat /\ Start(m) \in Nat
  BY Starts
<1>2. m < i => Start(m) < Start(i)
  BY Starts
<1>3. i < m
  BY <1>1, <1>2
<1>4. QED
  BY <1>1, <1>3, Starts

LEMMA SizeIsDistance ==
  ASSUME TypeOK, StreamInv, CountInv
  PROVE  /\ DataSize \in Nat
         /\ ~ torn => DataSize = End - taken
<1>1. End \in Nat /\ taken \in Nat /\ taken <= End /\ total_rx \in Nat
  BY Starts, Constants DEF TypeOK
<1>2. DataSize \in Nat
  BY <1>1, Constants DEF DataSize
<1>3. ASSUME ~ torn
      PROVE  DataSize = End - taken
  <2>1. End - taken \in 0 .. RxByteMax - 1
    BY <1>1, Constants DEF StreamInv
  <2>2. total_rx = taken % Word
    BY <1>3 DEF CountInv
  <2>3. RxByteMax \in Nat \ {0} /\ End \in Int /\ taken \in Int
    BY <1>1, Constants
  <2>4. (((End % RxByteMax) + RxByteMax - (taken % Word)) % Word) % RxByteMax
        = End - taken
    BY <2>1, <2>3, Constants, Distance
  <2>5. QED
    BY <2>2, <2>4 DEF DataSize
<1>4. QED
  BY <1>2, <1>3

-------------------------------------------------------------------------------
(* The flags, apart: what the provers need for them differs.               *)
FlagsOK == /\ newPkt \in BOOLEAN /\ missed \in BOOLEAN
           /\ torn \in BOOLEAN /\ cut \in BOOLEAN /\ garbled \in BOOLEAN

LEMMA FlagsStep == TypeOK /\ Next => FlagsOK'
<1> SUFFICES ASSUME TypeOK, Next PROVE FlagsOK'
  OBVIOUS
<1> USE DEF devVars, readVars, bufVars, seqVars
<1>1. FlagsOK
  BY DEF TypeOK, FlagsOK
<1>2. CASE \E s \in Sizes : Produce(s)
  BY <1>1, <1>2, Zenon DEF FlagsOK, Produce
<1>3. CASE GetIntr \/ ClearIntr
  BY <1>1, <1>3, Zenon DEF FlagsOK, GetIntr, ClearIntr
<1>4. CASE GetPacketFails
  <2>1. UNCHANGED <<newPkt, cut, garbled>> /\ missed' = TRUE
    BY <1>4, Zenon DEF GetPacketFails
  <2>2. torn' \in BOOLEAN
    BY <1>4, Zenon DEF GetPacketFails
  <2>3. QED
    BY <1>1, <2>1, <2>2, Zenon DEF FlagsOK
<1>5. CASE GetPacketTimeout
  BY <1>1, <1>5, Zenon DEF FlagsOK, GetPacketTimeout
<1>6. CASE GetPacket
  <2>1. UNCHANGED <<newPkt, torn, garbled>> /\ missed' = FALSE
    BY <1>6, Zenon DEF GetPacket
  <2>2. cut' \in BOOLEAN
    BY <1>6, Zenon DEF GetPacket
  <2>3. QED
    BY <1>1, <2>1, <2>2, Zenon DEF FlagsOK
<1>7. CASE Parse
  BY <1>1, <1>7, Zenon DEF FlagsOK, Parse, Handle, Refuse, Garbage
<1>8. QED
  BY <1>2, <1>3, <1>4, <1>5, <1>6, <1>7 DEF Next, Read

(* As long as ends stays, so does all that is computed from it.            *)
LEMMA Frame ==
  ASSUME ends' = ends
  PROVE  /\ End' = End
         /\ \A n : Start(n)' = Start(n)
         /\ StreamInv /\ taken' >= taken /\ taken' \in Nat /\ taken \in Nat
            /\ End \in Nat => StreamInv'
<1>1. \A n : Start(n)' = Start(n)
  BY DEF Start
<1>2. End' = End
  BY DEF End, Start
<1>3. QED
  BY <1>1, <1>2, Constants DEF StreamInv

-------------------------------------------------------------------------------
LEMMA InitInv == Init => RecvInv
<1> SUFFICES ASSUME Init PROVE RecvInv
  OBVIOUS
<1>1. ends = << >> /\ Len(ends) = 0 /\ End = 0 /\ Start(1) = 0
  BY DEF Init, End, Start
<1>2. TypeOK
  <2>1. ends \in Seq(Nat) /\ Len(ends) <= MaxPackets
    BY <1>1, Constants
  <2>2. taken \in 0 .. End /\ total_rx \in 0 .. Word - 1 /\ faults \in 0 .. MaxFaults
    BY <1>1, Constants DEF Init
  <2>3. QED
    BY <1>1, <2>1, <2>2 DEF Init, TypeOK
<1>3. StreamInv /\ NoPacketForgotten
  BY <1>1, Constants DEF Init, StreamInv, NoPacketForgotten
<1>4. CountInv
  BY Constants DEF Init, CountInv
<1>5. WholeInv /\ OrderInv
  BY <1>1 DEF Init, WholeInv, OrderInv
<1>6. QED
  BY <1>2, <1>3, <1>4, <1>5 DEF RecvInv

(* The target: only the string grows.                                      *)
LEMMA ProduceStep ==
  ASSUME RecvInv, NEW s \in Sizes, Produce(s)
  PROVE  RecvInv'
<1> USE DEF devVars, readVars, bufVars, seqVars
<1>0. TypeOK /\ StreamInv
  BY DEF RecvInv
<1>1. /\ ends' = Append(ends, End + s) /\ newPkt' = TRUE
      /\ Len(ends) < MaxPackets /\ End + s - taken <= MaxPending
      /\ UNCHANGED <<taken, total_rx, missed, torn, cut, lo, hi, rxseq, handled,
                     garbled, receiver, faults>>
  BY DEF Produce
<1>2. /\ s \in Nat /\ HdrLen <= s /\ Len(ends) \in Nat /\ ends \in Seq(Nat)
      /\ End \in Nat /\ taken \in Nat /\ taken <= End
  <2>1. s \in Nat /\ HdrLen <= s
    BY RecvAssumption
  <2>2. QED
    BY <1>0, <2>1, Starts DEF TypeOK
<1>3. /\ ends' \in Seq(Nat) /\ Len(ends') = Len(ends) + 1
      /\ ends'[Len(ends) + 1] = End + s
      /\ \A n \in 1 .. Len(ends) : ends'[n] = ends[n]
  BY <1>1, <1>2
<1>4. ASSUME NEW n \in 1 .. Len(ends) + 1
      PROVE  Start(n)' = Start(n)
  <2>1. CASE n = 1
    BY <2>1 DEF Start
  <2>2. CASE n # 1
    <3>1. n - 1 \in 1 .. Len(ends)
      BY <1>2, <2>2
    <3>2. QED
      BY <1>3, <2>2, <3>1 DEF Start
  <2>3. QED
    BY <2>1, <2>2
<1>5. End' = End + s
  BY <1>2, <1>3 DEF End, Start
<1>6. TypeOK'
  <2>1. FlagsOK'
    BY <1>0, FlagsStep DEF Next
  <2>2. Len(ends') <= MaxPackets /\ taken' \in 0 .. End'
    BY <1>1, <1>2, <1>3, <1>5, Constants
  <2>3. handled' \in 0 .. Len(ends')
    BY <1>0, <1>1, <1>2, <1>3 DEF TypeOK
  <2>4. QED
    BY <1>0, <1>1, <1>3, <2>1, <2>2, <2>3 DEF TypeOK, FlagsOK
<1>7. StreamInv'
  <2>1. ASSUME NEW i \in 1 .. Len(ends'), NEW j \in 1 .. Len(ends'), i <= j
        PROVE  Start(i)' + HdrLen <= ends'[j]
    <3>1. CASE j <= Len(ends)
      <4>1. i \in 1 .. Len(ends) /\ j \in 1 .. Len(ends)
        BY <1>2, <1>3, <2>1, <3>1
      <4>2. Start(i)' = Start(i) /\ ends'[j] = ends[j]
        BY <1>2, <1>3, <1>4, <4>1
      <4>3. QED
        BY <1>0, <2>1, <4>1, <4>2 DEF StreamInv
    <3>2. CASE j = Len(ends) + 1
      <4>1. Start(i)' = Start(i) /\ Start(i) \in Nat /\ Start(i) <= End
        <5>1. i \in 1 .. Len(ends) + 1
          BY <1>2, <1>3
        <5>2. i = Len(ends) + 1 \/ i < Len(ends) + 1
          BY <1>2, <5>1
        <5>3. QED
          BY <1>0, <1>2, <1>4, <5>1, <5>2, Starts
      <4>2. QED
        BY <4>1, <1>2, <1>3, <3>2, Constants
    <3>3. j <= Len(ends) \/ j = Len(ends) + 1
      BY <1>2, <1>3
    <3>4. QED
      BY <3>1, <3>2, <3>3
  <2>2. (End - taken <= MaxPending)'
    BY <1>1, <1>2, <1>5
  <2>3. QED
    BY <2>1, <2>2 DEF StreamInv
<1>8. CountInv' /\ NoPacketForgotten'
  BY <1>1 DEF RecvInv, CountInv, NoPacketForgotten
<1>9. WholeInv'
  <2>1. CASE torn \/ cut
    BY <1>1, <2>1 DEF WholeInv
  <2>2. CASE ~ torn /\ ~ cut
    <3>1. PICK n \in 1 .. Len(ends) + 1 :
            /\ n = handled + 1
            /\ receiver # "parse" => taken = Start(n)
            /\ receiver = "parse" => lo = Start(n)
      BY <2>2 DEF RecvInv, WholeInv
    <3>2. n \in 1 .. Len(ends') + 1 /\ Start(n)' = Start(n)
      BY <1>2, <1>3, <1>4
    <3>3. CASE receiver = "parse"
      <4>1. PICK m \in 1 .. Len(ends) + 1 : taken = Start(m)
        BY <2>2, <3>3 DEF RecvInv, WholeInv
      <4>2. m \in 1 .. Len(ends') + 1 /\ Start(m)' = Start(m)
        BY <1>2, <1>3, <1>4
      <4>3. QED
        BY <1>1, <2>2, <3>1, <3>2, <3>3, <4>1, <4>2 DEF RecvInv, WholeInv
    <3>4. CASE receiver # "parse"
      BY <1>1, <2>2, <3>1, <3>2, <3>4 DEF RecvInv, WholeInv
    <3>5. QED
      BY <3>3, <3>4
  <2>3. QED
    BY <2>1, <2>2
<1>10. OrderInv'
  <2>1. Cursor' = Cursor
    BY <1>1 DEF Cursor, Least
  <2>2. rxseq \in Nat /\ handled \in Nat
    BY <1>0 DEF TypeOK
  <2>3. QED
    BY <1>1, <1>2, <1>3, <1>4, <2>1, <2>2 DEF RecvInv, OrderInv
<1>11. QED
  BY <1>6, <1>7, <1>8, <1>9, <1>10 DEF RecvInv

(* The interrupt.                                                          *)
LEMMA IntrStep ==
  ASSUME RecvInv, GetIntr \/ ClearIntr \/ UNCHANGED vars
  PROVE  RecvInv'
<1> USE DEF devVars, readVars, bufVars, seqVars
<1>1. /\ UNCHANGED <<ends, readVars, bufVars, seqVars>>
      /\ receiver # "parse" <=> receiver' # "parse"
  BY DEF GetIntr, ClearIntr, vars
<1>2. /\ End' = End /\ \A n : Start(n)' = Start(n)
      /\ Cursor' = Cursor
  BY <1>1, Frame DEF Cursor, Least
<1>3. TypeOK'
  <2>1. FlagsOK'
    BY FlagsStep DEF RecvInv, Next, TypeOK, FlagsOK, vars
  <2>2. faults' \in 0 .. MaxFaults
    BY FaultCounts DEF RecvInv, GetIntr, ClearIntr, vars
  <2>3. receiver' \in {"wait", "clear", "read", "parse", "gone"}
    BY DEF RecvInv, TypeOK, GetIntr, ClearIntr, vars
  <2>4. QED
    BY <1>1, <1>2, <2>1, <2>2, <2>3 DEF RecvInv, TypeOK, FlagsOK
<1>4. StreamInv' /\ CountInv' /\ OrderInv' /\ WholeInv'
  BY <1>1, <1>2 DEF RecvInv, StreamInv, CountInv, OrderInv, WholeInv
<1>5. NoPacketForgotten'
  BY <1>1, <1>2 DEF RecvInv, NoPacketForgotten, GetIntr, ClearIntr, vars
<1>6. QED
  BY <1>3, <1>4, <1>5 DEF RecvInv

(* get_packet.                                                             *)
LEMMA TimeoutStep ==
  ASSUME RecvInv, GetPacketTimeout
  PROVE  RecvInv'
<1> USE DEF devVars, readVars, bufVars, seqVars
<1>1. /\ UNCHANGED <<ends, newPkt, readVars, bufVars, seqVars, faults>>
      /\ receiver = "read" /\ receiver' = "wait" /\ DataSize = 0
  BY DEF GetPacketTimeout
<1>2. /\ End' = End /\ \A n : Start(n)' = Start(n)
      /\ Cursor' = Cursor
  BY <1>1, Frame DEF Cursor
<1>3. TypeOK' /\ StreamInv' /\ CountInv' /\ OrderInv' /\ WholeInv'
  BY <1>1, <1>2 DEF RecvInv, TypeOK, StreamInv, CountInv, OrderInv, WholeInv
<1>4. ~ torn => ~ (taken < End)
  <2>1. taken \in Nat /\ End \in Nat
    BY Starts DEF RecvInv, TypeOK
  <2>2. QED
    BY <1>1, <2>1, SizeIsDistance DEF RecvInv
<1>5. NoPacketForgotten'
  BY <1>1, <1>2, <1>4 DEF NoPacketForgotten
<1>6. QED
  BY <1>3, <1>5 DEF RecvInv

LEMMA FailStep ==
  ASSUME RecvInv, GetPacketFails
  PROVE  RecvInv'
<1> USE DEF devVars, readVars, bufVars, seqVars
<1>0. TypeOK /\ StreamInv
  BY DEF RecvInv
<1>1. PICK k \in 0 .. Least(DataSize, RecvBuf) :
        taken' = Least(taken + k, End) /\ torn' = (torn \/ k > 0)
  BY DEF GetPacketFails
<1>2. /\ UNCHANGED <<ends, newPkt, total_rx, cut, lo, hi, rxseq, handled, garbled>>
      /\ receiver = "read" /\ receiver' = "wait" /\ missed' = TRUE
  BY DEF GetPacketFails
<1>3. /\ k \in Nat /\ taken \in Nat /\ End \in Nat /\ taken <= End
      /\ taken' \in taken .. End
      /\ ~ torn' => ~ torn /\ taken' = taken
  <2>1. taken \in Nat /\ End \in Nat /\ taken <= End
    BY <1>0, Starts DEF TypeOK
  <2>2. k \in Nat
    BY <1>0, SizeIsDistance, Constants DEF RecvInv, Least
  <2>3. taken' \in taken .. End
    BY <1>1, <2>1, <2>2 DEF Least
  <2>4. ASSUME ~ torn' PROVE ~ torn /\ taken' = taken
    <3>1. ~ torn /\ ~ (k > 0)
      BY <1>1, <2>4, Zenon
    <3>2. QED
      BY <1>1, <2>1, <2>2, <3>1 DEF Least
  <2>5. QED
    BY <2>1, <2>2, <2>3, <2>4
<1>4. /\ End' = End /\ StreamInv'
      /\ \A n : Start(n)' = Start(n)
  BY <1>0, <1>2, <1>3, Frame
<1>5. TypeOK'
  <2>1. FlagsOK'
    BY <1>0, FlagsStep DEF Next, Read
  <2>2. faults' \in 0 .. MaxFaults
    BY <1>0, FaultCounts DEF GetPacketFails
  <2>3. taken' \in 0 .. End'
    BY <1>3, <1>4
  <2>4. QED
    BY <1>0, <1>2, <2>1, <2>2, <2>3 DEF TypeOK, FlagsOK
<1>6. CountInv' /\ WholeInv' /\ NoPacketForgotten'
  BY <1>2, <1>3, <1>4 DEF RecvInv, CountInv, WholeInv, NoPacketForgotten
<1>7. OrderInv'
  <2>1. Cursor = taken /\ Cursor' = taken'
    BY <1>2 DEF Cursor
  <2>2. \A n \in 1 .. Len(ends) : Start(n) >= taken' => Start(n) >= taken
    <3>1. \A n \in 1 .. Len(ends) : Start(n) \in Nat
      BY <1>0, Starts
    <3>2. QED
      BY <1>3, <3>1
  <2>3. QED
    BY <1>2, <1>4, <2>1, <2>2 DEF RecvInv, OrderInv
<1>8. QED
  BY <1>4, <1>5, <1>6, <1>7 DEF RecvInv

LEMMA GetPacketStep ==
  ASSUME RecvInv, GetPacket
  PROVE  RecvInv'
<1> USE DEF devVars, readVars, bufVars, seqVars
<1>0. TypeOK /\ StreamInv /\ CountInv
  BY DEF RecvInv
<1>1. PICK len : len = Least(DataSize, RecvBuf)
  OBVIOUS
<1>2. /\ lo' = taken /\ hi' = taken + len
      /\ taken' = Least(taken + len, End)
      /\ total_rx' = (total_rx + len) % Word
      /\ cut' = (cut \/ len < DataSize)
      /\ receiver = "read" /\ DataSize > 0
      /\ receiver' = IF len < HdrLen THEN "wait" ELSE "parse"
      /\ UNCHANGED <<ends, newPkt, torn, rxseq, handled, garbled, faults>>
  BY <1>1 DEF GetPacket
<1>3. taken \in Nat /\ End \in Nat /\ taken <= End /\ DataSize \in Nat
  BY <1>0, Starts, SizeIsDistance DEF TypeOK
<1>4. /\ len \in Nat /\ len > 0 /\ taken' \in taken .. End
      /\ ~ torn => taken' = taken + len
      /\ ~ torn /\ ~ cut' => ~ cut /\ taken' = End /\ hi' = End
  <2>1. len \in Nat /\ len > 0 /\ len <= DataSize
    BY <1>1, <1>2, <1>3, Constants DEF Least
  <2>2. taken' \in taken .. End
    BY <1>2, <1>3, <2>1 DEF Least
  <2>3. ASSUME ~ torn PROVE DataSize = End - taken /\ taken' = taken + len
    <3>1. DataSize = End - taken
      BY <1>0, <2>3, SizeIsDistance
    <3>2. QED
      BY <1>2, <1>3, <2>1, <3>1 DEF Least
  <2>4. ASSUME ~ torn, ~ cut' PROVE ~ cut /\ taken' = End /\ hi' = End
    <3>0. ~ cut /\ ~ (len < DataSize)
      BY <1>2, <2>4, Zenon
    <3>1. ~ cut /\ len = DataSize
      BY <1>3, <2>1, <3>0
    <3>2. QED
      BY <1>2, <1>3, <2>3, <2>4, <3>1
  <2>5. QED
    BY <2>1, <2>2, <2>3, <2>4
<1>5. End' = End /\ StreamInv' /\ \A n : Start(n)' = Start(n)
  BY <1>0, <1>2, <1>3, <1>4, Frame
<1>6. ~ torn /\ ~ cut' => receiver' = "parse"
  <2>1. SUFFICES ASSUME ~ torn, ~ cut' PROVE ~ (len < HdrLen)
    BY <1>2
  <2>2. PICK n \in 1 .. Len(ends) + 1 : taken = Start(n)
    BY <1>2, <1>4, <2>1 DEF RecvInv, WholeInv
  <2>3. taken + len = End /\ len > 0
    BY <1>2, <1>3, <1>4, <2>1
  <2>4. Start(n) + HdrLen <= End
    <3>1. Len(ends) \in Nat /\ End = Start(Len(ends) + 1) /\ Start(n) \in Nat
      BY <1>0, Starts
    <3>2. n # Len(ends) + 1
      BY <1>3, <1>4, <2>2, <2>3, <3>1
    <3>3. n < Len(ends) + 1 /\ Len(ends) + 1 \in 1 .. Len(ends) + 1
      BY <3>1, <3>2
    <3>4. QED
      BY <1>0, <3>1, <3>3, Starts
  <2>5. QED
    BY <1>3, <1>4, <2>2, <2>3, <2>4, Constants
<1>7. TypeOK'
  <2>1. FlagsOK'
    BY <1>0, FlagsStep DEF Next, Read
  <2>2. taken' \in 0 .. End' /\ lo' \in Nat /\ hi' \in Nat /\ lo' < hi'
    BY <1>2, <1>3, <1>4, <1>5
  <2>3. total_rx' \in 0 .. Word - 1
    <3>1. total_rx + len \in Nat
      BY <1>0, <1>4, Constants DEF TypeOK
    <3>2. QED
      BY <1>2, <3>1, Constants
  <2>4. QED
    BY <1>0, <1>2, <2>1, <2>2, <2>3 DEF TypeOK, FlagsOK
<1>8. CountInv'
  <2>1. ASSUME ~ torn
        PROVE  total_rx' = taken' % Word
    <3>1. total_rx = taken % Word
      BY <1>0, <2>1 DEF CountInv
    <3>2. ((taken % Word) + len) % Word = (taken + len) % Word
      <4>1. Word \in Nat \ {0} /\ taken \in Int /\ len \in Int
        BY <1>3, <1>4, Constants
      <4>2. QED
        BY <4>1, AddBehind
    <3>3. QED
      BY <1>2, <1>4, <2>1, <3>1, <3>2
  <2>2. QED
    BY <1>2, <2>1 DEF CountInv
<1>9. WholeInv'
  <2>1. ASSUME ~ torn', ~ cut'
        PROVE  /\ rxseq' = handled'
               /\ \E n \in 1 .. Len(ends') + 1 : n = handled' + 1 /\ lo' = Start(n)'
               /\ hi' = taken'
               /\ \E m \in 1 .. Len(ends') + 1 : taken' = Start(m)'
    <3>1. ~ torn /\ ~ cut /\ taken' = End /\ hi' = End
      BY <1>2, <1>4, <2>1
    <3>2. PICK n \in 1 .. Len(ends) + 1 : n = handled + 1 /\ taken = Start(n)
      BY <1>2, <3>1 DEF RecvInv, WholeInv
    <3>3. Len(ends) + 1 \in 1 .. Len(ends) + 1 /\ End = Start(Len(ends) + 1)
      BY <1>0, Starts
    <3>4. PICK m \in 1 .. Len(ends) + 1 : End = Start(m)
      BY <3>3
    <3>5. QED
      BY <1>2, <1>5, <3>1, <3>2, <3>4 DEF RecvInv, WholeInv
  <2>2. QED
    BY <1>2, <1>6, <2>1 DEF WholeInv
<1>10. OrderInv'
  <2>1. Cursor = taken /\ Cursor' \in Nat /\ taken <= Cursor'
    BY <1>2, <1>3, <1>4 DEF Cursor, Least
  <2>2. \A n \in 1 .. Len(ends) : Start(n) >= Cursor' => Start(n) >= Cursor
    <3>1. \A n \in 1 .. Len(ends) : Start(n) \in Nat
      BY <1>0, Starts
    <3>2. QED
      BY <1>3, <2>1, <3>1
  <2>3. QED
    BY <1>2, <1>5, <2>2 DEF RecvInv, OrderInv
<1>11. NoPacketForgotten'
  <2>1. ~ torn /\ ~ cut' => taken' = End'
    BY <1>4, <1>5
  <2>2. QED
    BY <1>2, <1>3, <1>5, <2>1 DEF NoPacketForgotten
<1>12. QED
  BY <1>5, <1>7, <1>8, <1>9, <1>10, <1>11 DEF RecvInv

(* The loop over the buffer.  What every step of it leaves alone.          *)
LEMMA ParseFrame ==
  ASSUME RecvInv, Parse,
         rxseq' \in Nat, handled' \in 0 .. Len(ends),
         lo' \in Nat, hi' \in Nat,
         receiver' \in {"wait", "parse"},
         receiver' = "parse" => lo' < hi'
  PROVE  TypeOK' /\ StreamInv' /\ CountInv' /\ NoPacketForgotten'
<1> USE DEF devVars, readVars, bufVars, seqVars
<1>1. UNCHANGED <<ends, newPkt, taken, total_rx, missed, torn, cut, faults>>
  BY DEF Parse, Handle, Refuse, Garbage
<1>2. receiver = "parse"
  BY DEF Parse, Handle, Refuse, Garbage
<1>3. End' = End /\ \A n : Start(n)' = Start(n)
  BY <1>1, Frame
<1>4. FlagsOK'
  BY FlagsStep DEF RecvInv, Next
<1>5. TypeOK'
  BY <1>1, <1>3, <1>4 DEF RecvInv, TypeOK, FlagsOK
<1>6. StreamInv' /\ CountInv' /\ NoPacketForgotten'
  BY <1>1, <1>2, <1>3 DEF RecvInv, StreamInv, CountInv, NoPacketForgotten
<1>7. QED
  BY <1>5, <1>6

LEMMA HandleStep ==
  ASSUME RecvInv, NEW n \in 1 .. Len(ends), Handle(n)
  PROVE  RecvInv' /\ (~ garbled => handled' = handled + 1)
<1> USE DEF devVars, readVars, bufVars, seqVars
<1>0. TypeOK /\ StreamInv
  BY DEF RecvInv
<1>1. /\ receiver = "parse" /\ lo = Start(n) /\ lo + HdrLen <= taken
      /\ n - 1 = rxseq
      /\ rxseq' = rxseq + 1 /\ handled' = n
      /\ UNCHANGED <<ends, newPkt, taken, total_rx, missed, torn, cut, garbled, faults>>
  BY DEF Handle, HeaderIs
<1>2. /\ Len(ends) \in Nat /\ rxseq \in Nat /\ handled \in Nat /\ handled <= Len(ends)
      /\ lo < taken /\ taken \in Nat /\ End \in Nat /\ lo \in Nat /\ hi \in Nat
      /\ Start(n) \in Nat /\ ends[n] \in Nat /\ Start(n + 1) = ends[n]
      /\ n + 1 \in 1 .. Len(ends) + 1
      /\ Start(n) < ends[n]
  <2>1. Len(ends) \in Nat /\ n \in 1 .. Len(ends) + 1 /\ n + 1 \in 1 .. Len(ends) + 1
    BY <1>0 DEF TypeOK
  <2>2. Start(n) \in Nat /\ ends[n] \in Nat /\ Start(n + 1) = ends[n] /\ End \in Nat
    BY <1>0, <2>1, Starts
  <2>3. Start(n) < ends[n]
    BY <1>0, <2>1, <2>2, Starts
  <2>4. lo < taken
    BY <1>0, <1>1, <2>2, Constants DEF TypeOK
  <2>5. QED
    BY <1>0, <2>1, <2>2, <2>3, <2>4 DEF TypeOK
<1>3. \/ ends[n] < hi /\ lo' = ends[n] /\ hi' = hi /\ receiver' = "parse"
      \/ ~ (ends[n] < hi) /\ lo' = lo /\ hi' = hi /\ receiver' = "wait"
  BY <1>1 DEF Handle, Behind
<1>4. TypeOK' /\ StreamInv' /\ CountInv' /\ NoPacketForgotten'
  <2>1. /\ rxseq' \in Nat /\ handled' \in 0 .. Len(ends)
        /\ lo' \in Nat /\ hi' \in Nat
        /\ receiver' \in {"wait", "parse"}
        /\ receiver' = "parse" => lo' < hi'
    BY <1>1, <1>2, <1>3
  <2>2. Parse
    BY DEF Parse
  <2>3. QED
    BY <2>1, <2>2, ParseFrame
<1>5. End' = End /\ \A m : Start(m)' = Start(m)
  BY <1>1, Frame
<1>6. Cursor = lo /\ Cursor' \in {lo', taken} /\ (receiver' = "wait" => Cursor' = taken)
  BY <1>1, <1>2, <1>3 DEF Cursor, Least
<1>7. ~ garbled => rxseq = handled
  BY <1>1, <1>2, <1>6 DEF RecvInv, OrderInv
<1>8. OrderInv'
  <2>1. ASSUME ~ garbled
        PROVE  \A m \in 1 .. Len(ends) : Start(m) >= Cursor' => m - 1 >= n
    <3>1. SUFFICES ASSUME NEW m \in 1 .. Len(ends), Start(m) >= Cursor', m <= n
                   PROVE  FALSE
      BY <1>2
    <3>2. Start(m) \in Nat /\ (m < n => Start(m) < Start(n))
      BY <1>0, Starts
    <3>3. Start(m) <= lo
      BY <1>1, <1>2, <3>1, <3>2
    <3>4. Cursor' > lo
      BY <1>1, <1>2, <1>3, <1>6
    <3>5. Cursor' \in Nat
      BY <1>2, <1>3, <1>6
    <3>6. QED
      BY <1>2, <3>1, <3>2, <3>3, <3>4, <3>5
  <2>2. ~ garbled => rxseq' = handled' /\ rxseq' = n /\ n <= Len(ends)
    BY <1>1, <1>2
  <2>3. QED
    BY <1>1, <1>2, <1>5, <2>1, <2>2 DEF OrderInv
<1>9. WholeInv'
  <2>1. ASSUME ~ torn, ~ cut
        PROVE  /\ rxseq' = handled'
               /\ \E i \in 1 .. Len(ends) + 1 :
                    /\ i = handled' + 1
                    /\ receiver' # "parse" => taken = Start(i)
                    /\ receiver' = "parse" => lo' = Start(i)
               /\ receiver' = "parse" =>
                    /\ hi' = taken
                    /\ \E m \in 1 .. Len(ends) + 1 : taken = Start(m)
    <3>1. PICK m \in 1 .. Len(ends) + 1 : hi = taken /\ taken = Start(m)
      BY <1>1, <2>1 DEF RecvInv, WholeInv
    <3>2. n < m
      <4>1. Start(m) > Start(n)
        BY <1>1, <3>1, <1>2
      <4>2. n \in 1 .. Len(ends) + 1
        BY <1>2
      <4>3. m < n => Start(m) < Start(n)
        BY <1>0, <4>2, Starts
      <4>4. m \in Nat /\ n \in Nat /\ Start(m) \in Nat /\ m # n
        BY <1>2, <3>1, <4>1
      <4>5. QED
        BY <1>2, <4>1, <4>3, <4>4
    <3>3. n + 1 = m \/ Start(n + 1) < Start(m)
      <4>1. n + 1 < m => Start(n + 1) < Start(m)
        BY <1>0, <1>2, Starts
      <4>2. QED
        BY <1>2, <3>2, <4>1
    <3>4. ~ (ends[n] < hi) => taken = Start(n + 1)
      BY <1>2, <3>1, <3>3
    <3>5. QED
      BY <1>1, <1>2, <1>3, <3>1, <3>4
  <2>2. QED
    BY <1>1, <1>5, <2>1 DEF WholeInv
<1>10. ~ garbled => handled' = handled + 1
  BY <1>1, <1>2, <1>7
<1>11. QED
  BY <1>4, <1>8, <1>9, <1>10 DEF RecvInv

LEMMA RefuseStep ==
  ASSUME RecvInv, NEW n \in 1 .. Len(ends), Refuse(n)
  PROVE  RecvInv'
<1> USE DEF devVars, readVars, bufVars, seqVars
<1>0. TypeOK /\ StreamInv
  BY DEF RecvInv
<1>1. /\ receiver = "parse" /\ lo = Start(n) /\ lo + HdrLen <= taken
      /\ n - 1 # rxseq
      /\ rxseq' = rxseq + 1 /\ receiver' = "wait"
      /\ UNCHANGED <<ends, newPkt, taken, total_rx, missed, torn, cut, garbled, faults,
                     lo, hi, handled>>
  BY DEF Refuse, HeaderIs
<1>2. /\ Len(ends) \in Nat /\ rxseq \in Nat /\ handled \in Nat /\ handled <= Len(ends)
      /\ lo < taken /\ taken \in Nat /\ lo \in Nat /\ Start(n) \in Nat
      /\ n \in 1 .. Len(ends) + 1
  BY <1>0, <1>1, Starts, Constants DEF TypeOK
<1>3. TypeOK' /\ StreamInv' /\ CountInv' /\ NoPacketForgotten'
  <2>1. /\ rxseq' \in Nat /\ handled' \in 0 .. Len(ends)
        /\ lo' \in Nat /\ hi' \in Nat
        /\ receiver' \in {"wait", "parse"}
        /\ receiver' = "parse" => lo' < hi'
    BY <1>0, <1>1, <1>2 DEF TypeOK
  <2>2. Parse
    BY DEF Parse
  <2>3. QED
    BY <2>1, <2>2, ParseFrame
<1>4. End' = End /\ \A m : Start(m)' = Start(m)
  BY <1>1, Frame
<1>5. Cursor = lo /\ Cursor' = taken
  BY <1>1, <1>2 DEF Cursor, Least
<1>6. WholeInv'
  <2>1. torn \/ cut
    <3>1. SUFFICES ASSUME ~ torn, ~ cut PROVE FALSE
      OBVIOUS
    <3>2. PICK i \in 1 .. Len(ends) + 1 : i = rxseq + 1 /\ lo = Start(i)
      BY <1>1, <3>1 DEF RecvInv, WholeInv
    <3>3. (i < n => Start(i) < Start(n)) /\ (n < i => Start(n) < Start(i))
      BY <1>0, <1>2, Starts
    <3>4. QED
      BY <1>1, <1>2, <3>2, <3>3
  <2>2. QED
    BY <1>1, <2>1 DEF WholeInv
<1>7. OrderInv'
  <2>1. ASSUME ~ garbled
        PROVE  /\ handled <= rxseq /\ n - 1 > rxseq
    BY <1>1, <1>2, <1>5, <2>1 DEF RecvInv, OrderInv
  <2>2. ASSUME ~ garbled, NEW m \in 1 .. Len(ends), Start(m) >= taken
        PROVE  m > n
    <3>1. Start(m) \in Nat /\ (m < n => Start(m) < Start(n))
      BY <1>0, Starts
    <3>2. QED
      BY <1>1, <1>2, <2>2, <3>1
  <2>3. QED
    BY <1>1, <1>2, <1>4, <1>5, <2>1, <2>2 DEF OrderInv
<1>8. QED
  BY <1>3, <1>6, <1>7 DEF RecvInv

LEMMA GarbageStep ==
  ASSUME RecvInv, Garbage
  PROVE  RecvInv'
<1> USE DEF devVars, readVars, bufVars, seqVars
<1>0. TypeOK /\ StreamInv
  BY DEF RecvInv
<1>1. /\ receiver = "parse" /\ receiver' = "wait"
      /\ \A n \in 1 .. Len(ends) : ~ (lo = Start(n) /\ lo + HdrLen <= taken)
      /\ UNCHANGED <<ends, newPkt, taken, total_rx, missed, torn, cut, faults,
                     lo, hi, handled>>
      /\ \/ rxseq' = rxseq /\ garbled' = garbled
         \/ rxseq' = rxseq + 1 /\ garbled' = TRUE
  BY DEF Garbage, HeaderIs
<1>2. /\ Len(ends) \in Nat /\ rxseq \in Nat /\ handled \in Nat /\ handled <= Len(ends)
      /\ taken \in Nat /\ taken <= End /\ lo \in Nat /\ hi \in Nat /\ lo < hi
  BY <1>0, <1>1 DEF TypeOK
<1>3. TypeOK' /\ StreamInv' /\ CountInv' /\ NoPacketForgotten'
  <2>1. /\ rxseq' \in Nat /\ handled' \in 0 .. Len(ends)
        /\ lo' \in Nat /\ hi' \in Nat
        /\ receiver' \in {"wait", "parse"}
        /\ receiver' = "parse" => lo' < hi'
    BY <1>0, <1>1, <1>2 DEF TypeOK
  <2>2. Parse
    BY DEF Parse
  <2>3. QED
    BY <2>1, <2>2, ParseFrame
<1>4. End' = End /\ \A m : Start(m)' = Start(m)
  BY <1>1, Frame
<1>5. WholeInv'
  <2>1. torn \/ cut
    <3>1. SUFFICES ASSUME ~ torn, ~ cut PROVE FALSE
      OBVIOUS
    <3>2. PICK i \in 1 .. Len(ends) + 1 : lo = Start(i)
      BY <1>1, <3>1 DEF RecvInv, WholeInv
    <3>3. PICK m \in 1 .. Len(ends) + 1 : hi = taken /\ taken = Start(m)
      BY <1>1, <3>1 DEF RecvInv, WholeInv
    <3>4. i \in 1 .. Len(ends) /\ lo + HdrLen <= taken
      BY <1>0, <1>2, <3>2, <3>3, HeaderFits
    <3>5. QED
      BY <1>1, <3>2, <3>4
  <2>2. QED
    BY <1>1, <2>1 DEF WholeInv
<1>6. OrderInv'
  <2>1. CASE garbled' = TRUE
    BY <2>1 DEF OrderInv
  <2>2. CASE rxseq' = rxseq /\ garbled' = garbled
    <3>1. \A n \in 1 .. Len(ends) : Start(n) >= Cursor' => Start(n) >= Cursor
      <4>1. Cursor' = taken /\ Cursor \in Nat /\ Cursor <= taken
        BY <1>1, <1>2 DEF Cursor, Least
      <4>2. \A n \in 1 .. Len(ends) : Start(n) \in Nat
        BY <1>0, Starts
      <4>3. QED
        BY <1>2, <4>1, <4>2
    <3>2. QED
      BY <1>1, <1>4, <2>2, <3>1 DEF RecvInv, OrderInv
  <2>3. QED
    BY <1>1, <2>1, <2>2
<1>7. QED
  BY <1>3, <1>5, <1>6 DEF RecvInv

LEMMA RecvInvariance == RecvInv /\ [Next]_vars => RecvInv'
<1> SUFFICES ASSUME RecvInv, [Next]_vars PROVE RecvInv'
  OBVIOUS
<1>1. CASE \E s \in Sizes : Produce(s)
  BY <1>1, ProduceStep
<1>2. CASE GetIntr \/ ClearIntr \/ UNCHANGED vars
  BY <1>2, IntrStep
<1>3. CASE Read
  BY <1>3, FailStep, TimeoutStep, GetPacketStep DEF Read
<1>4. CASE Parse
  BY <1>4, HandleStep, RefuseStep, GarbageStep DEF Parse
<1>5. QED
  BY <1>1, <1>2, <1>3, <1>4 DEF Next

LEMMA RecvInvariant == Spec => []RecvInv
BY InitInv, RecvInvariance, PTL DEF Spec

-------------------------------------------------------------------------------
(* The variables of the receive path keep their types; the buffer is never *)
(* parsed behind its end.                                                  *)
THEOREM RecvTypeCorrect == Spec => []TypeOK
<1>1. RecvInv => TypeOK
  BY DEF RecvInv
<1>2. QED
  BY RecvInvariant, <1>1, PTL

(* The host's word and the target's register agree on what there is to     *)
(* read, for every width of both.                                          *)
THEOREM AccountStaysInStep == Spec => []AccountInStep
<1>1. RecvInv => AccountInStep
  BY SizeIsDistance DEF RecvInv, AccountInStep
<1>2. QED
  BY RecvInvariant, <1>1, PTL

(* No interleaving of packets and interrupts leaves a packet behind.       *)
THEOREM PacketsAreNotForgotten == Spec => []NoPacketForgotten
<1>1. RecvInv => NoPacketForgotten
  BY DEF RecvInv
<1>2. QED
  BY RecvInvariant, <1>1, PTL

(* All that was read was handed on.                                        *)
THEOREM WhatIsReadIsHandled == Spec => []AllReadIsHandled
<1>1. RecvInv => AllReadIsHandled
  BY DEF RecvInv, WholeInv, AllReadIsHandled
<1>2. QED
  BY RecvInvariant, <1>1, PTL

(* Packets are handed on in order and without a gap.                       *)
THEOREM PacketsAreHandledInSequence == Spec => HandledInSequence
<1>1. RecvInv /\ [Next]_vars
      => [handled' # handled /\ ~ garbled => handled' = handled + 1]_vars
  <2> SUFFICES ASSUME RecvInv, Next, handled' # handled
               PROVE  ~ garbled => handled' = handled + 1
    OBVIOUS
  <2>1. \E n \in 1 .. Len(ends) : Handle(n)
    BY DEF Next, Produce, GetIntr, ClearIntr, Read, GetPacketFails, GetPacketTimeout,
           GetPacket, Parse, Refuse, Garbage, devVars, readVars, bufVars, seqVars
  <2>2. QED
    BY <2>1, HandleStep
<1>2. QED
  BY RecvInvariant, <1>1, PTL DEF Spec, HandledInSequence

-------------------------------------------------------------------------------
(* Which steps parse, and what they leave alone.                           *)
LEMMA ParseSteps ==
  ASSUME Next, receiver = "parse"
  PROVE  \/ \E n \in 1 .. Len(ends) : Handle(n) \/ Refuse(n)
         \/ Garbage
         \/ UNCHANGED <<receiver, bufVars, seqVars>>
BY DEF Next, Produce, GetIntr, ClearIntr, Read, GetPacketFails, GetPacketTimeout,
       GetPacket, Parse, readVars

(* What recv_buf holds is packets from one end to the other, as long as    *)
(* the stream is neither torn nor cut: each turn of the loop in            *)
(* handle_intr0 hands one on, and neither "seq err" nor a bad length ever  *)
(* makes it drop the rest of the buffer.                                   *)
EveryTurnHandsOn ==
  receiver = "parse" /\ <<receiver, lo, rxseq>>' # <<receiver, lo, rxseq>>
    => handled' = handled + 1 \/ torn \/ cut

(* Whatever fails otherwise, a whole stream is never refused.              *)
THEOREM NoPacketIsRefused == Spec => [][EveryTurnHandsOn]_vars
<1>1. RecvInv /\ [Next]_vars => [EveryTurnHandsOn]_vars
  <2> SUFFICES ASSUME RecvInv, Next, receiver = "parse", ~ torn, ~ cut,
                      <<receiver, lo, rxseq>>' # <<receiver, lo, rxseq>>
               PROVE  handled' = handled + 1
    BY DEF EveryTurnHandsOn
  <2>0. TypeOK /\ StreamInv
    BY DEF RecvInv
  <2>1. /\ rxseq = handled
        /\ handled + 1 \in 1 .. Len(ends) + 1
        /\ lo = Start(handled + 1) /\ hi = taken
        /\ \E m \in 1 .. Len(ends) + 1 : taken = Start(m)
    BY DEF RecvInv, WholeInv
  <2>2. lo < hi /\ lo \in Nat /\ taken \in Nat /\ taken <= End /\ End \in Nat
        /\ Len(ends) \in Nat /\ handled \in Nat
    BY <2>0, Starts DEF TypeOK
  <2>3. handled + 1 \in 1 .. Len(ends) /\ HeaderIs(handled + 1)
    <3>1. PICK m \in 1 .. Len(ends) + 1 : taken = Start(m)
      BY <2>1
    <3>2. handled + 1 \in 1 .. Len(ends) /\ lo + HdrLen <= taken
      BY <2>0, <2>1, <2>2, <3>1, HeaderFits
    <3>3. QED
      BY <2>1, <3>2 DEF HeaderIs
  <2>4. \E n \in 1 .. Len(ends) : Handle(n) \/ Refuse(n)
    BY <2>3, ParseSteps DEF Garbage, bufVars, seqVars
  <2>5. PICK n \in 1 .. Len(ends) : Handle(n) \/ Refuse(n)
    BY <2>4
  <2>6. n = handled + 1
    <3>1. lo = Start(n)
      BY <2>5 DEF Handle, Refuse, HeaderIs
    <3>2. n \in 1 .. Len(ends) + 1
      BY <2>2
    <3>3. /\ n < handled + 1 => Start(n) < Start(handled + 1)
          /\ handled + 1 < n => Start(handled + 1) < Start(n)
          /\ Start(n) \in Nat
      BY <2>0, <2>1, <3>2, Starts
    <3>4. QED
      BY <2>1, <2>2, <3>1, <3>3
  <2>7. ~ Refuse(n)
    BY <2>1, <2>2, <2>6 DEF Refuse
  <2>8. QED
    BY <2>5, <2>6, <2>7 DEF Handle
<1>2. QED
  BY RecvInvariant, <1>1, PTL DEF Spec

(* The loop of handle_intr0 ends, whatever recv_buf holds: it only goes on *)
(* behind a packet it handed on, nearer to an end of the buffer that does  *)
(* not move.                                                               *)
LoopGoesOn ==
  receiver = "parse" /\ receiver' = "parse"
    => hi' = hi /\ ((lo' = lo /\ rxseq' = rxseq) \/ (lo < lo' /\ lo' < hi'))

(* For every recv_buf and every packet in it.                              *)
THEOREM ParsingEnds == Spec => [][LoopGoesOn]_vars
<1>1. RecvInv /\ [Next]_vars => [LoopGoesOn]_vars
  <2> SUFFICES ASSUME RecvInv, Next, receiver = "parse", receiver' = "parse"
               PROVE  hi' = hi /\ ((lo' = lo /\ rxseq' = rxseq) \/ (lo < lo' /\ lo' < hi'))
    BY DEF LoopGoesOn
  <2>1. CASE UNCHANGED <<receiver, bufVars, seqVars>>
    BY <2>1 DEF bufVars, seqVars
  <2>2. CASE \E n \in 1 .. Len(ends) : Handle(n)
    <3>1. PICK n \in 1 .. Len(ends) : Handle(n)
      BY <2>2
    <3>2. lo = Start(n) /\ ends[n] < hi /\ lo' = ends[n] /\ hi' = hi
      BY <3>1 DEF Handle, HeaderIs, Behind
    <3>3. Start(n) < ends[n]
      BY <3>1, Starts DEF RecvInv
    <3>4. QED
      BY <3>2, <3>3
  <2>3. QED
    BY <2>1, <2>2, ParseSteps DEF Refuse, Garbage
<1>2. QED
  BY RecvInvariant, <1>1, PTL DEF Spec

(* rxseq is advanced for a refused packet too, and nothing sets it back:   *)
(* once it is ahead of what was handed on, no packet is handed on again,   *)
(* unless something that is no header is counted as one.                   *)
StaysSilent ==
  ~ garbled /\ rxseq # handled => handled' = handled /\ rxseq' # handled'

(* One lost packet ends the reception of function 1 for good.              *)
THEOREM OneGapSilencesThePath == Spec => [][StaysSilent]_vars
<1>1. RecvInv /\ [Next]_vars => [StaysSilent]_vars
  <2> SUFFICES ASSUME RecvInv, Next, ~ garbled, rxseq # handled
               PROVE  handled' = handled /\ rxseq' # handled'
    BY DEF StaysSilent
  <2>0. TypeOK /\ StreamInv
    BY DEF RecvInv
  <2>1. /\ rxseq \in Nat /\ handled \in Nat /\ handled <= rxseq
        /\ \A n \in 1 .. Len(ends) : Start(n) >= Cursor => n - 1 > rxseq
    BY <2>0 DEF RecvInv, OrderInv, TypeOK
  <2>2. \A n \in 1 .. Len(ends) : ~ Handle(n)
    <3> SUFFICES ASSUME NEW n \in 1 .. Len(ends), Handle(n) PROVE FALSE
      OBVIOUS
    <3>1. receiver = "parse" /\ lo = Start(n) /\ lo + HdrLen <= taken
          /\ n - 1 = rxseq
      BY DEF Handle, HeaderIs
    <3>2. Cursor = lo /\ lo \in Nat
      <4>1. lo \in Nat /\ taken \in Nat
        BY <2>0, Starts DEF TypeOK
      <4>2. lo <= taken
        BY <3>1, <4>1, Constants
      <4>3. QED
        BY <3>1, <4>1, <4>2 DEF Cursor, Least
    <3>3. QED
      BY <2>1, <3>1, <3>2
  <2>3. handled' = handled /\ rxseq' \in {rxseq, rxseq + 1}
    BY <2>2 DEF Next, Produce, GetIntr, ClearIntr, Read, GetPacketFails,
                GetPacketTimeout, GetPacket, Parse, Refuse, Garbage, seqVars
  <2>4. QED
    BY <2>1, <2>3
<1>2. QED
  BY RecvInvariant, <1>1, PTL DEF Spec
=============================================================================
