----------------------------- MODULE BtTxProofs -----------------------------
(***************************************************************************)
(* Theorems about BtTx, for every number of messages, every length of      *)
(* tx_que and any number of failures.                                      *)
(***************************************************************************)
EXTENDS BtTx, TLAPS

(* The parts of the inductive invariant.  The credit is in one place; an   *)
(* interrupt under way has been cleared from the moment that W1 is read;   *)
(* and w1 says that the target is idle whenever it is.                     *)
Returning == toHost \/ receiver \in {"clear", "read", "give"}

CreditInv ==
  ~ clearFailed =>
    /\ ~ (tx_sem = 1 /\ (task # "lock" \/ target # NoMsg))
    /\ ~ (task # "lock" /\ target # NoMsg)
    /\ ~ (Returning /\ (tx_sem = 1 \/ task # "lock" \/ target # NoMsg))
    /\ creditLost <=> tx_sem # 1 /\ task = "lock" /\ target = NoMsg /\ ~ Returning
    /\ receiver = "clear" => toHost
    /\ receiver \in {"read", "give"} => ~ toHost
    /\ target = NoMsg => w1

(* The next number is the one the target waits for.                        *)
NumberInv ==
  ~ numberLost =>
    /\ task # "send" => tx_seq = (devSeq + 1) % SeqMod
    /\ task = "send" => /\ hdrSeq = (devSeq + 1) % SeqMod
                        /\ tx_seq = (hdrSeq + 1) % SeqMod

(* What the caller waits to queue is not in the channel yet.               *)
CallerInv == caller # NoMsg => caller \notin Range(InHand \o tx_que)

BtInv == TypeOK /\ CreditInv /\ NumberInv /\ CallerInv

-------------------------------------------------------------------------------
(* CreditInv says what CreditConserved says with its tuple of places.      *)
LEMMA CreditPlaces == CreditInv => CreditConserved
<1> DEFINE P1 == tx_sem = 1
           P2 == task # "lock"
           P3 == target # NoMsg
           P4 == Returning
<1>1. /\ Places[1] = P1 /\ Places[2] = P2 /\ Places[3] = P3 /\ Places[4] = P4
      /\ P1 \in BOOLEAN /\ P2 \in BOOLEAN /\ P3 \in BOOLEAN
  BY DEF Places, Returning
<1> HIDE DEF P1, P2, P3, P4
<1>2. (\A i, j \in 1 .. 4 : Places[i] /\ Places[j] => i = j)
      <=> /\ ~ (P1 /\ P2) /\ ~ (P1 /\ P3) /\ ~ (P2 /\ P3)
          /\ ~ (P4 /\ (P1 \/ P2 \/ P3))
  BY <1>1
<1>3. (\A i \in 1 .. 4 : ~ Places[i]) <=> ~ P1 /\ ~ P2 /\ ~ P3 /\ ~ P4
  BY <1>1
<1>4. QED
  BY <1>2, <1>3 DEF CreditInv, CreditConserved, P1, P2, P3, P4

(* What the constants and the wrapping numbers amount to.                  *)
LEMMA Numbers ==
  /\ QueueLen \in Nat /\ MaxFaults \in Nat /\ SeqMod \in Nat
  /\ 0 \in 0 .. SeqMod - 1 /\ SeqMod - 1 \in 0 .. SeqMod - 1
  /\ (SeqMod - 1 + 1) % SeqMod = 0
  /\ \A n \in 0 .. SeqMod - 1 : (n + 1) % SeqMod \in 0 .. SeqMod - 1
BY BtTxAssumption

LEMMA FaultCounts ==
  ASSUME TypeOK, Fault \/ UNCHANGED faults
  PROVE  faults' \in 0 .. MaxFaults
<1>1. faults \in Nat /\ MaxFaults \in Nat /\ faults <= MaxFaults
  BY Numbers DEF TypeOK
<1>2. QED
  BY <1>1 DEF Fault

(* A message in front of a queue does not take any out of it.              *)
LEMMA RangeBehind ==
  ASSUME NEW S, NEW a \in S, NEW q \in Seq(S)
  PROVE  Range(<< >> \o q) \subseteq Range(<<a>> \o q)
<1>1. << >> \o q = q
  OBVIOUS
<1>2. ASSUME NEW i \in DOMAIN q
      PROVE  \E j \in DOMAIN (<<a>> \o q) : (<<a>> \o q)[j] = q[i]
  <2>1. i + 1 \in DOMAIN (<<a>> \o q) /\ (<<a>> \o q)[i + 1] = q[i]
    BY <1>2
  <2>2. QED
    BY <2>1
<1>3. QED
  BY <1>1, <1>2 DEF Range

(* One of tx_que and the message in hand, for sequences of any length.     *)
LEMMA ChannelSeq ==
  ASSUME TypeOK
  PROVE  /\ InHand \in Seq(Msgs)
         /\ InHand \o tx_que \in Seq(Msgs)
         /\ Len(InHand) <= 1
         /\ Len(InHand \o tx_que) <= QueueLen + 1
<1>1. InHand \in Seq(Msgs) /\ Len(InHand) <= 1
  BY DEF TypeOK, InHand
<1>2. QED
  BY <1>1, BtTxAssumption DEF TypeOK

-------------------------------------------------------------------------------
(* The flags, apart: what the provers need for them differs.               *)
BoolOK ==
  /\ toHost \in BOOLEAN /\ w1 \in BOOLEAN
  /\ numberLost \in BOOLEAN /\ creditLost \in BOOLEAN
  /\ clearFailed \in BOOLEAN /\ aborted \in BOOLEAN

LEMMA BoolStep ==
  ASSUME TypeOK, Next
  PROVE  BoolOK'
<1> USE DEF queueVars, taskVars, recvVars, devVars, faultVars
<1>1. BoolOK
  BY DEF TypeOK, BoolOK
<1>2. CASE \E m \in Msgs : SendData(m)
  BY <1>1, <1>2, Zenon DEF BoolOK, SendData
<1>3. CASE Queue \/ QueueTimeout
  BY <1>1, <1>3, Zenon DEF BoolOK, Queue, QueueTimeout
<1>4. CASE Lock \/ Give
  BY <1>1, <1>4, Zenon DEF BoolOK, Lock, Give
<1>5. CASE Receive
  BY <1>1, <1>5, Zenon DEF BoolOK, Receive
<1>6. CASE Build
  BY <1>1, <1>6, Zenon DEF BoolOK, Build
<1>7. CASE SendPacket
  <2>1. CASE Arrives
    <3>1. w1' = w1 \/ w1' = FALSE
      BY <2>1 DEF Arrives
    <3>2. toHost' = toHost
      BY <2>1 DEF Arrives
    <3>3. UNCHANGED <<clearFailed, aborted>> /\ numberLost' \in BOOLEAN
          /\ creditLost' \in BOOLEAN
      BY <1>1, <1>7, Zenon DEF BoolOK, SendPacket
    <3>4. QED
      BY <1>1, <3>1, <3>2, <3>3, Zenon DEF BoolOK
  <2>2. CASE UNCHANGED devVars
    BY <1>1, <1>7, <2>2, Zenon DEF BoolOK, SendPacket
  <2>3. QED
    BY <1>7, <2>1, <2>2, Zenon DEF SendPacket
<1>8. CASE GetIntr
  BY <1>1, <1>8, Zenon DEF BoolOK, GetIntr
<1>9. CASE ClearIntr
  BY <1>1, <1>9, Zenon DEF BoolOK, ClearIntr
<1>10. CASE ReadW1
  BY <1>1, <1>10, Zenon DEF BoolOK, ReadW1
<1>11. CASE Ready
  BY <1>1, <1>11, Zenon DEF BoolOK, Ready
<1>12. QED
  BY <1>2, <1>3, <1>4, <1>5, <1>6, <1>7, <1>8, <1>9, <1>10, <1>11 DEF Next

-------------------------------------------------------------------------------
LEMMA InitInv == Init => BtInv
<1> SUFFICES ASSUME Init PROVE BtInv
  OBVIOUS
<1>1. TypeOK
  <2>1. tx_que \in Seq(Msgs) /\ Len(tx_que) <= QueueLen
    BY Numbers DEF Init
  <2>2. /\ hdrSeq \in 0 .. SeqMod - 1
        /\ tx_seq \in 0 .. SeqMod - 1
        /\ devSeq \in 0 .. SeqMod - 1
        /\ faults \in 0 .. MaxFaults
    BY Numbers DEF Init
  <2>3. QED
    BY <2>1, <2>2 DEF Init, TypeOK
<1>2. CreditInv
  BY DEF Init, CreditInv, Returning
<1>3. NumberInv
  BY Numbers DEF Init, NumberInv
<1>4. QED
  BY <1>1, <1>2, <1>3 DEF Init, CallerInv, BtInv

(* bt_send_data.                                                           *)
LEMMA CallerSteps ==
  ASSUME BtInv, NEW m, (m \in Msgs /\ SendData(m)) \/ Queue \/ QueueTimeout
  PROVE  BtInv'
<1> USE DEF queueVars, taskVars, recvVars, devVars, faultVars
<1>0. BoolOK'
  BY BoolStep DEF BtInv, Next
<1>1. TypeOK'
  <2>1. CASE m \in Msgs /\ SendData(m)
    <3>1. faults' \in 0 .. MaxFaults
      BY <2>1, FaultCounts DEF BtInv, SendData
    <3>2. QED
      BY <2>1, <3>1, <1>0 DEF BtInv, TypeOK, BoolOK, SendData
  <2>2. CASE Queue
    <3>1. /\ Append(tx_que, caller) \in Seq(Msgs)
          /\ Len(Append(tx_que, caller)) <= QueueLen
      BY <2>2, Numbers DEF BtInv, TypeOK, Queue
    <3>2. QED
      BY <2>2, <3>1 DEF BtInv, TypeOK, Queue
  <2>3. CASE QueueTimeout
    BY <2>3 DEF BtInv, TypeOK, QueueTimeout
  <2>4. QED
    BY <2>1, <2>2, <2>3
<1>2. CreditInv' /\ NumberInv'
  BY DEF BtInv, CreditInv, Returning, NumberInv, SendData, Queue, QueueTimeout
<1>3. CallerInv'
  <2>1. CASE m \in Msgs /\ SendData(m)
    BY <2>1 DEF BtInv, CallerInv, SendData, InHand
  <2>2. CASE Queue \/ QueueTimeout
    BY <2>2 DEF CallerInv, Queue, QueueTimeout
  <2>3. QED
    BY <2>1, <2>2
<1>4. QED
  BY <1>1, <1>2, <1>3 DEF BtInv

(* bt_tx_task.                                                             *)
LEMMA TaskSteps ==
  ASSUME BtInv, Lock \/ Receive \/ Build \/ SendPacket
  PROVE  BtInv'
<1> USE DEF queueVars, taskVars, recvVars, devVars, faultVars
<1>0. BoolOK'
  BY BoolStep DEF BtInv, Next
<1>1. CASE Lock
  <2>1. TypeOK' /\ CreditInv' /\ NumberInv'
    BY <1>1 DEF BtInv, TypeOK, CreditInv, Returning, NumberInv, Lock
  <2>2. CallerInv'
    BY <1>1 DEF BtInv, CallerInv, Lock, InHand
  <2>3. QED
    BY <2>1, <2>2 DEF BtInv
<1>2. CASE Receive
  <2>1. /\ Head(tx_que) \in Msgs
        /\ Tail(tx_que) \in Seq(Msgs)
        /\ Len(Tail(tx_que)) <= QueueLen
    BY <1>2, Numbers DEF BtInv, TypeOK, Receive
  <2>2. buf' \in Msgs /\ tx_que' = Tail(tx_que) /\ task' \in {"build", "lock"}
        /\ creditLost' \in BOOLEAN
    BY <1>2, <2>1 DEF BtInv, TypeOK, Receive
  <2>3. UNCHANGED <<caller, tx_sem, hdrSeq, tx_seq, recvVars, devVars,
                    numberLost, clearFailed, faults, aborted>>
    BY <1>2 DEF Receive
  <2>4. TypeOK'
    BY <2>1, <2>2, <2>3 DEF BtInv, TypeOK
  <2>5. CreditInv' /\ NumberInv'
    BY <1>2 DEF BtInv, CreditInv, Returning, NumberInv, Receive
  <2>6. CallerInv'
    <3>1. Range((InHand \o tx_que)') \subseteq Range(InHand \o tx_que)
      <4>1. InHand = << >> /\ tx_que \in Seq(Msgs) /\ tx_que # << >>
        BY <1>2 DEF BtInv, TypeOK, Receive, InHand
      <4>2. InHand' \in {<< >>, <<Head(tx_que)>>} /\ tx_que' = Tail(tx_que)
        BY <1>2 DEF Receive, InHand
      <4>3. QED
        BY <4>1, <4>2 DEF Range
    <3>2. QED
      BY <3>1, <1>2 DEF BtInv, CallerInv, Receive
  <2>7. QED
    BY <2>4, <2>5, <2>6 DEF BtInv
<1>3. CASE Build
  <2>1. TypeOK'
    <3>1. faults' \in 0 .. MaxFaults
      BY <1>3, FaultCounts DEF BtInv, Build
    <3>2. tx_seq' \in 0 .. SeqMod - 1 /\ hdrSeq' \in 0 .. SeqMod - 1
      BY <1>3, Numbers DEF BtInv, TypeOK, Build
    <3>3. QED
      BY <1>0, <1>3, <3>1, <3>2 DEF BtInv, TypeOK, BoolOK, Build
  <2>2. CreditInv' /\ NumberInv'
    BY <1>3 DEF BtInv, TypeOK, CreditInv, Returning, NumberInv, Build
  <2>3. CallerInv'
    <3>1. Range((InHand \o tx_que)') \subseteq Range(InHand \o tx_que)
      <4>1. InHand = <<buf>> /\ tx_que \in Seq(Msgs)
        BY <1>3 DEF BtInv, TypeOK, Build, InHand
      <4>2. InHand' \in {<< >>, <<buf>>} /\ tx_que' = tx_que
        BY <1>3 DEF Build, InHand
      <4>3. buf \in Msgs
        BY <1>3 DEF BtInv, TypeOK, Build
      <4>4. QED
        BY <4>1, <4>2, <4>3, RangeBehind
    <3>2. QED
      BY <3>1, <1>3 DEF BtInv, CallerInv, Build
  <2>4. QED
    BY <2>1, <2>2, <2>3 DEF BtInv
<1>4. CASE SendPacket
  <2>1. TypeOK'
    <3>1. faults' \in 0 .. MaxFaults
      BY <1>4, FaultCounts DEF BtInv, SendPacket
    <3>2. /\ task' = "lock"
          /\ \/ Arrives /\ UNCHANGED <<numberLost, creditLost>>
             \/ numberLost' = TRUE /\ creditLost' = TRUE /\ UNCHANGED devVars
          /\ UNCHANGED <<queueVars, tx_sem, buf, hdrSeq, tx_seq, recvVars,
                         clearFailed, aborted>>
      BY <1>4 DEF SendPacket
    <3>3. buf \in Msgs /\ task = "send"
      BY <1>4 DEF BtInv, TypeOK, SendPacket
    <3>4. QED
      BY <1>0, <3>1, <3>2, <3>3 DEF BtInv, TypeOK, BoolOK, Arrives
  <2>2. CreditInv'
    <3>1. buf # NoMsg /\ task = "send" /\ task' = "lock"
      BY <1>4, BtTxAssumption DEF BtInv, TypeOK, SendPacket
    <3>2. CASE Arrives /\ UNCHANGED <<numberLost, creditLost>>
      BY <1>4, <3>1, <3>2 DEF BtInv, CreditInv, Returning, SendPacket, Arrives
    <3>3. CASE numberLost' = TRUE /\ creditLost' = TRUE /\ UNCHANGED devVars
      BY <1>4, <3>1, <3>3 DEF BtInv, CreditInv, Returning, SendPacket
    <3>4. QED
      BY <1>4, <3>2, <3>3 DEF SendPacket
  <2>3. NumberInv'
    <3>1. CASE Arrives /\ UNCHANGED <<numberLost, creditLost>>
      BY <1>4, <3>1 DEF BtInv, NumberInv, SendPacket, Arrives
    <3>2. CASE numberLost' = TRUE
      BY <3>2 DEF NumberInv
    <3>3. QED
      BY <1>4, <3>1, <3>2 DEF SendPacket
  <2>4. CallerInv'
    <3>1. Range((InHand \o tx_que)') \subseteq Range(InHand \o tx_que)
      <4>1. InHand = <<buf>> /\ tx_que \in Seq(Msgs) /\ buf \in Msgs
        BY <1>4 DEF BtInv, TypeOK, SendPacket, InHand
      <4>2. InHand' = << >> /\ tx_que' = tx_que
        BY <1>4 DEF SendPacket, InHand
      <4>3. QED
        BY <4>1, <4>2, RangeBehind
    <3>2. QED
      BY <3>1, <1>4 DEF BtInv, CallerInv, SendPacket
  <2>5. QED
    BY <2>1, <2>2, <2>3, <2>4 DEF BtInv
<1>5. QED
  BY <1>1, <1>2, <1>3, <1>4

(* trans_recv_task and the target.                                         *)
LEMMA OtherSteps ==
  ASSUME BtInv, GetIntr \/ ClearIntr \/ ReadW1 \/ Give \/ Ready
  PROVE  BtInv'
<1> USE DEF queueVars, taskVars, recvVars, devVars, faultVars
<1>0. BoolOK'
  BY BoolStep DEF BtInv, Next
<1>1. TypeOK'
  <2>1. CASE GetIntr
    <3>1. faults' \in 0 .. MaxFaults
      BY <2>1, FaultCounts DEF BtInv, GetIntr
    <3>2. QED
      BY <1>0, <2>1, <3>1 DEF BtInv, TypeOK, BoolOK, GetIntr
  <2>2. CASE ClearIntr
    <3>1. faults' \in 0 .. MaxFaults
      BY <2>2, FaultCounts DEF BtInv, ClearIntr
    <3>2. QED
      BY <1>0, <2>2, <3>1 DEF BtInv, TypeOK, BoolOK, ClearIntr
  <2>3. CASE ReadW1
    <3>1. faults' \in 0 .. MaxFaults
      BY <2>3, FaultCounts DEF BtInv, ReadW1
    <3>2. QED
      BY <1>0, <2>3, <3>1 DEF BtInv, TypeOK, BoolOK, ReadW1
  <2>4. CASE Give \/ Ready
    BY <1>0, <2>4 DEF BtInv, TypeOK, BoolOK, Give, Ready
  <2>5. QED
    BY <2>1, <2>2, <2>3, <2>4
<1>2. CreditInv'
  <2>1. CASE GetIntr
    BY <2>1 DEF BtInv, CreditInv, Returning, GetIntr
  <2>2. CASE ClearIntr
    BY <2>2 DEF BtInv, CreditInv, Returning, ClearIntr
  <2>3. CASE ReadW1
    BY <2>3 DEF BtInv, CreditInv, Returning, ReadW1
  <2>4. CASE Give
    BY <2>4 DEF BtInv, CreditInv, Returning, Give
  <2>5. CASE Ready
    BY <2>5 DEF BtInv, CreditInv, Returning, Ready
  <2>6. QED
    BY <2>1, <2>2, <2>3, <2>4, <2>5
<1>3. NumberInv'
  BY DEF BtInv, NumberInv, GetIntr, ClearIntr, ReadW1, Give, Ready
<1>4. CallerInv'
  BY DEF BtInv, CallerInv, InHand, GetIntr, ClearIntr, ReadW1, Give, Ready
<1>5. QED
  BY <1>1, <1>2, <1>3, <1>4 DEF BtInv

LEMMA StutterStep == BtInv /\ UNCHANGED vars => BtInv'
BY DEF BtInv, TypeOK, CreditInv, Returning, NumberInv, CallerInv, InHand, vars,
       queueVars, taskVars, recvVars, devVars, faultVars

LEMMA BtInvariant == Spec => []BtInv
<1>1. BtInv /\ [Next]_vars => BtInv'
  <2> SUFFICES ASSUME BtInv, [Next]_vars PROVE BtInv'
    OBVIOUS
  <2>1. CASE \E m \in Msgs : SendData(m)
    BY <2>1, CallerSteps
  <2>2. CASE Queue \/ QueueTimeout
    BY <2>2, CallerSteps
  <2>3. CASE Lock \/ Receive \/ Build \/ SendPacket
    BY <2>3, TaskSteps
  <2>4. CASE GetIntr \/ ClearIntr \/ ReadW1 \/ Give \/ Ready
    BY <2>4, OtherSteps
  <2>5. QED
    BY <2>1, <2>2, <2>3, <2>4, StutterStep DEF Next
<1>2. QED
  BY InitInv, <1>1, PTL DEF Spec

-------------------------------------------------------------------------------
(* The variables have their types and tx_que never holds more than its     *)
(* length, for any length and any number of messages.                      *)
THEOREM BtTypeCorrect == Spec => []TypeOK
BY BtInvariant, PTL DEF BtInv

(* The one credit of bt_start_up is never doubled, and never vanishes      *)
(* except where the code drops it.                                         *)
THEOREM CreditIsConserved == Spec => []CreditConserved
<1>1. BtInv => CreditConserved
  BY CreditPlaces DEF BtInv
<1>2. QED
  BY BtInvariant, <1>1, PTL

(* The two action properties follow from the invariant in one step: only   *)
(* SendPacket reaches the target.                                          *)
LEMMA OnlySendArrives ==
  ASSUME BtInv, [Next]_vars, devSeq' # devSeq
  PROVE  /\ task = "send"
         /\ devSeq' = hdrSeq
<1> USE DEF queueVars, taskVars, recvVars, devVars, faultVars
<1>1. SendPacket
  BY DEF vars, Next, SendData, Queue, QueueTimeout, Lock, Receive, Build,
         GetIntr, ClearIntr, ReadW1, Give, Ready
<1>2. QED
  BY <1>1 DEF SendPacket, Arrives

(* No message reaches the target while it works on another.                *)
THEOREM TargetNeverOverrun == Spec => NeverOverrun
<1>1. BtInv /\ BtInv' /\ [Next]_vars
      => [devSeq' # devSeq /\ ~ clearFailed => target = NoMsg]_vars
  BY OnlySendArrives DEF BtInv, CreditInv
<1>2. QED
  BY BtInvariant, <1>1, PTL DEF Spec, NeverOverrun

(* The target sees consecutive numbers while no transfer failed.           *)
THEOREM BtNumberedInSequence == Spec => NumberedInSequence
<1>1. BtInv /\ BtInv' /\ [Next]_vars
      => [devSeq' # devSeq /\ ~ numberLost => devSeq' = (devSeq + 1) % SeqMod]_vars
  BY OnlySendArrives DEF BtInv, NumberInv
<1>2. QED
  BY BtInvariant, <1>1, PTL DEF Spec, NumberedInSequence

(* Nothing brings a lost credit back: the target, which would, raises its  *)
(* interrupt only behind a message that it got.  bt_tx_task stands at its  *)
(* lock from then on; tx_que fills, and what bt_send_data still does is to *)
(* put a message there or to lose it after five seconds.                   *)
LossIsFinal ==
  creditLost /\ ~ clearFailed =>
    /\ tx_sem = 0 /\ task = "lock"
    /\ UNCHANGED <<tx_sem, taskVars, recvVars, devVars, creditLost, clearFailed>>
    /\ tx_que' # tx_que => tx_que' = Append(tx_que, caller)

(* One dropped message or failed transfer ends the Bluetooth transmission  *)
(* for good, in every queue and with any further failures.                 *)
THEOREM LostCreditIsFinal == Spec => [][LossIsFinal]_vars
<1> USE DEF queueVars, taskVars, recvVars, devVars, faultVars
<1>1. BtInv /\ [Next]_vars => [LossIsFinal]_vars
  <2> SUFFICES ASSUME BtInv, Next, creditLost, ~ clearFailed
               PROVE  /\ tx_sem = 0 /\ task = "lock"
                      /\ UNCHANGED <<tx_sem, taskVars, recvVars, devVars, creditLost,
                                     clearFailed>>
                      /\ tx_que' # tx_que => tx_que' = Append(tx_que, caller)
    BY DEF LossIsFinal
  <2>1. /\ tx_sem = 0 /\ task = "lock" /\ target = NoMsg
        /\ ~ toHost /\ receiver \notin {"clear", "read", "give"}
    BY DEF BtInv, TypeOK, CreditInv, Returning
  <2>2. (\E m \in Msgs : SendData(m)) \/ Queue \/ QueueTimeout
    <3>1. ~ Lock
      BY <2>1 DEF Lock
    <3>2. ~ Receive /\ ~ Build /\ ~ SendPacket
      BY <2>1 DEF Receive, Build, SendPacket
    <3>3. ~ GetIntr
      BY <2>1 DEF GetIntr
    <3>4. ~ ClearIntr /\ ~ ReadW1 /\ ~ Give
      BY <2>1 DEF ClearIntr, ReadW1, Give
    <3>5. ~ Ready
      BY <2>1 DEF Ready
    <3>6. QED
      BY <3>1, <3>2, <3>3, <3>4, <3>5 DEF Next
  <2>3. QED
    BY <2>1, <2>2 DEF SendData, Queue, QueueTimeout
<1>2. QED
  BY BtInvariant, <1>1, PTL DEF Spec

-------------------------------------------------------------------------------
(* The refinement.                                                         *)
LEMMA ChannelStep ==
  ASSUME BtInv, [Next]_vars
  PROVE  [Channel!Next]_<<InHand \o tx_que, arrived>>
<1> USE DEF queueVars, taskVars, recvVars, devVars, faultVars
<1> DEFINE chan == InHand \o tx_que
<1>0. /\ InHand \in Seq(Msgs) /\ tx_que \in Seq(Msgs) /\ chan \in Seq(Msgs)
      /\ Len(InHand) <= 1 /\ Len(tx_que) <= QueueLen
  BY ChannelSeq DEF BtInv, TypeOK
<1>1. CASE Queue
  <2>1. caller \in Msgs /\ caller \notin Range(chan)
    BY <1>1 DEF BtInv, TypeOK, CallerInv, Queue
  <2>2. InHand' = InHand /\ arrived' = arrived
    BY <1>1 DEF Queue, InHand
  <2>3. tx_que' = Append(tx_que, caller) /\ Len(tx_que) < QueueLen
    BY <1>1 DEF Queue
  <2>4. Len(chan) < QueueLen + 1
    BY <1>0, <2>3, BtTxAssumption
  <2>5. chan' = Append(chan, caller)
    BY <1>0, <2>1, <2>2, <2>3
  <2>6. Channel!Accept(caller)
    BY <2>1, <2>2, <2>4, <2>5 DEF Channel!Accept, Channel!Range, Range
  <2>7. QED
    BY <2>1, <2>6 DEF Channel!Next
<1>2. CASE Receive
  <2>1. /\ InHand = << >> /\ tx_que # << >> /\ arrived' = arrived
        /\ tx_que' = Tail(tx_que)
        /\ InHand' \in {<< >>, <<Head(tx_que)>>}
    BY <1>2 DEF Receive, InHand
  <2>2. chan = tx_que
    BY <1>0, <2>1
  <2>3. CASE InHand' = << >>
    <3>1. chan' = Tail(chan)
      BY <1>0, <2>1, <2>2, <2>3
    <3>2. QED
      BY <3>1, <2>1, <2>2 DEF Channel!Next, Channel!Leave
  <2>4. CASE InHand' = <<Head(tx_que)>>
    <3>1. chan' = chan
      BY <1>0, <2>1, <2>2, <2>4
    <3>2. QED
      BY <3>1, <2>1
  <2>5. QED
    BY <2>1, <2>3, <2>4
<1>3. CASE Build \/ SendPacket
  <2>1. InHand = <<buf>> /\ buf \in Msgs /\ tx_que' = tx_que
    BY <1>3 DEF BtInv, TypeOK, Build, SendPacket, InHand
  <2>2. chan # << >> /\ Head(chan) = buf /\ Tail(chan) = tx_que
    BY <1>0, <2>1
  <2>3. CASE InHand' = << >>
    <3>1. chan' = Tail(chan)
      BY <1>0, <2>1, <2>2, <2>3
    <3>2. arrived' \in {buf, arrived}
      BY <1>3 DEF Build, SendPacket, Arrives
    <3>3. QED
      BY <3>1, <3>2, <2>2 DEF Channel!Next, Channel!Leave
  <2>4. CASE InHand' # << >>
    <3>1. InHand' = InHand /\ arrived' = arrived
      BY <1>3, <2>4 DEF Build, SendPacket, InHand
    <3>2. QED
      BY <3>1, <2>1
  <2>5. QED
    BY <2>3, <2>4
<1>4. CASE \/ \E m \in Msgs : SendData(m)
           \/ QueueTimeout \/ Lock \/ UNCHANGED vars
           \/ GetIntr \/ ClearIntr \/ ReadW1 \/ Give \/ Ready
  BY <1>4 DEF vars, SendData, QueueTimeout, Lock, GetIntr, ClearIntr, ReadW1,
              Give, Ready, InHand
<1>5. QED
  BY <1>1, <1>2, <1>3, <1>4 DEF Next

(* The path implements the channel: whatever fails, messages are lost but  *)
(* neither reordered nor sent twice.                                       *)
THEOREM ChannelRefinement == Spec => ImplementsChannel
<1>1. Init => Channel!Init
  BY DEF Init, Channel!Init, InHand
<1>2. QED
  BY <1>1, BtInvariant, ChannelStep, PTL DEF Spec, ImplementsChannel, Channel!Spec
=============================================================================
