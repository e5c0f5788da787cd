----------------------------- MODULE TxListProofs -----------------------------
(***************************************************************************)
(* Theorems about TxList, for every set of buffers, every assignment of    *)
(* classes to them and every set of callers.                               *)
(***************************************************************************)
EXTENDS TxList, TLAPS

(* How the program counters, the locals and the lock go together.  With    *)
(* it the invariants of TxList become inductive.                           *)
Control ==
  /\ \A c \in Callers : arg[c] = NoBuf <=> pc[c] = "idle"
  /\ \A c \in Callers : pc[c] = "clearing" <=> list_lock = c
  /\ sender \in {"wait", "remove"} => eb = NoBuf
  /\ sender \in {"credits", "send"} => eb # NoBuf
  /\ list_lock = NoTask => kept = << >> /\ cursor = 0

IInv ==
  /\ TypeOK
  /\ Control
  /\ ListRepresentsQueue
  /\ HeldOnce
  /\ ClearKeepsTheRest
  /\ NoLostWakeup

-------------------------------------------------------------------------------
(* The initial state satisfies the invariant.                              *)
LEMMA InitEstablishes == Init => IInv
<1>1. SUFFICES ASSUME Init PROVE IInv
  OBVIOUS
<1>2. TypeOK
  <2>1. << >> \in Seq(Bufs) /\ 0 \in 0 .. Len(<< >>)
    OBVIOUS
  <2>2. QED
    BY <1>1, <2>1 DEF Init, TypeOK, Pointer
<1>3. Control
  BY <1>1, CallersAssumption DEF Init, Control
<1>4. ListRepresentsQueue
  BY <1>1 DEF Init, ListRepresentsQueue, Linked
<1>5. HeldOnce
  BY <1>1, FramesAssumption DEF Init, HeldOnce, InList, Range
<1>6. ClearKeepsTheRest /\ NoLostWakeup
  BY <1>1 DEF Init, ClearKeepsTheRest, NoLostWakeup
<1>7. QED
  BY <1>2, <1>3, <1>4, <1>5, <1>6 DEF IInv

(* A caller gets a buffer: only the stale pointer in it changes in memory. *)
LEMMA CallPreserves ==
  ASSUME IInv, NEW c \in Callers, NEW b \in Bufs, Call(c, b)
  PROVE  IInv'
<1>1. PICK stale \in Pointer : next' = [next EXCEPT ![b] = stale]
  BY DEF Call
<1>2. TypeOK'
  BY <1>1 DEF IInv, TypeOK, Call, Pointer, clearVars, senderVars, ghostVars
<1>3. Control'
  BY FramesAssumption
  DEF IInv, TypeOK, Control, Call, clearVars, senderVars, ghostVars
<1>4. b \notin InList /\ InList' = InList
  BY DEF IInv, HeldOnce, Call, InList, ghostVars, Range
<1>5. ListRepresentsQueue'
  <2>1. \A i \in cursor + 1 .. Len(queue) : queue[i] # b
    BY <1>4 DEF InList
  <2>2. \A i \in 1 .. Len(kept) : kept[i] # b
    BY <1>4 DEF InList, Range, IInv, TypeOK
  <2>3. QED
    BY <1>1, <2>1, <2>2
    DEF IInv, TypeOK, ListRepresentsQueue, Linked, Call, clearVars, ghostVars
<1>6. HeldOnce'
  BY <1>4, FramesAssumption
  DEF IInv, TypeOK, Control, HeldOnce, Call, senderVars, ghostVars, Range
<1>7. ClearKeepsTheRest' /\ NoLostWakeup'
  BY DEF IInv, ClearKeepsTheRest, NoLostWakeup, Call, ghostVars
<1>8. QED
  BY <1>2, <1>3, <1>5, <1>6, <1>7 DEF IInv

(* Appending to a sequence and putting an element in front of it, element  *)
(* by element.                                                             *)
LEMMA AppendElements ==
  ASSUME NEW S, NEW s \in Seq(S), NEW e \in S
  PROVE  /\ Append(s, e) \in Seq(S)
         /\ Len(Append(s, e)) = Len(s) + 1
         /\ \A i \in 1 .. Len(s) : Append(s, e)[i] = s[i]
         /\ Append(s, e)[Len(s) + 1] = e
         /\ Append(s, e) # << >>
OBVIOUS

LEMMA ConsElements ==
  ASSUME NEW S, NEW s \in Seq(S), NEW e \in S
  PROVE  /\ <<e>> \o s \in Seq(S)
         /\ Len(<<e>> \o s) = Len(s) + 1
         /\ (<<e>> \o s)[1] = e
         /\ \A i \in 1 .. Len(s) : (<<e>> \o s)[i + 1] = s[i]
         /\ \A i \in 2 .. Len(s) + 1 : (<<e>> \o s)[i] = s[i - 1]
         /\ <<e>> \o s # << >>
OBVIOUS

LEMMA TailElements ==
  ASSUME NEW S, NEW s \in Seq(S), s # << >>
  PROVE  /\ Tail(s) \in Seq(S)
         /\ Len(s) \in Nat \ {0}
         /\ Len(Tail(s)) = Len(s) - 1
         /\ Head(s) = s[1] /\ Head(s) \in S
         /\ \A i \in 1 .. Len(Tail(s)) : Tail(s)[i] = s[i + 1]
OBVIOUS

(* list_insert and list_head_insert: only when no clear is running.        *)
LEMMA InsertPreserves ==
  ASSUME IInv, NEW c \in Callers, Insert(c)
  PROVE  IInv'
<1>0. PICK b \in Bufs : b = arg[c]
  BY DEF IInv, TypeOK, Control, Insert, Pointer
<1>1. /\ cursor = 0 /\ kept = << >> /\ list_lock = NoTask
      /\ pc[c] = "insert" /\ b # NoBuf
      /\ queue \in Seq(Bufs) /\ Len(queue) \in Nat
  BY <1>0, FramesAssumption DEF IInv, TypeOK, Control, Insert
<1>2. InList = {queue[i] : i \in 1 .. Len(queue)} /\ b \notin InList
  BY <1>0, <1>1 DEF IInv, HeldOnce, InList, Range
<1>3. /\ tx_head = IF Len(queue) = 0 THEN NoBuf ELSE queue[1]
      /\ Len(queue) > 0 => tx_tail = queue[Len(queue)]
      /\ \A i \in 1 .. Len(queue) :
           next[queue[i]] = IF i = Len(queue) THEN NoBuf ELSE queue[i + 1]
  BY <1>1 DEF IInv, ListRepresentsQueue, Linked
<1>4. \A i \in 1 .. Len(queue) : queue[i] \in Bufs /\ queue[i] # b
  BY <1>1, <1>2
<1>5. \A i, j \in 1 .. Len(queue) : i # j => queue[i] # queue[j]
  BY <1>1 DEF IInv, HeldOnce
<1>6. /\ cursor' = 0 /\ kept' = << >> /\ list_lock' = NoTask
      /\ list_event' = TRUE /\ pool' = pool /\ eb' = eb /\ sender' = sender
      /\ pc' = [pc EXCEPT ![c] = "idle"] /\ arg' = [arg EXCEPT ![c] = NoBuf]
      /\ eb_head' = eb_head /\ eb_end' = eb_end
  BY <1>1 DEF Insert, clearVars, senderVars
<1>7. /\ queue' \in Seq(Bufs) /\ Len(queue') = Len(queue) + 1
      /\ {queue'[i] : i \in 1 .. Len(queue')} = InList \cup {b}
      /\ \A i, j \in 1 .. Len(queue') : i # j => queue'[i] # queue'[j]
      /\ Linked(tx_head, queue, 1)'
      /\ tx_tail' = queue'[Len(queue')]
      /\ next' \in [Bufs -> Pointer] /\ tx_head' \in Bufs /\ tx_tail' \in Bufs
  <2>1. CASE GoesFirst(b)
    <3>1. queue' = <<b>> \o queue /\ LinkFirst(b)
      BY <1>0, <2>1 DEF Insert
    <3>2. /\ queue' \in Seq(Bufs) /\ Len(queue') = Len(queue) + 1
          /\ queue'[1] = b
          /\ \A i \in 1 .. Len(queue) : queue'[i + 1] = queue[i]
          /\ \A i \in 2 .. Len(queue) + 1 : queue'[i] = queue[i - 1]
      BY <3>1, <1>1, ConsElements
    <3>3. {queue'[i] : i \in 1 .. Len(queue')} = InList \cup {b}
      <4>1. \A i \in 1 .. Len(queue') : queue'[i] \in InList \cup {b}
        <5>1. \A i \in 1 .. Len(queue') : i = 1 \/ i - 1 \in 1 .. Len(queue)
          BY <3>2, <1>1
        <5>2. QED
          BY <5>1, <3>2, <1>1, <1>2
      <4>2. \A i \in 1 .. Len(queue) :
              \E j \in 1 .. Len(queue') : queue'[j] = queue[i]
        <5>1. \A i \in 1 .. Len(queue) : i + 1 \in 1 .. Len(queue')
          BY <3>2, <1>1
        <5>2. QED
          BY <5>1, <3>2, <1>1
      <4>3. b \in {queue'[i] : i \in 1 .. Len(queue')}
        BY <3>2, <1>1
      <4>4. QED
        BY <4>1, <4>2, <4>3, <1>2
    <3>4. \A i, j \in 1 .. Len(queue') : i # j => queue'[i] # queue'[j]
      <4>1. SUFFICES ASSUME NEW i \in 1 .. Len(queue'),
                            NEW j \in 1 .. Len(queue'), i < j
                     PROVE  queue'[i] # queue'[j]
        BY <3>2, <1>1
      <4>2. j - 1 \in 1 .. Len(queue) /\ queue'[j] = queue[j - 1]
        BY <4>1, <3>2, <1>1
      <4>3. CASE i = 1
        BY <4>2, <4>3, <3>2, <1>4
      <4>4. CASE i # 1
        <5>1. i - 1 \in 1 .. Len(queue) /\ queue'[i] = queue[i - 1]
          BY <4>4, <3>2, <1>1
        <5>2. QED
          BY <5>1, <4>1, <4>2, <1>5
      <4>5. QED
        BY <4>3, <4>4
    <3>5. Linked(tx_head, queue, 1)' /\ tx_tail' = queue'[Len(queue')]
      <4>1. CASE tx_head = NoBuf
        <5>1. Len(queue) = 0
          BY <4>1, <1>1, <1>3, <1>4, FramesAssumption
        <5>2. /\ tx_head' = b /\ next' = [next EXCEPT ![b] = NoBuf]
              /\ tx_tail' = b
          BY <4>1, <3>1 DEF LinkFirst
        <5>3. QED
          BY <5>1, <5>2, <3>2, <1>1 DEF Linked, IInv, TypeOK
      <4>2. CASE tx_head # NoBuf
        <5>1. Len(queue) > 0
          BY <4>2, <1>1, <1>3
        <5>2. /\ tx_head' = b /\ next' = [next EXCEPT ![b] = tx_head]
              /\ tx_tail' = tx_tail
          BY <4>2, <3>1 DEF LinkFirst
        <5>3. next'[b] = queue[1]
          BY <5>1, <5>2, <1>3 DEF IInv, TypeOK
        <5>4. \A i \in 2 .. Len(queue') : next'[queue'[i]] = next[queue[i - 1]]
          BY <5>2, <3>2, <1>1, <1>4 DEF IInv, TypeOK
        <5>5. \A i \in 2 .. Len(queue') :
                next[queue[i - 1]]
                  = IF i = Len(queue') THEN NoBuf ELSE queue'[i + 1]
          <6>1. TAKE i \in 2 .. Len(queue')
          <6>2. i - 1 \in 1 .. Len(queue)
            BY <3>2, <1>1
          <6>3. i # Len(queue') => queue[(i - 1) + 1] = queue'[i + 1]
            BY <3>2, <1>1
          <6>4. QED
            BY <6>2, <6>3, <3>2, <1>1, <1>3
        <5>6. next'[queue'[1]]
                = IF 1 = Len(queue') THEN NoBuf ELSE queue'[1 + 1]
          BY <5>1, <5>3, <3>2, <1>1
        <5>7. \A i \in 1 .. Len(queue') :
                next'[queue'[i]]
                  = IF i = Len(queue') THEN NoBuf ELSE queue'[i + 1]
          BY <5>4, <5>5, <5>6, <3>2, <1>1
        <5>8. tx_tail' = queue'[Len(queue')] /\ tx_head' = queue'[1]
          BY <5>1, <5>2, <3>2, <1>1, <1>3
        <5>9. QED
          BY <5>7, <5>8, <3>2, <1>1 DEF Linked
      <4>3. QED
        BY <4>1, <4>2
    <3>6. next' \in [Bufs -> Pointer] /\ tx_head' \in Bufs /\ tx_tail' \in Bufs
      BY <3>1, <3>5, <3>2, <1>1, <1>3, <1>4 DEF LinkFirst, IInv, TypeOK, Pointer
    <3>7. QED
      BY <3>2, <3>3, <3>4, <3>5, <3>6
  <2>2. CASE ~ GoesFirst(b)
    <3>1. queue' = Append(queue, b) /\ LinkLast(b)
      BY <1>0, <2>2 DEF Insert
    <3>2. /\ queue' \in Seq(Bufs) /\ Len(queue') = Len(queue) + 1
          /\ queue'[Len(queue) + 1] = b
          /\ \A i \in 1 .. Len(queue) : queue'[i] = queue[i]
      BY <3>1, <1>1, AppendElements
    <3>3. {queue'[i] : i \in 1 .. Len(queue')} = InList \cup {b}
      <4>1. 1 .. Len(queue') = 1 .. Len(queue) \cup {Len(queue) + 1}
        BY <3>2, <1>1
      <4>2. QED
        BY <4>1, <3>2, <1>2
    <3>4. \A i, j \in 1 .. Len(queue') : i # j => queue'[i] # queue'[j]
      BY <3>2, <1>1, <1>4, <1>5
    <3>5. Linked(tx_head, queue, 1)' /\ tx_tail' = queue'[Len(queue')]
      <4>1. CASE tx_head = NoBuf
        <5>1. Len(queue) = 0
          BY <4>1, <1>1, <1>3, <1>4, FramesAssumption
        <5>2. /\ tx_head' = b /\ next' = [next EXCEPT ![b] = NoBuf]
              /\ tx_tail' = b
          BY <4>1, <3>1 DEF LinkLast
        <5>3. QED
          BY <5>1, <5>2, <3>2, <1>1 DEF Linked, IInv, TypeOK
      <4>2. CASE tx_head # NoBuf
        <5>1. Len(queue) > 0 /\ tx_tail = queue[Len(queue)] /\ tx_tail # b
              /\ tx_tail \in Bufs
          BY <4>2, <1>1, <1>3, <1>4
        <5>2. /\ tx_head' = tx_head /\ tx_tail' = b
              /\ next' = [next EXCEPT ![tx_tail] = b, ![b] = NoBuf]
          BY <4>2, <3>1 DEF LinkLast
        <5>3. next'[b] = NoBuf /\ next'[tx_tail] = b
              /\ \A x \in Bufs \ {b, tx_tail} : next'[x] = next[x]
          BY <5>1, <5>2 DEF IInv, TypeOK
        <5>4. \A i \in 1 .. Len(queue) :
                next'[queue[i]] = IF i = Len(queue) THEN b ELSE queue[i + 1]
          BY <5>1, <5>3, <1>1, <1>3, <1>4, <1>5
        <5>5. \A i \in 1 .. Len(queue') :
                next'[queue'[i]]
                  = IF i = Len(queue') THEN NoBuf ELSE queue'[i + 1]
          BY <5>3, <5>4, <3>2, <1>1
        <5>6. tx_tail' = queue'[Len(queue')] /\ tx_head' = queue'[1]
          BY <5>1, <5>2, <3>2, <1>1, <1>3
        <5>7. QED
          BY <5>5, <5>6, <3>2, <1>1 DEF Linked
      <4>3. QED
        BY <4>1, <4>2
    <3>6. next' \in [Bufs -> Pointer] /\ tx_head' \in Bufs /\ tx_tail' \in Bufs
      BY <3>1, <3>5, <3>2, <1>1, <1>3, <1>4 DEF LinkLast, IInv, TypeOK, Pointer
    <3>7. QED
      BY <3>2, <3>3, <3>4, <3>5, <3>6
  <2>3. QED
    BY <2>1, <2>2
<1>8. TypeOK'
  BY <1>1, <1>6, <1>7 DEF IInv, TypeOK, Pointer
<1>9. Control'
  BY <1>1, <1>6 DEF IInv, TypeOK, Control
<1>10. ListRepresentsQueue'
  BY <1>1, <1>6, <1>7 DEF IInv, ListRepresentsQueue
<1>11. HeldOnce'
  <2>1. Range(kept') = {} /\ cursor' + 1 = 1
    BY <1>6 DEF Range
  <2>2. InList' = InList \cup {b}
    BY <2>1, <1>7 DEF InList
  <2>3. /\ \A d \in Callers \ {c} : arg'[d] = arg[d] /\ arg[d] # b
        /\ arg'[c] = NoBuf /\ eb # b /\ b \notin pool /\ b # NoBuf
    BY <1>0, <1>1, <1>6 DEF IInv, TypeOK, HeldOnce
  <2>4. InList \subseteq Bufs
    BY <1>2, <1>4
  <2>5. /\ \A d, e \in Callers : d # e /\ arg'[d] # NoBuf => arg'[d] # arg'[e]
        /\ \A d \in Callers : arg'[d] = eb => eb = NoBuf
    BY <2>3, <1>0, <1>1 DEF IInv, HeldOnce
  <2>6. \A d \in Callers : arg'[d] \notin pool \cup InList'
    BY <2>2, <2>3, <2>4, FramesAssumption DEF IInv, HeldOnce, TypeOK
  <2>7. eb \notin pool \cup InList' /\ pool \cap InList' = {}
    BY <2>2, <2>3 DEF IInv, HeldOnce
  <2>8. Bufs \subseteq pool \cup InList' \cup {eb} \cup Range(arg')
    BY <2>2, <2>3, <1>0, <1>6 DEF IInv, TypeOK, HeldOnce, Range
  <2>9. DOMAIN queue' = 1 .. Len(queue') /\ DOMAIN kept' = {}
    BY <1>6, <1>7
  <2>10. QED
    BY <2>1, <2>5, <2>6, <2>7, <2>8, <2>9, <1>1, <1>6, <1>7 DEF HeldOnce
<1>12. ClearKeepsTheRest' /\ NoLostWakeup'
  BY <1>6 DEF ClearKeepsTheRest, NoLostWakeup
<1>13. QED
  BY <1>8, <1>9, <1>10, <1>11, <1>12 DEF IInv

(* list_clear starts: the list is all still there, nothing is kept.        *)
LEMMA ClearBeginPreserves ==
  ASSUME IInv, NEW c \in Callers, ClearBegin(c)
  PROVE  IInv'
<1>1. TypeOK'
  BY DEF IInv, TypeOK, ClearBegin, Pointer, listVars, senderVars, ghostVars
<1>2. Control'
  BY CallersAssumption
  DEF IInv, TypeOK, Control, ClearBegin, senderVars, ghostVars
<1>3. ListRepresentsQueue'
  BY DEF IInv, Control, ListRepresentsQueue, Linked, ClearBegin, listVars,
         ghostVars
<1>4. HeldOnce'
  BY DEF IInv, HeldOnce, InList, ClearBegin, senderVars, ghostVars, Range
<1>5. ClearKeepsTheRest' /\ NoLostWakeup'
  BY DEF IInv, ClearKeepsTheRest, NoLostWakeup, ClearBegin, ghostVars
<1>6. QED
  BY <1>1, <1>2, <1>3, <1>4, <1>5 DEF IInv

(* list_clear ends: what it kept becomes the list.                         *)
LEMMA ClearEndPreserves ==
  ASSUME IInv, NEW c \in Callers, ClearEnd(c)
  PROVE  IInv'
<1>1. /\ list_lock = c /\ list_lock # NoTask /\ pc[c] = "clearing"
      /\ queue \in Seq(Bufs) /\ kept \in Seq(Bufs)
      /\ Len(queue) \in Nat /\ Len(kept) \in Nat /\ cursor \in 0 .. Len(queue)
  BY CallersAssumption DEF IInv, TypeOK, Control, ClearEnd
<1>2. cursor = Len(queue)
  BY <1>1, FramesAssumption
  DEF IInv, TypeOK, ListRepresentsQueue, Linked, ClearEnd
<1>3. /\ queue' = kept /\ kept' = << >> /\ cursor' = 0
      /\ list_lock' = NoTask /\ tx_head' = eb_head /\ tx_tail' = eb_end
      /\ pc' = [pc EXCEPT ![c] = "insert"]
      /\ UNCHANGED <<next, list_event, eb_head, eb_end, pool, arg, sender, eb>>
  BY DEF ClearEnd, clearVars, senderVars
<1>4. TypeOK'
  BY <1>1, <1>3 DEF IInv, TypeOK, Pointer
<1>5. Control'
  BY <1>1, <1>3, CallersAssumption DEF IInv, TypeOK, Control
<1>6. ListRepresentsQueue'
  BY <1>1, <1>3 DEF IInv, ListRepresentsQueue, Linked
<1>7. InList' = InList
  <2>1. InList = Range(kept)
    BY <1>1, <1>2 DEF InList
  <2>2. InList' = {kept[i] : i \in 1 .. Len(kept)}
    BY <1>1, <1>3 DEF InList, Range
  <2>3. QED
    BY <2>1, <2>2, <1>1 DEF Range
<1>8. HeldOnce'
  BY <1>1, <1>3, <1>7 DEF IInv, HeldOnce, Range
<1>9. ClearKeepsTheRest'
  BY <1>3 DEF ClearKeepsTheRest
<1>10. NoLostWakeup'
  <2>1. kept # << >> => queue # << >>
    BY <1>1 DEF IInv, ClearKeepsTheRest
  <2>2. QED
    BY <2>1, <1>3 DEF IInv, NoLostWakeup
<1>11. QED
  BY <1>4, <1>5, <1>6, <1>8, <1>9, <1>10 DEF IInv

(* wifi_send_task wakes up.                                                *)
LEMMA WakePreserves ==
  ASSUME IInv, Wake
  PROVE  IInv'
<1>1. TypeOK'
  BY DEF IInv, TypeOK, Wake, Pointer, listVars, clearVars, callVars, ghostVars
<1>2. Control'
  BY DEF IInv, Control, Wake, callVars, ghostVars
<1>3. ListRepresentsQueue'
  BY DEF IInv, ListRepresentsQueue, Linked, Wake, listVars, clearVars, ghostVars
<1>4. HeldOnce'
  BY DEF IInv, HeldOnce, InList, Wake, callVars, ghostVars, Range
<1>5. ClearKeepsTheRest' /\ NoLostWakeup'
  BY DEF IInv, ClearKeepsTheRest, NoLostWakeup, Wake, ghostVars
<1>6. QED
  BY <1>1, <1>2, <1>3, <1>4, <1>5 DEF IInv

(* The frame it sent is given back.                                        *)
LEMMA CompletePreserves ==
  ASSUME IInv, Complete
  PROVE  IInv'
<1>1. eb \in Bufs /\ eb # NoBuf
  BY FramesAssumption DEF IInv, TypeOK, Control, Complete, Pointer
<1>2. TypeOK'
  BY <1>1
  DEF IInv, TypeOK, Complete, Pointer, listVars, clearVars, callVars, ghostVars
<1>3. Control'
  BY DEF IInv, Control, Complete, callVars, ghostVars
<1>4. ListRepresentsQueue'
  BY DEF IInv, ListRepresentsQueue, Linked, Complete, listVars, clearVars,
         ghostVars
<1>5. HeldOnce'
  <2>1. InList' = InList
    BY DEF InList, Complete, ghostVars, Range
  <2>2. NoBuf \notin InList
    BY FramesAssumption DEF InList, Range, IInv, TypeOK
  <2>3. QED
    BY <1>1, <2>1, <2>2, FramesAssumption
    DEF IInv, TypeOK, HeldOnce, Complete, callVars, ghostVars, Range
<1>6. ClearKeepsTheRest' /\ NoLostWakeup'
  BY DEF IInv, ClearKeepsTheRest, NoLostWakeup, Complete, listVars, ghostVars
<1>7. QED
  BY <1>2, <1>3, <1>4, <1>5, <1>6 DEF IInv

(* The wait for room and the end of the task touch neither list nor frame. *)
LEMMA SenderStepPreserves ==
  ASSUME IInv, RoomFound \/ Overflow \/ TransferFails
  PROVE  IInv'
<1>1. /\ UNCHANGED <<listVars, list_event, list_lock, clearVars, pool, callVars,
                     eb, ghostVars>>
      /\ sender \in {"credits", "send"} /\ sender' \in {"send", "dead"}
  BY DEF RoomFound, Overflow, TransferFails
<1>2. TypeOK'
  BY <1>1 DEF IInv, TypeOK, Pointer, listVars, clearVars, callVars, ghostVars
<1>3. Control'
  BY <1>1 DEF IInv, Control, callVars, ghostVars
<1>4. ListRepresentsQueue'
  BY <1>1 DEF IInv, ListRepresentsQueue, Linked, listVars, clearVars, ghostVars
<1>5. HeldOnce'
  BY <1>1 DEF IInv, HeldOnce, InList, callVars, ghostVars, Range
<1>6. ClearKeepsTheRest' /\ NoLostWakeup'
  BY <1>1 DEF IInv, ClearKeepsTheRest, NoLostWakeup, ghostVars
<1>7. QED
  BY <1>2, <1>3, <1>4, <1>5, <1>6 DEF IInv

(* list_remove takes the first frame, or lowers the bit.                   *)
LEMMA RemovePreserves ==
  ASSUME IInv, Remove
  PROVE  IInv'
<1>1. /\ cursor = 0 /\ kept = << >> /\ list_lock = NoTask /\ eb = NoBuf
      /\ sender = "remove"
      /\ queue \in Seq(Bufs) /\ Len(queue) \in Nat
  BY DEF IInv, TypeOK, Control, Remove
<1>2. InList = {queue[i] : i \in 1 .. Len(queue)}
  BY <1>1 DEF InList, Range
<1>3. \A i \in 1 .. Len(queue) : queue[i] \in Bufs
  BY <1>1
<1>4. /\ tx_head = IF Len(queue) = 0 THEN NoBuf ELSE queue[1]
      /\ Len(queue) > 0 => tx_tail = queue[Len(queue)]
      /\ \A i \in 1 .. Len(queue) :
           next[queue[i]] = IF i = Len(queue) THEN NoBuf ELSE queue[i + 1]
  BY <1>1 DEF IInv, ListRepresentsQueue, Linked
<1>5. \A i, j \in 1 .. Len(queue) : i # j => queue[i] # queue[j]
  BY <1>1 DEF IInv, HeldOnce
<1>6. UNCHANGED <<list_lock, eb_head, eb_end, pool, pc, arg, kept, cursor>>
  BY DEF Remove, clearVars, callVars
<1>7. CASE tx_head # NoBuf
  <2>1. /\ eb' = tx_head /\ tx_head' = next[tx_head] /\ sender' = "credits"
        /\ next' = [next EXCEPT ![tx_head] = NoBuf]
        /\ queue' = Tail(queue) /\ tx_tail' = tx_tail
        /\ list_event' = list_event
    BY <1>7 DEF Remove
  <2>2. queue # << >> /\ Len(queue) > 0 /\ tx_head = queue[1] /\ tx_head \in Bufs
    BY <1>7, <1>1, <1>3, <1>4
  <2>3. /\ queue' \in Seq(Bufs) /\ Len(queue') = Len(queue) - 1
        /\ Len(queue') \in Nat /\ DOMAIN queue' = 1 .. Len(queue')
        /\ \A i \in 1 .. Len(queue') : queue'[i] = queue[i + 1]
    BY <2>1, <2>2, <1>1, TailElements
  <2>4. /\ \A i \in 1 .. Len(queue') : i + 1 \in 1 .. Len(queue)
        /\ \A i \in 2 .. Len(queue) :
             i - 1 \in 1 .. Len(queue') /\ queue'[i - 1] = queue[i]
    BY <2>2, <2>3, <1>1
  <2>5. \A i, j \in 1 .. Len(queue') : i # j => queue'[i] # queue'[j]
    <3>1. \A i, j \in 1 .. Len(queue') : i # j => i + 1 # j + 1
      BY <2>3
    <3>2. QED
      BY <3>1, <2>3, <2>4, <1>5
  <2>6. InList' = InList \ {tx_head}
    <3>1. InList' = {queue'[i] : i \in 1 .. Len(queue')}
      BY <1>1, <1>6 DEF InList, Range
    <3>2. \A i \in 1 .. Len(queue') : queue'[i] \in InList \ {tx_head}
      <4>1. \A i \in 1 .. Len(queue') : i + 1 # 1
        BY <2>3
      <4>2. 1 \in 1 .. Len(queue)
        BY <2>2, <1>1
      <4>3. QED
        BY <4>1, <4>2, <2>2, <2>3, <2>4, <1>2, <1>5
    <3>3. \A x \in InList \ {tx_head} : x \in InList'
      <4>1. TAKE x \in InList \ {tx_head}
      <4>2. PICK i \in 1 .. Len(queue) : x = queue[i]
        BY <1>2
      <4>3. i \in 2 .. Len(queue)
        BY <4>1, <4>2, <2>2, <1>1
      <4>4. QED
        BY <4>2, <4>3, <3>1, <2>4
    <3>4. QED
      BY <3>1, <3>2, <3>3
  <2>7. Linked(tx_head, queue, 1)'
    <3>1. tx_head' = IF 1 > Len(queue') THEN NoBuf ELSE queue'[1]
      <4>1. tx_head' = IF 1 = Len(queue) THEN NoBuf ELSE queue[1 + 1]
        <5>1. 1 \in 1 .. Len(queue)
          BY <2>2, <1>1
        <5>2. QED
          BY <5>1, <2>1, <2>2, <1>4
      <4>2. Len(queue) # 1 => 1 \in 1 .. Len(queue')
        BY <2>2, <2>3, <1>1
      <4>3. QED
        BY <4>1, <4>2, <2>2, <2>3, <1>1
    <3>2. \A i \in 1 .. Len(queue') : next'[queue'[i]] = next[queue[i + 1]]
      <4>1. \A i \in 1 .. Len(queue') : queue[i + 1] # tx_head
        BY <2>2, <2>3, <2>4, <1>5
      <4>2. QED
        BY <4>1, <2>1, <2>2, <2>3, <2>4, <1>3 DEF IInv, TypeOK
    <3>3. \A i \in 1 .. Len(queue') :
            next[queue[i + 1]]
              = IF i = Len(queue') THEN NoBuf ELSE queue'[i + 1]
      <4>1. TAKE i \in 1 .. Len(queue')
      <4>2. next[queue[i + 1]]
              = IF i + 1 = Len(queue) THEN NoBuf ELSE queue[(i + 1) + 1]
        BY <2>4, <1>4
      <4>3. i # Len(queue') => queue'[i + 1] = queue[(i + 1) + 1]
        BY <2>3
      <4>4. QED
        BY <4>2, <4>3, <2>3, <1>1
    <3>4. QED
      BY <3>1, <3>2, <3>3 DEF Linked
  <2>8. Len(queue') > 0 => tx_tail' = queue'[Len(queue')]
    <3>1. SUFFICES ASSUME Len(queue') > 0
                   PROVE  tx_tail' = queue'[Len(queue')]
      OBVIOUS
    <3>2. Len(queue') \in 1 .. Len(queue') /\ Len(queue') + 1 = Len(queue)
      BY <3>1, <2>3, <1>1
    <3>3. queue'[Len(queue')] = queue[Len(queue)]
      BY <3>2, <2>3
    <3>4. QED
      BY <3>3, <2>1, <2>2, <1>4
  <2>9. TypeOK'
    BY <2>1, <2>2, <2>3, <1>1, <1>6 DEF IInv, TypeOK, Pointer
  <2>10. Control'
    BY <2>1, <2>2, <1>1, <1>6, FramesAssumption DEF IInv, Control
  <2>11. ListRepresentsQueue'
    BY <2>3, <2>7, <2>8, <1>1, <1>6 DEF ListRepresentsQueue
  <2>12. HeldOnce'
    <3>1. /\ tx_head \in InList /\ tx_head \notin pool
          /\ \A c \in Callers : arg[c] # tx_head
      BY <2>2, <1>1, <1>2 DEF IInv, HeldOnce
    <3>2. Bufs \subseteq pool \cup InList' \cup {eb'} \cup Range(arg)
      BY <2>1, <2>6, <1>1, FramesAssumption DEF IInv, HeldOnce
    <3>3. QED
      BY <3>1, <3>2, <2>1, <2>3, <2>5, <2>6, <1>1, <1>6
      DEF IInv, HeldOnce, Range
  <2>13. ClearKeepsTheRest'
    BY <1>1, <1>6 DEF ClearKeepsTheRest
  <2>14. NoLostWakeup'
    BY <2>1, <2>2 DEF IInv, NoLostWakeup
  <2>15. QED
    BY <2>9, <2>10, <2>11, <2>12, <2>13, <2>14 DEF IInv
<1>8. CASE tx_head = NoBuf
  <2>1. /\ UNCHANGED <<next, tx_head, eb, queue>>
        /\ tx_tail' = NoBuf /\ list_event' = FALSE /\ sender' = "wait"
    BY <1>8 DEF Remove
  <2>2. queue = << >> /\ Len(queue) = 0
    BY <1>8, <1>1, <1>3, <1>4, FramesAssumption
  <2>3. TypeOK'
    BY <2>1, <1>6 DEF IInv, TypeOK, Pointer
  <2>4. Control'
    BY <2>1, <1>1, <1>6 DEF IInv, Control
  <2>5. ListRepresentsQueue'
    BY <2>1, <2>2, <1>1, <1>6 DEF IInv, ListRepresentsQueue, Linked
  <2>6. HeldOnce'
    BY <2>1, <1>1, <1>6 DEF IInv, HeldOnce, InList, Range
  <2>7. ClearKeepsTheRest' /\ NoLostWakeup'
    BY <2>1, <2>2, <1>1, <1>6 DEF ClearKeepsTheRest, NoLostWakeup
  <2>8. QED
    BY <2>3, <2>4, <2>5, <2>6, <2>7 DEF IInv
<1>9. QED
  BY <1>7, <1>8

(* One iteration of list_clear: the first frame of what remains is         *)
(* recycled, or linked behind the frames kept so far.                      *)
LEMMA ClearStepPreserves ==
  ASSUME IInv, NEW c \in Callers, ClearStep(c)
  PROVE  IInv'
<1> DEFINE n == cursor + 1
<1>1. /\ list_lock = c /\ list_lock # NoTask
      /\ queue \in Seq(Bufs) /\ kept \in Seq(Bufs)
      /\ Len(queue) \in Nat /\ Len(kept) \in Nat /\ cursor \in 0 .. Len(queue)
      /\ tx_head # NoBuf
  BY CallersAssumption DEF IInv, TypeOK, Control, ClearStep
<1>2. /\ n \in 1 .. Len(queue) /\ tx_head = queue[n] /\ tx_head \in Bufs
      /\ \A i \in n .. Len(queue) :
           next[queue[i]] = IF i = Len(queue) THEN NoBuf ELSE queue[i + 1]
      /\ tx_tail = queue[Len(queue)]
  BY <1>1 DEF IInv, ListRepresentsQueue, Linked
<1>3. /\ eb_head = IF Len(kept) = 0 THEN NoBuf ELSE kept[1]
      /\ \A i \in 1 .. Len(kept) :
           next[kept[i]] = IF i = Len(kept) THEN NoBuf ELSE kept[i + 1]
      /\ eb_end = IF Len(kept) = 0 THEN NoBuf ELSE kept[Len(kept)]
  BY <1>1 DEF IInv, ListRepresentsQueue, Linked
<1>4. Range(kept) = {kept[i] : i \in 1 .. Len(kept)}
  BY <1>1 DEF Range
<1>5. /\ \A i, j \in 1 .. Len(queue) : i # j => queue[i] # queue[j]
      /\ \A i, j \in 1 .. Len(kept) : i # j => kept[i] # kept[j]
      /\ \A i \in n .. Len(queue), j \in 1 .. Len(kept) : queue[i] # kept[j]
  BY <1>1, <1>4 DEF IInv, HeldOnce
<1>6. /\ cursor' = n /\ tx_head' = next[tx_head]
      /\ tx_tail' = IF tx_head' = NoBuf THEN NoBuf ELSE tx_tail
      /\ UNCHANGED <<list_event, list_lock, pc, arg, sender, eb, queue>>
      /\ \/ Recyclable(tx_head) /\ Recycle(tx_head)
         \/ ~ Recyclable(tx_head) /\ Keep(tx_head)
  BY DEF ClearStep, callVars, senderVars
<1>7. /\ \A i \in n + 1 .. Len(queue) :
           /\ i \in n .. Len(queue) /\ i \in 1 .. Len(queue)
           /\ queue[i] \in Bufs /\ queue[i] # tx_head
           /\ \A j \in 1 .. Len(kept) : queue[i] # kept[j]
      /\ \A j \in 1 .. Len(kept) : kept[j] \in Bufs /\ kept[j] # tx_head
  <2>1. \A i \in n + 1 .. Len(queue) :
          i \in n .. Len(queue) /\ i \in 1 .. Len(queue) /\ i # n
    BY <1>1, <1>2
  <2>2. n \in n .. Len(queue)
    BY <1>2
  <2>3. QED
    BY <2>1, <2>2, <1>1, <1>2, <1>5
<1>8. tx_head' = IF n + 1 > Len(queue) THEN NoBuf ELSE queue[n + 1]
  <2>1. n \in n .. Len(queue)
    BY <1>2
  <2>2. tx_head' = IF n = Len(queue) THEN NoBuf ELSE queue[n + 1]
    BY <2>1, <1>2, <1>6
  <2>3. QED
    BY <2>2, <1>1, <1>2
<1>9. n < Len(queue) => tx_tail' = queue'[Len(queue')]
  <2>1. n < Len(queue) => n + 1 \in 1 .. Len(queue) /\ ~ (n + 1 > Len(queue))
    BY <1>1, <1>2
  <2>2. n < Len(queue) => tx_head' \in Bufs
    BY <2>1, <1>1, <1>8
  <2>3. QED
    BY <2>2, <1>2, <1>6, FramesAssumption
<1>10. InList = {queue[i] : i \in n .. Len(queue)} \cup Range(kept)
  BY DEF InList
<1>11. {queue[i] : i \in n .. Len(queue)}
         = {tx_head} \cup {queue[i] : i \in n + 1 .. Len(queue)}
  <2>1. n .. Len(queue) = {n} \cup n + 1 .. Len(queue)
    BY <1>1, <1>2
  <2>2. QED
    BY <2>1, <1>2
<1> HIDE DEF n
<1>20. CASE Recyclable(tx_head) /\ Recycle(tx_head)
  <2>1. /\ next' = [next EXCEPT ![tx_head] = NoBuf]
        /\ pool' = pool \cup {tx_head}
        /\ UNCHANGED <<eb_head, eb_end, kept>>
    BY <1>20 DEF Recycle, clearVars
  <2>2. InList' = InList \ {tx_head}
    <3>1. InList' = {queue[i] : i \in n + 1 .. Len(queue)} \cup Range(kept)
      BY <2>1, <1>6 DEF InList, Range
    <3>2. tx_head \notin {queue[i] : i \in n + 1 .. Len(queue)} \cup Range(kept)
      BY <1>4, <1>7
    <3>3. QED
      BY <3>1, <3>2, <1>10, <1>11
  <2>3. TypeOK'
    BY <2>1, <1>1, <1>2, <1>6 DEF IInv, TypeOK, Pointer
  <2>4. Control'
    BY <2>1, <1>1, <1>6 DEF IInv, Control
  <2>5. \A i \in n + 1 .. Len(queue) : next'[queue[i]] = next[queue[i]]
    BY <2>1, <1>7 DEF IInv, TypeOK
  <2>6. \A i \in 1 .. Len(kept) : next'[kept[i]] = next[kept[i]]
    BY <2>1, <1>7 DEF IInv, TypeOK
  <2>7. ListRepresentsQueue'
    <3>1. Linked(tx_head, queue, cursor + 1)'
      BY <2>5, <1>2, <1>6, <1>7, <1>8 DEF Linked
    <3>2. Linked(eb_head, kept, 1)'
      BY <2>1, <2>6, <1>1, <1>3 DEF Linked
    <3>3. eb_end' = IF kept' = << >> THEN NoBuf ELSE kept'[Len(kept')]
      BY <2>1, <1>1, <1>3
    <3>4. QED
      BY <3>1, <3>2, <3>3, <1>6, <1>9 DEF ListRepresentsQueue
  <2>8. HeldOnce'
    <3>1. tx_head \in InList /\ \A d \in Callers : arg[d] # tx_head
      BY <1>10, <1>11 DEF IInv, HeldOnce
    <3>2. \A i \in n + 1 .. Len(queue) : queue[i] \notin Range(kept)
      BY <1>4, <1>7
    <3>3. eb # tx_head
      BY <3>1 DEF IInv, HeldOnce
    <3>4. QED
      BY <3>1, <3>2, <3>3, <2>1, <2>2, <1>6 DEF IInv, HeldOnce, Range
  <2>9. ClearKeepsTheRest'
    <3>1. \A k \in 1 .. n : k \in 1 .. cursor \/ k = n
      BY <1>1 DEF n
    <3>2. \A k \in 1 .. cursor : k \in 1 .. n
      BY <1>1 DEF n
    <3>3. QED
      BY <3>1, <3>2, <2>1, <1>2, <1>6, <1>20 DEF IInv, ClearKeepsTheRest
  <2>10. NoLostWakeup'
    BY <1>6 DEF IInv, NoLostWakeup
  <2>11. QED
    BY <2>3, <2>4, <2>7, <2>8, <2>9, <2>10 DEF IInv
<1>30. CASE ~ Recyclable(tx_head) /\ Keep(tx_head)
  <2>1. /\ eb_end' = tx_head /\ kept' = Append(kept, tx_head) /\ pool' = pool
        /\ \/ /\ eb_end = NoBuf /\ eb_head' = tx_head
              /\ next' = [next EXCEPT ![tx_head] = NoBuf]
           \/ /\ eb_end # NoBuf /\ eb_head' = eb_head
              /\ next' = [next EXCEPT ![eb_end] = tx_head, ![tx_head] = NoBuf]
    BY <1>30 DEF Keep
  <2>2. /\ kept' \in Seq(Bufs) /\ Len(kept') = Len(kept) + 1
        /\ Len(kept') \in 1 .. Len(kept')
        /\ kept'[Len(kept) + 1] = tx_head
        /\ \A i \in 1 .. Len(kept) : kept'[i] = kept[i] /\ i \in 1 .. Len(kept')
    BY <2>1, <1>1, <1>2, AppendElements
  <2>3. \A i \in 1 .. Len(kept') : i = Len(kept') \/ i \in 1 .. Len(kept)
    BY <2>2, <1>1
  <2>4. Range(kept') = Range(kept) \cup {tx_head}
    <3>1. Range(kept') = {kept'[i] : i \in 1 .. Len(kept')}
      BY <2>2 DEF Range
    <3>2. \A i \in 1 .. Len(kept') : kept'[i] \in Range(kept) \cup {tx_head}
      BY <2>2, <2>3, <1>4
    <3>3. QED
      BY <3>1, <3>2, <2>2, <1>4
  <2>5. InList' = InList
    <3>1. InList' = {queue[i] : i \in n + 1 .. Len(queue)} \cup Range(kept')
      BY <1>6 DEF InList, Range
    <3>2. QED
      BY <3>1, <2>4, <1>10, <1>11
  <2>6. /\ next' \in [Bufs -> Pointer]
        /\ next'[tx_head] = NoBuf
        /\ Len(kept) > 0 => next'[kept[Len(kept)]] = tx_head
        /\ \A x \in Bufs \ {tx_head} :
             x # eb_end => next'[x] = next[x]
    <3>1. CASE eb_end = NoBuf
      <4>1. Len(kept) = 0
        BY <3>1, <1>1, <1>3, <1>7, FramesAssumption
      <4>2. QED
        BY <3>1, <4>1, <2>1, <1>2 DEF IInv, TypeOK, Pointer
    <3>2. CASE eb_end # NoBuf
      <4>1. Len(kept) > 0 /\ Len(kept) \in 1 .. Len(kept)
        BY <3>2, <1>1, <1>3
      <4>2. eb_end = kept[Len(kept)] /\ eb_end \in Bufs /\ eb_end # tx_head
        BY <3>2, <4>1, <1>3, <1>7
      <4>3. next' = [next EXCEPT ![eb_end] = tx_head, ![tx_head] = NoBuf]
        BY <3>2, <2>1
      <4>4. QED
        BY <4>1, <4>2, <4>3, <1>2 DEF IInv, TypeOK, Pointer
    <3>3. QED
      BY <3>1, <3>2
  <2>7. TypeOK'
    BY <2>1, <2>2, <2>6, <1>1, <1>2, <1>3, <1>6, <1>7 DEF IInv, TypeOK, Pointer
  <2>8. Control'
    BY <1>1, <1>6 DEF IInv, Control
  <2>9. ListRepresentsQueue'
    <3>1. \A i \in n + 1 .. Len(queue) : queue[i] # eb_end
      BY <1>1, <1>3, <1>7, FramesAssumption
    <3>2. Linked(tx_head, queue, cursor + 1)'
      BY <3>1, <2>6, <1>2, <1>6, <1>7, <1>8 DEF Linked
    <3>3. \A i \in 1 .. Len(kept) :
            next'[kept[i]] = IF i = Len(kept) THEN tx_head ELSE kept[i + 1]
      <4>1. SUFFICES ASSUME NEW i \in 1 .. Len(kept), i # Len(kept)
                     PROVE  next'[kept[i]] = kept[i + 1]
        BY <2>6, <1>1
      <4>2. kept[i] # eb_end
        BY <4>1, <1>1, <1>3, <1>5
      <4>3. QED
        BY <4>1, <4>2, <2>6, <1>3, <1>7
    <3>4. \A i \in 1 .. Len(kept') :
            next'[kept'[i]]
              = IF i = Len(kept') THEN NoBuf ELSE kept'[i + 1]
      <4>1. \A i \in 1 .. Len(kept) :
              i # Len(kept) => i + 1 \in 1 .. Len(kept)
        BY <1>1
      <4>2. QED
        BY <4>1, <3>3, <2>2, <2>3, <2>6, <1>1
    <3>5. eb_head' = kept'[1]
      <4>1. CASE Len(kept) = 0
        BY <4>1, <1>3, <2>1, <2>2
      <4>2. CASE Len(kept) # 0
        <5>1. 1 \in 1 .. Len(kept) /\ Len(kept) \in 1 .. Len(kept)
          BY <4>2, <1>1
        <5>2. QED
          BY <5>1, <4>2, <1>3, <1>7, <2>1, <2>2, FramesAssumption
      <4>3. QED
        BY <4>1, <4>2
    <3>6. Linked(eb_head, kept, 1)' /\ kept' # << >>
          /\ eb_end' = kept'[Len(kept')]
      BY <3>4, <3>5, <2>1, <2>2, <1>1 DEF Linked
    <3>7. QED
      BY <3>2, <3>6, <1>6, <1>9 DEF ListRepresentsQueue
  <2>10. HeldOnce'
    <3>1. \A i, j \in 1 .. Len(kept') : i # j => kept'[i] # kept'[j]
      BY <2>2, <2>3, <1>5, <1>7
    <3>2. \A i \in n + 1 .. Len(queue) : queue[i] \notin Range(kept')
      BY <2>4, <1>4, <1>7
    <3>3. DOMAIN kept' = 1 .. Len(kept')
      BY <2>2
    <3>4. QED
      BY <3>1, <3>2, <3>3, <2>1, <2>5, <1>6 DEF IInv, HeldOnce, Range
  <2>11. ClearKeepsTheRest'
    <3>1. /\ DOMAIN kept' = 1 .. Len(kept') /\ DOMAIN kept = 1 .. Len(kept)
          /\ \A k \in 1 .. n : k \in 1 .. cursor \/ k = n
          /\ \A k \in 1 .. cursor : k \in 1 .. n /\ k < n
          /\ n \in 1 .. n
      BY <2>2, <1>1 DEF n
    <3>2. \A i \in 1 .. Len(kept') : ~ Recyclable(kept'[i])
      BY <3>1, <2>2, <2>3, <1>30 DEF IInv, ClearKeepsTheRest
    <3>3. \A k \in 1 .. n :
            ~ Recyclable(queue[k]) =>
              \E i \in 1 .. Len(kept') : kept'[i] = queue[k]
      BY <3>1, <2>2, <1>2 DEF IInv, ClearKeepsTheRest
    <3>4. \A i \in 1 .. Len(kept') : \E k \in 1 .. n : kept'[i] = queue[k]
      <4>1. TAKE i \in 1 .. Len(kept')
      <4>2. CASE i \in 1 .. Len(kept)
        <5>1. PICK k \in 1 .. cursor : kept[i] = queue[k]
          BY <4>2, <3>1 DEF IInv, ClearKeepsTheRest
        <5>2. QED
          BY <5>1, <4>2, <3>1, <2>2
      <4>3. CASE i = Len(kept')
        BY <4>3, <3>1, <2>2, <1>2
      <4>4. QED
        BY <4>2, <4>3, <2>3
    <3>5. \A i, j \in 1 .. Len(kept') :
            i < j => \E k, l \in 1 .. n :
                       k < l /\ queue[k] = kept'[i] /\ queue[l] = kept'[j]
      <4>1. SUFFICES ASSUME NEW i \in 1 .. Len(kept'),
                            NEW j \in 1 .. Len(kept'), i < j
                     PROVE  \E k, l \in 1 .. n :
                              k < l /\ queue[k] = kept'[i] /\ queue[l] = kept'[j]
        OBVIOUS
      <4>2. i \in 1 .. Len(kept) /\ kept'[i] = kept[i]
        BY <4>1, <2>2, <1>1
      <4>3. CASE j \in 1 .. Len(kept)
        <5>1. PICK k \in 1 .. cursor, l \in 1 .. cursor :
                k < l /\ queue[k] = kept[i] /\ queue[l] = kept[j]
          BY <4>1, <4>2, <4>3, <3>1 DEF IInv, ClearKeepsTheRest
        <5>2. QED
          BY <5>1, <4>2, <4>3, <3>1, <2>2
      <4>4. CASE j = Len(kept')
        <5>1. PICK k \in 1 .. cursor : kept[i] = queue[k]
          BY <4>2, <3>1 DEF IInv, ClearKeepsTheRest
        <5>2. kept'[j] = queue[n]
          BY <4>4, <2>2, <1>2
        <5>3. QED
          BY <5>1, <5>2, <4>2, <3>1
      <4>5. QED
        BY <4>3, <4>4, <2>3
    <3>6. cursor' = n /\ queue' = queue /\ DOMAIN kept' = 1 .. Len(kept')
      BY <3>1, <1>6
    <3>7. /\ \A i \in DOMAIN kept' : ~ Recyclable(kept'[i])
          /\ \A k \in 1 .. cursor' :
               ~ Recyclable(queue'[k]) =>
                 \E i \in DOMAIN kept' : kept'[i] = queue'[k]
          /\ \A i \in DOMAIN kept' : \E k \in 1 .. cursor' : kept'[i] = queue'[k]
      BY <3>2, <3>3, <3>4, <3>6
    <3>8. \A i, j \in DOMAIN kept' :
            i < j => \E k, l \in 1 .. cursor' :
                       k < l /\ queue'[k] = kept'[i] /\ queue'[l] = kept'[j]
      BY <3>5, <3>6
    <3>9. QED
      BY <3>7, <3>8, Zenon DEF ClearKeepsTheRest, Recyclable
  <2>12. NoLostWakeup'
    BY <1>6 DEF IInv, NoLostWakeup
  <2>13. QED
    BY <2>7, <2>8, <2>9, <2>10, <2>11, <2>12 DEF IInv
<1>40. QED
  BY <1>6, <1>20, <1>30

LEMMA StutterPreserves == IInv /\ UNCHANGED vars => IInv'
BY DEF vars, listVars, clearVars, callVars, senderVars, ghostVars, IInv,
       TypeOK, Control, ListRepresentsQueue, Linked, HeldOnce, InList,
       ClearKeepsTheRest, NoLostWakeup, Range

(* The invariant holds in every reachable state: whatever the callers do,  *)
(* the operations of the list keep its pointers, its locks, its bit and    *)
(* the ownership of the buffers in agreement.                              *)
THEOREM Invariance == Spec => []IInv
<1>1. IInv /\ [Next]_vars => IInv'
  <2>1. SUFFICES ASSUME IInv, [Next]_vars PROVE IInv'
    OBVIOUS
  <2>2. ASSUME NEW c \in Callers, NEW b \in Bufs, Call(c, b) PROVE IInv'
    BY <2>1, <2>2, CallPreserves
  <2>3. ASSUME NEW c \in Callers, Insert(c) PROVE IInv'
    BY <2>1, <2>3, InsertPreserves
  <2>4. ASSUME NEW c \in Callers, ClearBegin(c) PROVE IInv'
    BY <2>1, <2>4, ClearBeginPreserves
  <2>5. ASSUME NEW c \in Callers, ClearStep(c) PROVE IInv'
    BY <2>1, <2>5, ClearStepPreserves
  <2>6. ASSUME NEW c \in Callers, ClearEnd(c) PROVE IInv'
    BY <2>1, <2>6, ClearEndPreserves
  <2>7. CASE Wake
    BY <2>1, <2>7, WakePreserves
  <2>8. CASE Remove
    BY <2>1, <2>8, RemovePreserves
  <2>9. CASE Complete
    BY <2>1, <2>9, CompletePreserves
  <2>10. CASE RoomFound \/ Overflow \/ TransferFails
    BY <2>1, <2>10, SenderStepPreserves
  <2>11. ASSUME UNCHANGED vars \/ \E c \in Callers : AllocFails(c)
         PROVE  IInv'
    BY <2>1, <2>11, StutterPreserves DEF AllocFails
  <2>12. QED
    BY <2>1, <2>2, <2>3, <2>4, <2>5, <2>6, <2>7, <2>8, <2>9, <2>10, <2>11
    DEF Next
<1>2. QED
  BY InitEstablishes, <1>1, PTL DEF Spec

(* Every variable keeps its type: no null pointer is followed or recycled. *)
THEOREM TypeCorrect == Spec => []TypeOK
<1>1. IInv => TypeOK
  BY DEF IInv
<1>2. QED
  BY Invariance, <1>1, PTL

(* list_insert, list_head_insert, list_remove and list_clear keep tx_head, *)
(* tx_tail and the bqentry fields one properly terminated list.            *)
THEOREM ListIsWellFormed == Spec => []ListRepresentsQueue
<1>1. IInv => ListRepresentsQueue
  BY DEF IInv
<1>2. QED
  BY Invariance, <1>1, PTL

(* No buffer is recycled twice, recycled while in use, or lost.            *)
THEOREM BuffersAreHeldOnce == Spec => []HeldOnce
<1>1. IInv => HeldOnce
  BY DEF IInv
<1>2. QED
  BY Invariance, <1>1, PTL

(* list_clear keeps what it must keep, in order.                           *)
THEOREM ClearLosesNothing == Spec => []ClearKeepsTheRest
<1>1. IInv => ClearKeepsTheRest
  BY DEF IInv
<1>2. QED
  BY Invariance, <1>1, PTL

(* wifi_send_task is never left asleep on a list that has frames.          *)
THEOREM WakeupIsNotLost == Spec => []NoLostWakeup
<1>1. IInv => NoLostWakeup
  BY DEF IInv
<1>2. QED
  BY Invariance, <1>1, PTL

-------------------------------------------------------------------------------
(* The refinement: every step of the list is a step of the queue, or none. *)

LEMMA AbstractVars ==
  UNCHANGED <<queue, list_event, eb>> => UNCHANGED AbstractQueue!vars
BY DEF AbstractQueue!vars

LEMMA InsertIsPut ==
  ASSUME IInv, NEW c \in Callers, Insert(c)
  PROVE  AbstractQueue!Next
<1>1. PICK b \in Bufs : b = arg[c]
  BY DEF IInv, TypeOK, Control, Insert, Pointer
<1>2. Range(queue) \subseteq InList
  BY DEF IInv, TypeOK, Control, Insert, InList, Range
<1>3. b \notin Range(queue) \cup {eb}
  BY <1>1, <1>2, FramesAssumption DEF IInv, HeldOnce
<1>4. AbstractQueue!Put(b)
  BY <1>1, <1>3
  DEF Insert, AbstractQueue!Put, senderVars, GoesFirst, AbstractQueue!GoesFirst,
      Range, AbstractQueue!Range
<1>5. QED
  BY <1>4 DEF AbstractQueue!Next

LEMMA ClearEndIsClear ==
  ASSUME IInv, NEW c \in Callers, ClearEnd(c)
  PROVE  AbstractQueue!Next
<1>1. /\ list_lock = c /\ list_lock # NoTask
      /\ queue \in Seq(Bufs) /\ kept \in Seq(Bufs)
      /\ Len(queue) \in Nat /\ cursor \in 0 .. Len(queue)
  BY CallersAssumption DEF IInv, TypeOK, Control, ClearEnd
<1>2. 1 .. cursor = DOMAIN queue
  BY <1>1, FramesAssumption
  DEF IInv, TypeOK, ListRepresentsQueue, Linked, ClearEnd
<1>3. Range(kept) = {b \in Range(queue) : ~ Recyclable(b)}
  <2>1. \A b \in Range(kept) : b \in Range(queue) /\ ~ Recyclable(b)
    <3>1. TAKE b \in Range(kept)
    <3>2. PICK i \in DOMAIN kept : b = kept[i]
      BY DEF Range
    <3>3. ~ Recyclable(b) /\ \E k \in 1 .. cursor : b = queue[k]
      BY <3>2 DEF IInv, ClearKeepsTheRest
    <3>4. QED
      BY <3>3, <1>2 DEF Range
  <2>2. \A b \in Range(queue) : ~ Recyclable(b) => b \in Range(kept)
    <3>1. TAKE b \in Range(queue)
    <3>2. PICK k \in 1 .. cursor : b = queue[k]
      BY <1>2 DEF Range
    <3>3. QED
      BY <3>2 DEF IInv, ClearKeepsTheRest, Range
  <2>3. QED
    BY <2>1, <2>2
<1>4. \A i, j \in DOMAIN kept :
        i < j => \E k, l \in DOMAIN queue :
                   k < l /\ queue[k] = kept[i] /\ queue[l] = kept[j]
  <2>1. TAKE i, j \in DOMAIN kept
  <2>2. HAVE i < j
  <2>3. PICK k \in 1 .. cursor, l \in 1 .. cursor :
          k < l /\ queue[k] = kept[i] /\ queue[l] = kept[j]
    BY <2>2, Zenon DEF IInv, ClearKeepsTheRest
  <2>4. QED
    BY <2>3, <1>2
<1>5. queue' = kept /\ UNCHANGED <<list_event, eb>>
  BY DEF ClearEnd, senderVars
<1>6. AbstractQueue!Clear
  BY <1>1, <1>3, <1>4, <1>5
  DEF AbstractQueue!Clear, AbstractQueue!ClearedFrom, Recyclable,
      AbstractQueue!Recyclable, Range, AbstractQueue!Range
<1>7. QED
  BY <1>6 DEF AbstractQueue!Next

LEMMA RemoveIsTake ==
  ASSUME IInv, Remove
  PROVE  AbstractQueue!Next
<1>1. /\ cursor = 0 /\ eb = NoBuf
      /\ queue \in Seq(Bufs) /\ Len(queue) \in Nat
  BY DEF IInv, TypeOK, Control, Remove
<1>2. tx_head = IF Len(queue) = 0 THEN NoBuf ELSE queue[1]
  BY <1>1 DEF IInv, ListRepresentsQueue, Linked
<1>3. CASE tx_head # NoBuf
  <2>1. queue # << >> /\ Head(queue) = tx_head
    BY <1>1, <1>2, <1>3
  <2>2. QED
    BY <2>1, <1>1, <1>3 DEF Remove, AbstractQueue!Next, AbstractQueue!Take
<1>4. CASE tx_head = NoBuf
  <2>1. queue = << >>
    BY <1>1, <1>2, <1>4, FramesAssumption
  <2>2. QED
    BY <2>1, <1>1, <1>4 DEF Remove, AbstractQueue!Next, AbstractQueue!FindEmpty
<1>5. QED
  BY <1>3, <1>4

(* The list implements the queue of TxQueue: its operations appear atomic, *)
(* list_clear included, and frames leave in the order they came.           *)
THEOREM ListImplementsQueue == Spec => ImplementsTxQueue
<1>1. Init => AbstractQueue!Init
  BY DEF Init, AbstractQueue!Init
<1>2. IInv /\ [Next]_vars => [AbstractQueue!Next]_(AbstractQueue!vars)
  <2>1. SUFFICES ASSUME IInv, [Next]_vars
                 PROVE  AbstractQueue!Next \/ UNCHANGED AbstractQueue!vars
    OBVIOUS
  <2>2. ASSUME NEW c \in Callers, NEW b \in Bufs, Call(c, b)
        PROVE  UNCHANGED AbstractQueue!vars
    BY <2>2, AbstractVars DEF Call, senderVars, ghostVars
  <2>3. ASSUME NEW c \in Callers, ClearBegin(c) \/ ClearStep(c)
        PROVE  UNCHANGED AbstractQueue!vars
    BY <2>3, AbstractVars DEF ClearBegin, ClearStep, senderVars, ghostVars
  <2>4. ASSUME Wake \/ RoomFound \/ Overflow \/ TransferFails
        PROVE  UNCHANGED AbstractQueue!vars
    BY <2>4, AbstractVars DEF Wake, RoomFound, Overflow,
                             TransferFails, ghostVars
  <2>5. CASE Complete
    <3>1. eb # NoBuf
      BY <2>1, <2>5 DEF IInv, Control, Complete
    <3>2. AbstractQueue!Finish
      BY <3>1, <2>5 DEF Complete, AbstractQueue!Finish, ghostVars
    <3>3. QED
      BY <3>2 DEF AbstractQueue!Next
  <2>6. ASSUME UNCHANGED vars \/ \E c \in Callers : AllocFails(c)
        PROVE  UNCHANGED AbstractQueue!vars
    BY <2>6, AbstractVars DEF AllocFails, vars, senderVars, ghostVars
  <2>7. QED
    BY <2>1, <2>2, <2>3, <2>4, <2>5, <2>6, InsertIsPut, ClearEndIsClear,
       RemoveIsTake DEF Next
<1>3. QED
  BY Invariance, <1>1, <1>2, PTL
  DEF Spec, ImplementsTxQueue, AbstractQueue!Spec

-------------------------------------------------------------------------------
(* What the queue promises, proved of the queue and carried to the list.   *)

(* The class of a frame and the elements of a sequence mean the same on    *)
(* both sides.                                                             *)
LEMMA SameOperators ==
  /\ \A b : AbstractQueue!Recyclable(b) <=> Recyclable(b)
  /\ \A b : AbstractQueue!GoesFirst(b) <=> GoesFirst(b)
  /\ \A b : AbstractQueue!Waits(b) <=> \E i \in DOMAIN queue : queue[i] = b
  /\ \A b : AbstractQueue!Waits(b)' <=> \E i \in DOMAIN queue' : queue'[i] = b
  /\ AbstractQueue!Pointer = Bufs \cup {NoBuf}
BY DEF AbstractQueue!Recyclable, Recyclable, AbstractQueue!GoesFirst, GoesFirst,
       AbstractQueue!Waits, AbstractQueue!Range, AbstractQueue!Pointer

(* What each operation of the queue does to it, element by element: it     *)
(* goes on where it was (Put moves it one place back, or none; Take one    *)
(* place forward), or it is the one that came or went.                     *)
LEMMA QueueStep ==
  ASSUME AbstractQueue!WaitsOnce, [AbstractQueue!Next]_(AbstractQueue!vars)
  PROVE  /\ AbstractQueue!WaitsOnce'
         /\ AbstractQueue!KeepsOrder
         /\ AbstractQueue!DropsNothing
<1> USE DEF AbstractQueue!KeepsOrder, AbstractQueue!DropsNothing
<1> DEFINE Goal == /\ AbstractQueue!WaitsOnce'
                   /\ AbstractQueue!KeepsOrder
                   /\ AbstractQueue!DropsNothing
<1>1. /\ queue \in Seq(Bufs) /\ Len(queue) \in Nat /\ DOMAIN queue = 1 .. Len(queue)
      /\ \A i, j \in DOMAIN queue : i # j => queue[i] # queue[j]
      /\ eb \in Bufs \cup {NoBuf}
      /\ \A i \in DOMAIN queue : queue[i] # eb /\ queue[i] \in Bufs
  BY SameOperators DEF AbstractQueue!WaitsOnce
<1>2. ASSUME queue' = queue, eb' = eb \/ eb' = NoBuf
      PROVE  Goal
  BY <1>1, <1>2, SameOperators, FramesAssumption
  DEF AbstractQueue!WaitsOnce, AbstractQueue!Before
<1>3. ASSUME NEW x \in Bufs, AbstractQueue!Put(x)
      PROVE  Goal
  <2>1. /\ eb' = eb /\ x # eb /\ \A i \in DOMAIN queue : queue[i] # x
        /\ queue' = IF GoesFirst(x) THEN <<x>> \o queue ELSE Append(queue, x)
    BY <1>3, SameOperators DEF AbstractQueue!Put, AbstractQueue!Range
  <2>2. CASE GoesFirst(x)
    <3>1. /\ queue' \in Seq(Bufs) /\ DOMAIN queue' = 1 .. Len(queue) + 1
          /\ queue'[1] = x
          /\ \A i \in 1 .. Len(queue) : queue'[i + 1] = queue[i]
          /\ \A i \in 2 .. Len(queue) + 1 : queue'[i] = queue[i - 1]
      BY <2>1, <2>2, <1>1, ConsElements
    <3>2. \A i \in DOMAIN queue' : i = 1 \/ (i \in 2 .. Len(queue) + 1 /\ i - 1 \in DOMAIN queue)
      BY <3>1, <1>1
    <3>3. \A i, j \in DOMAIN queue' : i # j => queue'[i] # queue'[j]
      BY <3>1, <3>2, <2>1, <1>1
    <3>4. \A i \in DOMAIN queue' : queue'[i] # eb'
      BY <3>1, <3>2, <2>1, <1>1
    <3>5. \A b, c \in Bufs : AbstractQueue!Before(queue, b, c) =>
            AbstractQueue!Before(queue', b, c) /\ eb' # c
      <4>1. SUFFICES ASSUME NEW i \in DOMAIN queue, NEW j \in DOMAIN queue, i < j
                     PROVE  /\ AbstractQueue!Before(queue', queue[i], queue[j])
                            /\ eb' # queue[j]
        BY DEF AbstractQueue!Before
      <4>2. /\ i + 1 \in DOMAIN queue' /\ queue'[i + 1] = queue[i]
            /\ j + 1 \in DOMAIN queue' /\ queue'[j + 1] = queue[j] /\ i + 1 < j + 1
        BY <4>1, <3>1, <1>1
      <4>3. QED
        BY <4>1, <4>2, <2>1, <1>1 DEF AbstractQueue!Before
    <3>6. \A i \in DOMAIN queue : i + 1 \in DOMAIN queue' /\ queue'[i + 1] = queue[i]
      BY <3>1, <1>1
    <3>7. AbstractQueue!WaitsOnce'
      BY <3>1, <3>3, <3>4, <2>1, <1>1, SameOperators DEF AbstractQueue!WaitsOnce
    <3>8. \A b : AbstractQueue!Waits(b) => AbstractQueue!Waits(b)'
      BY <3>6, SameOperators
    <3>9. QED
      BY <3>5, <3>7, <3>8
  <2>3. CASE ~ GoesFirst(x)
    <3>1. /\ queue' \in Seq(Bufs) /\ DOMAIN queue' = 1 .. Len(queue) + 1
          /\ queue'[Len(queue) + 1] = x
          /\ \A i \in 1 .. Len(queue) : queue'[i] = queue[i]
      BY <2>1, <2>3, <1>1, AppendElements
    <3>2. \A i \in DOMAIN queue' : i = Len(queue) + 1 \/ i \in DOMAIN queue
      BY <3>1, <1>1
    <3>3. \A i, j \in DOMAIN queue' : i # j => queue'[i] # queue'[j]
      BY <3>1, <3>2, <2>1, <1>1
    <3>4. \A i \in DOMAIN queue' : queue'[i] # eb'
      BY <3>1, <3>2, <2>1, <1>1
    <3>5. \A b, c \in Bufs : AbstractQueue!Before(queue, b, c) =>
            AbstractQueue!Before(queue', b, c) /\ eb' # c
      <4>1. SUFFICES ASSUME NEW i \in DOMAIN queue, NEW j \in DOMAIN queue, i < j
                     PROVE  /\ AbstractQueue!Before(queue', queue[i], queue[j])
                            /\ eb' # queue[j]
        BY DEF AbstractQueue!Before
      <4>2. /\ i \in DOMAIN queue' /\ queue'[i] = queue[i]
            /\ j \in DOMAIN queue' /\ queue'[j] = queue[j] /\ i < j
        BY <4>1, <3>1, <1>1
      <4>3. QED
        BY <4>1, <4>2, <2>1, <1>1 DEF AbstractQueue!Before
    <3>6. \A i \in DOMAIN queue : i \in DOMAIN queue' /\ queue'[i] = queue[i]
      BY <3>1, <1>1
    <3>7. AbstractQueue!WaitsOnce'
      BY <3>1, <3>3, <3>4, <2>1, <1>1, SameOperators DEF AbstractQueue!WaitsOnce
    <3>8. \A b : AbstractQueue!Waits(b) => AbstractQueue!Waits(b)'
      BY <3>6, SameOperators
    <3>9. QED
      BY <3>5, <3>7, <3>8
  <2>4. QED
    BY <2>2, <2>3
<1>4. ASSUME AbstractQueue!Take
      PROVE  Goal
  <2>1. queue # << >> /\ eb' = queue[1] /\ queue' = Tail(queue) /\ Len(queue) > 0
    BY <1>1, <1>4, TailElements DEF AbstractQueue!Take
  <2>2. /\ queue' \in Seq(Bufs) /\ DOMAIN queue' = 1 .. Len(queue) - 1
        /\ \A i \in 1 .. Len(queue) - 1 : queue'[i] = queue[i + 1]
        /\ \A i \in DOMAIN queue' : i + 1 \in DOMAIN queue /\ i + 1 # 1
        /\ 1 \in DOMAIN queue
    BY <2>1, <1>1, TailElements
  <2>3. \A i, j \in DOMAIN queue' : i # j => queue'[i] # queue'[j]
    <3>1. \A i, j \in DOMAIN queue' : i # j => i + 1 # j + 1
      BY <2>2, <1>1
    <3>2. QED
      BY <3>1, <2>2, <1>1
  <2>4. \A i \in DOMAIN queue' : queue'[i] # eb'
    BY <2>1, <2>2, <1>1
  <2>5. \A b, c \in Bufs : AbstractQueue!Before(queue, b, c) =>
          eb' # c /\ (b = eb' \/ AbstractQueue!Before(queue', b, c))
    <3>1. SUFFICES ASSUME NEW i \in DOMAIN queue, NEW j \in DOMAIN queue, i < j
                   PROVE  /\ eb' # queue[j]
                          /\ \/ queue[i] = eb'
                             \/ AbstractQueue!Before(queue', queue[i], queue[j])
      BY DEF AbstractQueue!Before
    <3>2. j # 1 /\ j - 1 \in DOMAIN queue' /\ queue'[j - 1] = queue[j]
      BY <3>1, <2>2, <1>1
    <3>3. eb' # queue[j]
      BY <3>2, <2>1, <2>2, <1>1
    <3>4. CASE i # 1
      <4>1. i - 1 \in DOMAIN queue' /\ queue'[i - 1] = queue[i] /\ i - 1 < j - 1
        BY <3>1, <3>4, <2>2, <1>1
      <4>2. QED
        BY <4>1, <3>2, <3>3 DEF AbstractQueue!Before
    <3>5. QED
      BY <3>3, <3>4, <2>1
  <2>6. \A i \in DOMAIN queue : i = 1 \/ (i - 1 \in DOMAIN queue' /\ queue'[i - 1] = queue[i])
    BY <2>2, <1>1
  <2>7. AbstractQueue!WaitsOnce'
    BY <2>1, <2>2, <2>3, <2>4, <1>1, SameOperators DEF AbstractQueue!WaitsOnce
  <2>8. \A b : b = eb' => ~ AbstractQueue!Waits(b)'
    BY <2>4, SameOperators
  <2>9. \A b : AbstractQueue!Waits(b) => AbstractQueue!Waits(b)' \/ eb' = b
    BY <2>1, <2>6, SameOperators
  <2>10. QED
    BY <2>5, <2>7, <2>8, <2>9
<1>5. ASSUME AbstractQueue!Clear
      PROVE  Goal
  <2>1. /\ eb' = eb /\ queue' \in Seq(Bufs)
        /\ {queue'[i] : i \in DOMAIN queue'} =
             {b \in {queue[i] : i \in DOMAIN queue} : ~ Recyclable(b)}
        /\ \A i, j \in DOMAIN queue' :
             i < j => \E k, l \in DOMAIN queue :
                        k < l /\ queue[k] = queue'[i] /\ queue[l] = queue'[j]
    BY <1>5, SameOperators
    DEF AbstractQueue!Clear, AbstractQueue!ClearedFrom, AbstractQueue!Range
  <2>2. DOMAIN queue' \subseteq Nat /\ DOMAIN queue \subseteq Nat
    BY <2>1, <1>1
  <2>3. \A i, j \in DOMAIN queue' : i < j => queue'[i] # queue'[j]
    <3>1. TAKE i, j \in DOMAIN queue'
    <3>2. HAVE i < j
    <3>3. PICK k \in DOMAIN queue, l \in DOMAIN queue :
            k < l /\ queue[k] = queue'[i] /\ queue[l] = queue'[j]
      BY <2>1, <3>2
    <3>4. k # l
      BY <3>3, <2>2
    <3>5. QED
      BY <3>3, <3>4, <1>1
  <2>4. \A i, j \in DOMAIN queue' : i # j => queue'[i] # queue'[j]
    <3>1. \A i, j \in DOMAIN queue' : i # j => i < j \/ j < i
      BY <2>2
    <3>2. QED
      BY <3>1, <2>3
  <2>5. \A i \in DOMAIN queue' : queue'[i] # eb'
    BY <2>1, <1>1
  <2>6. \A b, c \in Bufs : AbstractQueue!Before(queue, b, c) =>
          /\ eb' # c
          /\ AbstractQueue!Waits(b)' /\ AbstractQueue!Waits(c)' =>
               AbstractQueue!Before(queue', b, c)
    <3>1. SUFFICES ASSUME NEW i \in DOMAIN queue, NEW j \in DOMAIN queue, i < j,
                          NEW k \in DOMAIN queue', NEW l \in DOMAIN queue',
                          queue'[k] = queue[i], queue'[l] = queue[j]
                   PROVE  k < l
      BY <2>1, <1>1, SameOperators DEF AbstractQueue!Before
    <3>2. queue[i] # queue[j] /\ k # l
      BY <3>1, <2>2, <1>1
    <3>3. CASE l < k
      <4>1. PICK m \in DOMAIN queue, n \in DOMAIN queue :
              m < n /\ queue[m] = queue'[l] /\ queue[n] = queue'[k]
        BY <3>3, <2>1
      <4>2. m = j /\ n = i
        BY <4>1, <3>1, <1>1
      <4>3. QED
        BY <4>1, <4>2, <3>1, <2>2
    <3>4. QED
      BY <3>2, <3>3, <2>2
  <2>7. \A b \in Bufs : AbstractQueue!Waits(b) =>
          AbstractQueue!Waits(b)' \/ Recyclable(b)
    BY <2>1, SameOperators
  <2>8. QED
    BY <2>1, <2>4, <2>5, <2>6, <2>7, <1>1, SameOperators
    DEF AbstractQueue!WaitsOnce
<1>6. QED
  <2>1. CASE AbstractQueue!FindEmpty \/ AbstractQueue!Finish \/ UNCHANGED AbstractQueue!vars
    BY <2>1, <1>2 DEF AbstractQueue!FindEmpty, AbstractQueue!Finish, AbstractQueue!vars
  <2>2. QED
    BY <2>1, <1>3, <1>4, <1>5 DEF AbstractQueue!Next

(* The queue itself keeps the order and drops nothing.                     *)
LEMMA QueueSpecKeepsOrder ==
  AbstractQueue!Spec => /\ []AbstractQueue!WaitsOnce
                        /\ AbstractQueue!InOrder
                        /\ AbstractQueue!NothingDropped
<1>1. AbstractQueue!Init => AbstractQueue!WaitsOnce
  BY SameOperators DEF AbstractQueue!Init, AbstractQueue!WaitsOnce
<1>2. AbstractQueue!WaitsOnce /\ [AbstractQueue!Next]_(AbstractQueue!vars) =>
        /\ AbstractQueue!WaitsOnce'
        /\ [AbstractQueue!KeepsOrder]_(AbstractQueue!vars)
        /\ [AbstractQueue!DropsNothing]_(AbstractQueue!vars)
  BY QueueStep
<1>3. QED
  BY <1>1, <1>2, PTL
  DEF AbstractQueue!Spec, AbstractQueue!InOrder, AbstractQueue!NothingDropped

(* Frames of the pointer list never overtake each other, whatever list_    *)
(* clear does in between, and one that waits is dropped by nothing but a   *)
(* clear that may recycle it: list_insert, list_head_insert, list_remove   *)
(* and the loop of list_clear as the Wi-Fi driver sees them.               *)
THEOREM ListKeepsOrder ==
  Spec => AbstractQueue!InOrder /\ AbstractQueue!NothingDropped
BY ListImplementsQueue, QueueSpecKeepsOrder, PTL DEF ImplementsTxQueue
=============================================================================
