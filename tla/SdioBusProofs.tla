---------------------------- MODULE SdioBusProofs ----------------------------
(***************************************************************************)
(* Theorems about SdioBus, for any number of tasks and of failures.        *)
(***************************************************************************)
EXTENDS SdioBus, TLAPS

(* The inductive invariant: where a task may be on the bus, and where it   *)
(* holds sdio_mutex.                                                       *)
PlaceInv ==
  \A t \in Tasks : fn[t] # 0 => pc[t] \in {"bus", "clear", "read", "read loose"}

HoldInv ==
  ~ stolen => \A t \in Tasks : pc[t] \in {"bus", "clear", "read"} => holder = t

ErrorInv ==
  faults = 0 =>
    /\ ~ aborted /\ ~ stolen
    /\ pc[Receiver] # "read loose"
    /\ pc[Receiver] = "give" => holder = Receiver

BusInv == TypeOK /\ PlaceInv /\ HoldInv /\ ErrorInv

-------------------------------------------------------------------------------
LEMMA Names ==
  /\ Receiver \in Tasks /\ Receiver \notin Senders /\ Nobody \notin Tasks
  /\ MaxFaults \in Nat
  /\ \A t \in Tasks : t \in Senders \/ t = Receiver
  /\ \A t \in Senders : FnOf[t] \in {1, 2}
BY BusAssumption DEF Tasks

LEMMA Functions == 0 \in 0 .. 2 /\ 1 \in 0 .. 2
OBVIOUS

LEMMA InitInv == Init => BusInv
<1> SUFFICES ASSUME Init PROVE BusInv
  OBVIOUS
<1>1. \A t \in Tasks : pc[t] = "idle" /\ fn[t] = 0
  BY DEF Init
<1>2. holder \in Tasks \cup {Nobody} /\ fn \in [Tasks -> 0 .. 2]
  BY DEF Init
<1>3. pc \in [Tasks -> {"idle", "wait", "bus", "wait W1", "clear", "read",
                        "read loose", "give"}]
  BY DEF Init
<1>4. asserts \in BOOLEAN /\ aborted \in BOOLEAN /\ stolen \in BOOLEAN
  BY DEF Init
<1>5. TypeOK
  BY <1>1, <1>2, <1>3, <1>4, Names DEF Init, TypeOK, Tasks
<1>6. PlaceInv /\ HoldInv /\ ErrorInv
  BY <1>1, Names DEF Init, PlaceInv, HoldInv, ErrorInv
<1>7. QED
  BY <1>5, <1>6 DEF BusInv

(* What giving the mutex may do, whoever gives it.                         *)
LEMMA GiveFacts ==
  ASSUME TypeOK, NEW t \in Tasks, GiveMutex(t)
  PROVE  /\ holder' \in Tasks \cup {Nobody}
         /\ aborted' \in BOOLEAN /\ stolen' \in BOOLEAN
         /\ stolen => stolen'
         /\ ~ stolen' => holder \in {t, Nobody} \/ holder' = holder
         /\ holder = t => holder' = Nobody /\ aborted' = aborted /\ stolen' = stolen
<1>1. CASE holder \in {t, Nobody} /\ holder' = Nobody /\ UNCHANGED <<aborted, stolen>>
  BY <1>1 DEF TypeOK
<1>2. CASE holder \notin {t, Nobody} /\ asserts /\ aborted' = TRUE
           /\ UNCHANGED <<holder, stolen>>
  BY <1>2 DEF TypeOK
<1>3. CASE holder \notin {t, Nobody} /\ ~ asserts /\ holder' = Nobody
           /\ stolen' = TRUE /\ UNCHANGED aborted
  BY <1>3 DEF TypeOK
<1>4. QED
  BY <1>1, <1>2, <1>3 DEF GiveMutex

(* Every action moves one task.                                            *)
LEMMA MoveFacts ==
  ASSUME TypeOK, NEW t \in Tasks, NEW place, NEW f \in 0 .. 2, GoesTo(t, place, f),
         place \in {"idle", "wait", "bus", "wait W1", "clear", "read", "read loose", "give"},
         t \in Senders => place \in {"idle", "wait", "bus"}
  PROVE  /\ pc'[t] = place /\ fn'[t] = f
         /\ \A u \in Tasks : u # t => pc'[u] = pc[u] /\ fn'[u] = fn[u]
         /\ pc' \in [Tasks -> {"idle", "wait", "bus", "wait W1", "clear", "read",
                               "read loose", "give"}]
         /\ \A u \in Senders : pc'[u] \in {"idle", "wait", "bus"}
         /\ fn' \in [Tasks -> 0 .. 2]
BY DEF TypeOK, GoesTo, Tasks

LEMMA AssertsStay == TypeOK /\ Running => asserts' \in BOOLEAN /\ ~ aborted
BY DEF TypeOK, Running

LEMMA FaultCounts ==
  ASSUME TypeOK, Fault
  PROVE  faults' \in 0 .. MaxFaults /\ faults' # 0
<1>1. faults \in 0 .. MaxFaults
  BY DEF TypeOK
<1>2. MaxFaults \in Nat
  BY Names
<1>3. faults < MaxFaults /\ faults' = faults + 1
  BY DEF Fault
<1>4. QED
  BY <1>1, <1>2, <1>3

-------------------------------------------------------------------------------
(* Ordinary turns.                                                         *)
LEMMA WantStep ==
  ASSUME BusInv, NEW t \in Tasks, NEW place \in {"wait", "wait W1"},
         Running, pc[t] = "idle", GoesTo(t, place, 0),
         t \in Senders => place = "wait",
         UNCHANGED <<holder, aborted, stolen, faults>>
  PROVE  BusInv'
<1>0. /\ TypeOK /\ 0 \in 0 .. 2
      /\ place \in {"idle", "wait", "bus", "wait W1", "clear", "read", "read loose", "give"}
      /\ t \in Senders => place \in {"idle", "wait", "bus"}
  <2>1. TypeOK
    BY DEF BusInv
  <2>2. 0 \in 0 .. 2
    BY Functions
  <2>3. place \in {"idle", "wait", "bus", "wait W1", "clear", "read", "read loose", "give"}
    OBVIOUS
  <2>4. t \in Senders => place \in {"idle", "wait", "bus"}
    OBVIOUS
  <2>5. QED
    BY <2>1, <2>2, <2>3, <2>4
<1>1. /\ pc'[t] = place /\ fn'[t] = 0
      /\ \A u \in Tasks : u # t => pc'[u] = pc[u] /\ fn'[u] = fn[u]
      /\ pc' \in [Tasks -> {"idle", "wait", "bus", "wait W1", "clear", "read",
                            "read loose", "give"}]
      /\ \A u \in Senders : pc'[u] \in {"idle", "wait", "bus"}
      /\ fn' \in [Tasks -> 0 .. 2]
  BY <1>0, MoveFacts
<1>2. TypeOK'
  BY <1>1, AssertsStay DEF BusInv, TypeOK
<1>3. PlaceInv' /\ HoldInv' /\ ErrorInv'
  BY <1>1, Names DEF BusInv, PlaceInv, HoldInv, ErrorInv
<1>4. QED
  BY <1>2, <1>3 DEF BusInv

LEMMA TakeStep ==
  ASSUME BusInv, NEW t \in Tasks, NEW f \in {1, 2}, NEW place \in {"bus", "clear"},
         Running, holder = Nobody, holder' = t, GoesTo(t, place, f),
         t \in Senders => place = "bus",
         UNCHANGED <<aborted, stolen, faults>>
  PROVE  BusInv'
<1>0. /\ TypeOK /\ f \in 0 .. 2
      /\ place \in {"idle", "wait", "bus", "wait W1", "clear", "read", "read loose", "give"}
      /\ t \in Senders => place \in {"idle", "wait", "bus"}
  <2>1. TypeOK
    BY DEF BusInv
  <2>2. f \in 0 .. 2
    OBVIOUS
  <2>3. place \in {"idle", "wait", "bus", "wait W1", "clear", "read", "read loose", "give"}
    OBVIOUS
  <2>4. t \in Senders => place \in {"idle", "wait", "bus"}
    OBVIOUS
  <2>5. QED
    BY <2>1, <2>2, <2>3, <2>4
<1>1. /\ pc'[t] = place /\ fn'[t] = f
      /\ \A u \in Tasks : u # t => pc'[u] = pc[u] /\ fn'[u] = fn[u]
      /\ pc' \in [Tasks -> {"idle", "wait", "bus", "wait W1", "clear", "read",
                            "read loose", "give"}]
      /\ \A u \in Senders : pc'[u] \in {"idle", "wait", "bus"}
      /\ fn' \in [Tasks -> 0 .. 2]
  BY <1>0, MoveFacts
<1>2. TypeOK'
  BY <1>1, AssertsStay DEF BusInv, TypeOK
<1>3. PlaceInv' /\ HoldInv' /\ ErrorInv'
  BY <1>1, Names DEF BusInv, PlaceInv, HoldInv, ErrorInv
<1>4. QED
  BY <1>2, <1>3 DEF BusInv

(* A turn ends.  GiveFacts is all that matters of the give.                *)
LEMMA GiveStep ==
  ASSUME BusInv, NEW t \in Tasks, pc[t] = "bus" \/ (t = Receiver /\ pc[t] = "give"),
         Running, GoesTo(t, "idle", 0), GiveMutex(t), UNCHANGED faults
  PROVE  BusInv'
<1>0. /\ TypeOK /\ 0 \in 0 .. 2
      /\ "idle" \in {"idle", "wait", "bus", "wait W1", "clear", "read", "read loose", "give"}
      /\ t \in Senders => "idle" \in {"idle", "wait", "bus"}
  BY DEF BusInv
<1>1. /\ pc'[t] = "idle" /\ fn'[t] = 0
      /\ \A u \in Tasks : u # t => pc'[u] = pc[u] /\ fn'[u] = fn[u]
      /\ pc' \in [Tasks -> {"idle", "wait", "bus", "wait W1", "clear", "read",
                            "read loose", "give"}]
      /\ \A u \in Senders : pc'[u] \in {"idle", "wait", "bus"}
      /\ fn' \in [Tasks -> 0 .. 2]
  BY <1>0, MoveFacts
<1>2. TypeOK'
  <2>1. /\ holder' \in Tasks \cup {Nobody}
        /\ aborted' \in BOOLEAN /\ stolen' \in BOOLEAN
    BY <1>0, GiveFacts
  <2>2. asserts' \in BOOLEAN
    BY <1>0, AssertsStay
  <2>3. QED
    BY <1>0, <1>1, <2>1, <2>2 DEF TypeOK
<1>3. PlaceInv'
  <2> SUFFICES ASSUME NEW u \in Tasks, fn'[u] # 0
               PROVE  pc'[u] \in {"bus", "clear", "read", "read loose"}
    BY DEF PlaceInv
  <2>1. u # t /\ fn[u] # 0 /\ pc'[u] = pc[u]
    BY <1>1
  <2>2. QED
    BY <2>1 DEF BusInv, PlaceInv
<1>4. HoldInv'
  <2> SUFFICES ASSUME ~ stolen', NEW u \in Tasks, pc'[u] \in {"bus", "clear", "read"}
               PROVE  holder' = u
    BY DEF HoldInv
  <2>1. u # t /\ pc'[u] = pc[u]
    BY <1>1
  <2>2. ~ stolen /\ (holder \in {t, Nobody} \/ holder' = holder)
    BY <1>0, GiveFacts
  <2>3. holder = u
    BY <2>1, <2>2 DEF BusInv, HoldInv
  <2>4. QED
    BY <2>1, <2>2, <2>3, Names
<1>5. ErrorInv'
  <2>1. ASSUME faults = 0 PROVE holder = t
    BY <2>1 DEF BusInv, HoldInv, ErrorInv
  <2>2. QED
    BY <1>1, <2>1, GiveFacts, Names DEF BusInv, ErrorInv
<1>6. QED
  BY <1>2, <1>3, <1>4, <1>5 DEF BusInv

(* handle_intr1.                                                           *)
LEMMA W1Step ==
  ASSUME BusInv, ClearIntr \/ ReadW1
  PROVE  BusInv'
<1>0. TypeOK /\ Running /\ Receiver \in Tasks /\ Receiver \notin Senders
  BY Names DEF BusInv, ClearIntr, ReadW1
<1>1. PICK place \in {"read", "read loose", "give"}, f \in 0 .. 2 :
        /\ GoesTo(Receiver, place, f)
        /\ place = "give" => f = 0
        /\ \/ /\ UNCHANGED <<holder, aborted, stolen, faults>>
              /\ \/ place = "read" /\ pc[Receiver] = "clear"
                 \/ place = "give" /\ pc[Receiver] \in {"read", "read loose"}
           \/ Fault /\ place # "read" /\ GiveMutex(Receiver)
  <2>1. CASE ClearIntr /\ ~ Fault
    <3>1. /\ GoesTo(Receiver, "read", 1)
          /\ UNCHANGED <<holder, aborted, stolen, faults>>
          /\ pc[Receiver] = "clear"
      BY <2>1 DEF ClearIntr
    <3>2. "read" \in {"read", "read loose", "give"} /\ 1 \in 0 .. 2 /\ "read" # "give"
      OBVIOUS
    <3>3. QED
      BY <3>1, <3>2
  <2>2. CASE ClearIntr /\ Fault
    <3>1. \/ /\ GoesTo(Receiver, "read", 1)
             /\ UNCHANGED <<holder, aborted, stolen, faults>>
             /\ pc[Receiver] = "clear"
          \/ GoesTo(Receiver, "read loose", 1) /\ GiveMutex(Receiver)
      BY <2>2 DEF ClearIntr
    <3>2. "read" \in {"read", "read loose", "give"} /\ 1 \in 0 .. 2 /\ "read" # "give"
      OBVIOUS
    <3>3. "read loose" \in {"read", "read loose", "give"} /\ "read loose" # "read"
          /\ "read loose" # "give"
      OBVIOUS
    <3>4. CASE GoesTo(Receiver, "read", 1)
               /\ UNCHANGED <<holder, aborted, stolen, faults>> /\ pc[Receiver] = "clear"
      BY <3>2, <3>4
    <3>5. CASE GoesTo(Receiver, "read loose", 1) /\ GiveMutex(Receiver)
      BY <2>2, <3>2, <3>3, <3>5
    <3>6. QED
      BY <3>1, <3>4, <3>5
  <2>3. CASE ReadW1
    <3>1. /\ GoesTo(Receiver, "give", 0) /\ pc[Receiver] \in {"read", "read loose"}
          /\ UNCHANGED <<holder, aborted, stolen, faults>> \/ (Fault /\ GiveMutex(Receiver))
      BY <2>3 DEF ReadW1
    <3>2. "give" \in {"read", "read loose", "give"} /\ 0 \in 0 .. 2 /\ "give" # "read"
      OBVIOUS
    <3>3. QED
      BY <3>1, <3>2
  <2>4. QED
    BY <2>1, <2>2, <2>3
<1>2. /\ pc'[Receiver] = place /\ fn'[Receiver] = f
      /\ \A u \in Tasks : u # Receiver => pc'[u] = pc[u] /\ fn'[u] = fn[u]
      /\ pc' \in [Tasks -> {"idle", "wait", "bus", "wait W1", "clear", "read",
                            "read loose", "give"}]
      /\ \A u \in Senders : pc'[u] \in {"idle", "wait", "bus"}
      /\ fn' \in [Tasks -> 0 .. 2]
  BY <1>0, <1>1, MoveFacts
<1>3. TypeOK'
  <2>1. faults' \in 0 .. MaxFaults
    BY <1>0, <1>1, FaultCounts DEF TypeOK
  <2>2. /\ holder' \in Tasks \cup {Nobody}
        /\ aborted' \in BOOLEAN /\ stolen' \in BOOLEAN
    BY <1>0, <1>1, GiveFacts DEF TypeOK
  <2>3. QED
    BY <1>0, <1>2, <2>1, <2>2, AssertsStay DEF TypeOK
<1>4. PlaceInv'
  BY <1>1, <1>2 DEF BusInv, PlaceInv
<1>5. HoldInv'
  <2>1. CASE UNCHANGED <<holder, aborted, stolen, faults>>
    BY <1>0, <1>1, <1>2, <2>1, FaultCounts DEF BusInv, HoldInv, TypeOK
  <2>2. CASE GiveMutex(Receiver) /\ place # "read"
    <3> SUFFICES ASSUME ~ stolen', NEW u \in Tasks, pc'[u] \in {"bus", "clear", "read"}
                 PROVE  holder' = u
      BY DEF HoldInv
    <3>1. u # Receiver /\ pc'[u] = pc[u]
      BY <1>1, <1>2, <2>2
    <3>2. ~ stolen /\ (holder \in {Receiver, Nobody} \/ holder' = holder)
      BY <1>0, <2>2, GiveFacts
    <3>3. holder = u
      BY <3>1, <3>2 DEF BusInv, HoldInv
    <3>4. QED
      BY <3>1, <3>2, <3>3, Names
  <2>3. QED
    BY <1>1, <2>1, <2>2
<1>6. ErrorInv'
  <2>1. CASE Fault
    BY <1>0, <2>1, FaultCounts DEF ErrorInv
  <2>2. CASE /\ UNCHANGED <<holder, aborted, stolen, faults>>
             /\ \/ place = "read" /\ pc[Receiver] = "clear"
                \/ place = "give" /\ pc[Receiver] \in {"read", "read loose"}
    BY <1>0, <1>2, <2>2 DEF BusInv, HoldInv, ErrorInv
  <2>3. QED
    BY <1>1, <2>1, <2>2
<1>7. QED
  BY <1>3, <1>4, <1>5, <1>6 DEF BusInv

LEMMA BusInvariant == Spec => []BusInv
<1>1. BusInv /\ [Next]_vars => BusInv'
  <2> SUFFICES ASSUME BusInv, [Next]_vars PROVE BusInv'
    OBVIOUS
  <2>1. CASE \E t \in Tasks : Want(t)
    BY <2>1, WantStep DEF Want
  <2>2. CASE WantW1
    BY <2>2, WantStep, Names DEF WantW1
  <2>3. CASE \E t \in Tasks : Take(t)
    BY <2>3, TakeStep DEF Take
  <2>4. CASE TakeW1
    BY <2>4, TakeStep, Names DEF TakeW1
  <2>5. CASE \E t \in Tasks : Give(t)
    BY <2>5, GiveStep DEF Give
  <2>6. CASE GiveW1
    BY <2>6, GiveStep, Names DEF GiveW1
  <2>7. CASE ClearIntr \/ ReadW1
    BY <2>7, W1Step
  <2>8. CASE UNCHANGED vars
    BY <2>8 DEF vars, BusInv, TypeOK, PlaceInv, HoldInv, ErrorInv
  <2>9. QED
    BY <2>1, <2>2, <2>3, <2>4, <2>5, <2>6, <2>7, <2>8 DEF Next
<1>2. QED
  BY InitInv, <1>1, PTL DEF Spec

-------------------------------------------------------------------------------
(* The variables of the bus keep their types.                              *)
THEOREM BusTypeCorrect == Spec => []TypeOK
BY BusInvariant, PTL DEF BusInv

(* For any tasks: only the holder is on the bus, or the receiver behind a  *)
(* failed clear_intr.                                                      *)
THEOREM OnlyHolderOnBus == Spec => []OneAtATime
<1>1. BusInv => OneAtATime
  BY DEF BusInv, PlaceInv, HoldInv, OneAtATime, TypeOK, Tasks
<1>2. QED
  BY BusInvariant, <1>1, PTL

(* For any tasks: without errors of the bus its users exclude each other   *)
(* and no assertion fails.                                                 *)
THEOREM ErrorsAreTheOnlyDanger == Spec => []SoundWithoutErrors
<1>1. BusInv => SoundWithoutErrors
  BY DEF BusInv, PlaceInv, HoldInv, ErrorInv, SoundWithoutErrors, TypeOK, Tasks
<1>2. QED
  BY BusInvariant, <1>1, PTL
=============================================================================
