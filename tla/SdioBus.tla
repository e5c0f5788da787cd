------------------------------- MODULE SdioBus -------------------------------
(***************************************************************************)
(* Who uses the SDIO bus when: the tasks that take sdio_mutex in           *)
(* trans_recv.c, trans_bt.c, trans_wifi.c and esp_sip.c, and the part of   *)
(* handle_intr1 that gives it back more than once when an access fails.    *)
(* Accesses are not atomic: a turn on the bus is a sequence of commands,   *)
(* between which the commands of whoever else is there may come.           *)
(***************************************************************************)
EXTENDS Integers

CONSTANTS
  Senders,      \* tasks that only send: wifi_send_task, bt_tx_task, starter
  Receiver,     \* trans_recv_task
  FnOf,         \* the SDIO function a sender uses
  Nobody,
  MaxFaults     \* bound: accesses of handle_intr1 that fail

Tasks == Senders \cup {Receiver}

ASSUME BusAssumption ==
  /\ Receiver \notin Senders /\ Nobody \notin Tasks
  /\ FnOf \in [Senders -> {1, 2}]
  /\ MaxFaults \in Nat

VARIABLES
  holder,       \* of sdio_mutex
  pc,           \* where each task stands
  fn,           \* the function it sends commands to; 0: none
  asserts,      \* whether FreeRTOS is built with its assertions
  aborted,
  stolen,       \* history: a mutex was given by another than its holder
  faults

vars == <<holder, pc, fn, asserts, aborted, stolen, faults>>

Init ==
  /\ holder = Nobody
  /\ pc = [t \in Tasks |-> "idle"]
  /\ fn = [t \in Tasks |-> 0]
  /\ asserts \in BOOLEAN
  /\ aborted = FALSE
  /\ stolen = FALSE
  /\ faults = 0

Fault == faults < MaxFaults /\ faults' = faults + 1

Running == ~ aborted /\ UNCHANGED asserts

GoesTo(t, place, f) ==
  /\ pc' = [pc EXCEPT ![t] = place]
  /\ fn' = [fn EXCEPT ![t] = f]

(* xSemaphoreGive of a mutex.  It must be the holder's; if nobody holds it *)
(* nothing happens, and if another does that fails an assertion of         *)
(* FreeRTOS, or without assertions takes the mutex away.                   *)
GiveMutex(t) ==
  \/ /\ holder \in {t, Nobody}
     /\ holder' = Nobody
     /\ UNCHANGED <<aborted, stolen>>
  \/ /\ holder \notin {t, Nobody}
     /\ IF asserts THEN aborted' = TRUE /\ UNCHANGED <<holder, stolen>>
                   ELSE holder' = Nobody /\ stolen' = TRUE /\ UNCHANGED aborted

-------------------------------------------------------------------------------
(* An ordinary turn: lock, commands, unlock, whether they succeed or not.  *)
Want(t) ==
  /\ Running
  /\ pc[t] = "idle"
  /\ GoesTo(t, "wait", 0)
  /\ UNCHANGED <<holder, aborted, stolen, faults>>

(* As in the other modules, a variant of the kind this code invites comes  *)
(* before the operation it varies, and nothing uses it.                    *)

(* A wait with a timeout, of which the result is ignored.                  *)
TakeNotWaiting(t) ==
  /\ Running
  /\ pc[t] = "wait"
  /\ holder' = IF holder = Nobody THEN t ELSE holder
  /\ \E f \in {1, 2} : (t # Receiver => f = FnOf[t]) /\ GoesTo(t, "bus", f)
  /\ UNCHANGED <<aborted, stolen, faults>>

(* esp_extconn_sdio_lock.  The receiver reads packets of both functions.   *)
Take(t) ==
  /\ Running
  /\ pc[t] = "wait"
  /\ holder = Nobody
  /\ holder' = t
  /\ \E f \in {1, 2} : (t # Receiver => f = FnOf[t]) /\ GoesTo(t, "bus", f)
  /\ UNCHANGED <<aborted, stolen, faults>>

(* esp_extconn_sdio_unlock.                                                *)
Give(t) ==
  /\ Running
  /\ pc[t] = "bus"
  /\ GoesTo(t, "idle", 0)
  /\ GiveMutex(t)
  /\ UNCHANGED faults

-------------------------------------------------------------------------------
(* handle_intr1, TOHOST_BIT0.                                              *)
WantW1 ==
  /\ Running
  /\ pc[Receiver] = "idle"
  /\ GoesTo(Receiver, "wait W1", 0)
  /\ UNCHANGED <<holder, aborted, stolen, faults>>

TakeW1 ==
  /\ Running
  /\ pc[Receiver] = "wait W1"
  /\ holder = Nobody
  /\ holder' = Receiver
  /\ GoesTo(Receiver, "clear", 1)
  /\ UNCHANGED <<aborted, stolen, faults>>

(* esp_extconn_sdio_clear_intr.  After a failure the mutex is given back,  *)
(* and the next command sent all the same.                                 *)
ClearIntr ==
  /\ Running
  /\ pc[Receiver] = "clear"
  /\ \/ GoesTo(Receiver, "read", 1) /\ UNCHANGED <<holder, aborted, stolen, faults>>
     \/ Fault /\ GoesTo(Receiver, "read loose", 1) /\ GiveMutex(Receiver)

(* The mutex is given back as soon as W1 has been read.                    *)
ReadW1Giving ==
  /\ Running
  /\ pc[Receiver] \in {"read", "read loose"}
  /\ GoesTo(Receiver, "give", 0)
  /\ GiveMutex(Receiver)
  /\ UNCHANGED faults

(* esp_extconn_sdio_read_bytes of W1.  After a failure the mutex is given  *)
(* back, too.                                                              *)
ReadW1 ==
  /\ Running
  /\ pc[Receiver] \in {"read", "read loose"}
  /\ GoesTo(Receiver, "give", 0)
  /\ \/ UNCHANGED <<holder, aborted, stolen, faults>>
     \/ Fault /\ GiveMutex(Receiver)

(* The mutex is given back in any case, once more after a failure.         *)
GiveW1 ==
  /\ Running
  /\ pc[Receiver] = "give"
  /\ GoesTo(Receiver, "idle", 0)
  /\ GiveMutex(Receiver)
  /\ UNCHANGED faults

Next ==
  \/ \E t \in Tasks : Want(t) \/ Take(t) \/ Give(t)
  \/ WantW1 \/ TakeW1 \/ ClearIntr \/ ReadW1 \/ GiveW1

Spec == Init /\ [][Next]_vars

-------------------------------------------------------------------------------
(* Properties.                                                             *)

(* The type invariant.                                                     *)
TypeOK ==
  /\ holder \in Tasks \cup {Nobody}
  /\ pc \in [Tasks -> {"idle", "wait", "bus", "wait W1", "clear", "read",
                       "read loose", "give"}]
  /\ \A t \in Senders : pc[t] \in {"idle", "wait", "bus"}
  /\ fn \in [Tasks -> 0 .. 2]
  /\ asserts \in BOOLEAN /\ aborted \in BOOLEAN /\ stolen \in BOOLEAN
  /\ faults \in 0 .. MaxFaults

(* Only the holder of sdio_mutex is on the bus, except trans_recv_task     *)
(* that reads W1 after it could not clear the interrupt; whatever failed   *)
(* before, as long as FreeRTOS stops a task that gives another's mutex.    *)
OneAtATime ==
  ~ stolen =>
    \A t \in Tasks : fn[t] # 0 =>
      holder = t \/ (t = Receiver /\ pc[t] = "read loose")

(* Without a failed access nothing is taken away, no assertion fails and   *)
(* nobody is alone in thinking that he is alone.                           *)
SoundWithoutErrors ==
  faults = 0 =>
    /\ ~ aborted /\ ~ stolen
    /\ \A t, u \in Tasks : fn[t] # 0 /\ fn[u] # 0 => t = u

(* trans_recv.c:35: "Function 1 & 2 can not operate at the same time."     *)
FunctionsExclusive == ~ \E t, u \in Tasks : fn[t] = 1 /\ fn[u] = 2
=============================================================================
