------------------------------- MODULE SipBoot -------------------------------
(***************************************************************************)
(* The start of the component: esp_extconn_init (extconn.c) runs           *)
(* esp_extconn_boot, esp_extconn_fw_init (ext_boot.c), then the start of   *)
(* the Wi-Fi and Bluetooth transports; esp_extconn_fw_init starts          *)
(* trans_recv_task and ends in esp_sip_bootup (esp_sip.c).                 *)
(*                                                                         *)
(* esp_sip_bootup and trans_recv_task, which hands the target's events to  *)
(* esp_sip_parse_events, share sip->state and boot_sem without a lock:     *)
(*                                                                         *)
(*      esp_sip_bootup          target            trans_recv_task          *)
(*      BOOTUP command  ----->  boots                                      *)
(*      state, boot_sem         TARGET_ON event ->  state                  *)
(*      waits for boot_sem                    <--  INIT command            *)
(*                              BOOTUP event  -->  state, boot_sem         *)
(*                                                                         *)
(* One action is what one side does between two accesses to what they      *)
(* share.  Nothing else uses the bus meanwhile.                            *)
(***************************************************************************)
EXTENDS Naturals, Sequences, Functions

CONSTANTS
  WifiEnabled,   \* CONFIG_ESP_EXT_CONN_WIFI_ENABLE
  BtEnabled,     \* CONFIG_ESP_EXT_CONN_BT_ENABLE
  TxBlks,        \* bevt->tx_blksz
  FwChunks,      \* SIP_CMD_WRITE_MEMORY commands the firmware takes
  MaxAnnounce,   \* bound: TARGET_ON events
  MaxFaults      \* bound: allocations, transfers and tasks that fail

ASSUME BootAssumption ==
  /\ WifiEnabled \in BOOLEAN
  /\ BtEnabled \in BOOLEAN
  /\ TxBlks \in Nat \ {0}
  /\ FwChunks \in Nat \ {0}
  /\ MaxAnnounce \in Nat
  /\ MaxFaults \in Nat

VARIABLES
  main,        \* where the task that called esp_extconn_init stands
  ret,         \* its ret
  receiver,    \* where trans_recv_task stands
  sdio_mutex,  \* sdio_mutex of trans_recv.c exists
  gap,         \* sip->rxseq has missed an event
  state,       \* sip->state
  txseq,       \* sip->txseq
  tx_blksz,    \* sip->tx_blksz
  rawbuf,      \* sip->rawbuf is allocated
  total_tx,    \* host->total_tx
  boot_sem,    \* boot_sem: null, live, or a pointer to a deleted semaphore
  count,       \* the count of the live boot_sem
  chip,        \* the target
  announced,   \* TARGET_ON events the target sent
  events,      \* events the target sent, not handled yet
  wifiUp,      \* trans_wifi_init succeeded
  btUp,        \* trans_bt_init ran
  aborted,     \* an assertion of FreeRTOS failed and the system is down
  stray,       \* what xSemaphoreGive found instead of a live boot_sem
  faults       \* failures so far

mainVars == <<main, ret>>
recvVars == <<sdio_mutex, gap>>
sipVars  == <<state, txseq, tx_blksz, rawbuf>>
semVars  == <<boot_sem, count>>
chipVars == <<chip, announced, events>>
upVars   == <<wifiUp, btUp>>
endVars  == <<aborted, stray>>
vars == <<mainVars, receiver, recvVars, sipVars, total_tx, semVars, chipVars, upVars,
          endVars, faults>>

Init ==
  /\ main = "boot"
  /\ ret = "ESP_FAIL"
  /\ receiver = "none"
  /\ sdio_mutex = FALSE
  /\ gap = FALSE
  /\ state = "SIP_INIT"
  /\ txseq = 0
  /\ tx_blksz = 0
  /\ rawbuf = FALSE
  /\ total_tx = 0
  /\ boot_sem = "null"
  /\ count = 0
  /\ chip = "loader"
  /\ announced = 0
  /\ events = << >>
  /\ wifiUp = FALSE
  /\ btUp = FALSE
  /\ aborted = FALSE
  /\ stray = "no"
  /\ faults = 0

At(here) == main = here /\ ~ aborted
Receives(here) == receiver = here /\ ~ aborted

Fault ==
  /\ faults < MaxFaults
  /\ faults' = faults + 1

-------------------------------------------------------------------------------
(* esp_extconn_init and what it calls, up to esp_sip_bootup.               *)

(* Where esp_extconn_init goes on when a call before the transports        *)
(* failed: with Bluetooth it still waits.                                  *)
BehindWifi == IF BtEnabled THEN "bt_init" ELSE "done"

(* A call of the chain succeeds, and the next one is made ...              *)
Pass(to) ==
  /\ main' = to
  /\ ret' = "ESP_OK"
  /\ UNCHANGED faults

(* ... or it fails.                                                        *)
Fail(to) ==
  /\ main' = to
  /\ ret' = "ESP_FAIL"
  /\ Fault

(* esp_extconn_boot and esp_sip_init leave nothing the rest could see but  *)
(* a target that listens and a fresh *sip.                                 *)
ExtconnBoot ==
  /\ At("boot")
  /\ Pass("download") \/ Fail(BehindWifi)
  /\ UNCHANGED <<receiver, sipVars, total_tx, semVars, chipVars, recvVars,
                 upVars, endVars>>

(* esp_fw_download counts its commands in txseq, and not in total_tx.  A   *)
(* bad image, or no memory for rawbuf, fails before the first.             *)
FwDownload ==
  /\ At("download")
  /\ \/ Pass("recv_init") /\ txseq' = FwChunks /\ rawbuf' = TRUE
     \/ Fail(BehindWifi) /\ txseq' \in 0 .. FwChunks /\ rawbuf' = TRUE
     \/ Fail(BehindWifi) /\ UNCHANGED <<txseq, rawbuf>>
  /\ UNCHANGED <<receiver, state, tx_blksz, total_tx, semVars, chipVars,
                 recvVars, upVars, endVars>>

(* esp_extconn_trans_recv_init: nobody looks whether the mutex could be    *)
(* created, only whether the buffer and the task could.                    *)
RecvInit ==
  /\ At("recv_init")
  /\ \/ Pass("bootup") /\ sdio_mutex' = TRUE /\ receiver' = "idle"
     \/ /\ main' = "bootup"
        /\ ret' = "ESP_OK"
        /\ Fault
        /\ sdio_mutex' = FALSE
        /\ receiver' = "idle"
     \/ Fail(BehindWifi) /\ sdio_mutex' \in BOOLEAN /\ UNCHANGED receiver
  /\ UNCHANGED <<gap, sipVars, total_tx, semVars, chipVars, upVars, endVars>>

(* esp_extconn_sdio_lock with a null mutex fails an assertion: that of     *)
(* esp_sip_send_cmd, or of trans_recv_task when an interrupt comes.        *)
LockFails ==
  /\ ~ sdio_mutex
  /\ At("bootup") \/ Receives("idle")
  /\ aborted' = TRUE
  /\ UNCHANGED <<mainVars, receiver, recvVars, sipVars, total_tx, semVars,
                 chipVars, upVars, stray, faults>>

-------------------------------------------------------------------------------
(* esp_sip_bootup.                                                         *)

(* Variants with a slip of the kind this code invites come before the      *)
(* operation they vary, and nothing uses them.                             *)

(* The BOOTUP command restarts the numbering.  There may be no memory for  *)
(* it; or the transfer fails, and the target may have got it all the same. *)
(* In both cases boot_sem is deleted, although it was never created.       *)
SendBootup ==
  /\ At("bootup")
  /\ \/ /\ sdio_mutex
        /\ Pass("prepare")
        /\ txseq' = 0
        /\ total_tx' = total_tx + 1
        /\ chip' = "booted"
     \/ /\ Fail("delete")
        /\ \/ UNCHANGED <<txseq, chip>>
           \/ sdio_mutex /\ txseq' = 0 /\ chip' \in {chip, "booted"}
        /\ UNCHANGED total_tx
  /\ UNCHANGED <<receiver, state, tx_blksz, rawbuf, semVars, announced, events,
                 recvVars, upVars, endVars>>

(* Only from here on are TARGET_ON events expected.                        *)
Prepare ==
  /\ At("prepare")
  /\ Pass("create")
  /\ state' = "SIP_PREPARE_BOOT"
  /\ UNCHANGED <<receiver, txseq, tx_blksz, rawbuf, total_tx, semVars, chipVars,
                 recvVars, upVars, endVars>>

(* The semaphore starts full.                                              *)
CreateFull ==
  /\ At("create")
  /\ Pass(IF WifiEnabled THEN "take" ELSE "delete")
  /\ boot_sem' = "live"
  /\ count' = 1
  /\ UNCHANGED <<receiver, sipVars, total_tx, chipVars, recvVars, upVars,
                 endVars>>

(* Wi-Fi does not wait either.                                             *)
CreateOnly ==
  /\ At("create")
  /\ Pass("delete")
  /\ boot_sem' = "live"
  /\ count' = 0
  /\ UNCHANGED <<receiver, sipVars, total_tx, chipVars, recvVars, upVars,
                 endVars>>

(* Without memory boot_sem stays null.  Without Wi-Fi nobody waits.        *)
Create ==
  /\ At("create")
  /\ main' = IF WifiEnabled THEN "take" ELSE "delete"
  /\ ret' = "ESP_OK"
  /\ \/ boot_sem' = "live" /\ UNCHANGED faults
     \/ Fault /\ UNCHANGED boot_sem
  /\ count' = 0
  /\ UNCHANGED <<receiver, sipVars, total_tx, chipVars, recvVars, upVars,
                 endVars>>

(* xSemaphoreTake(boot_sem, portMAX_DELAY).                                *)
TakeForEver ==
  /\ At("take")
  /\ boot_sem = "live"
  /\ count = 1
  /\ count' = 0
  /\ Pass("delete")
  /\ UNCHANGED <<receiver, sipVars, total_tx, boot_sem, chipVars, recvVars,
                 upVars, endVars>>

(* Who gives up deletes the semaphore at once and forgets it.              *)
TakeDeleting ==
  /\ At("take")
  /\ boot_sem = "live"
  /\ main' = "delete"
  /\ \/ /\ count = 1
        /\ count' = 0
        /\ ret' = "ESP_OK"
        /\ UNCHANGED boot_sem
     \/ /\ count = 0
        /\ boot_sem' = "null"
        /\ ret' = "ESP_ERR_TIMEOUT"
        /\ UNCHANGED count
  /\ UNCHANGED <<receiver, sipVars, total_tx, chipVars, recvVars, upVars,
                 endVars, faults>>

(* xSemaphoreTake: the ten seconds may be over at any time, and a null     *)
(* handle fails an assertion.                                              *)
Take ==
  /\ At("take")
  /\ \/ /\ boot_sem = "live"
        /\ count = 1
        /\ count' = 0
        /\ Pass("delete")
        /\ UNCHANGED aborted
     \/ /\ boot_sem = "live"
        /\ count = 0
        /\ main' = "delete"
        /\ ret' = "ESP_ERR_TIMEOUT"
        /\ UNCHANGED <<count, aborted, faults>>
     \/ /\ boot_sem = "null"
        /\ aborted' = TRUE
        /\ UNCHANGED <<mainVars, count, faults>>
  /\ UNCHANGED <<receiver, sipVars, total_tx, boot_sem, chipVars, recvVars,
                 upVars, stray>>

(* vSemaphoreDelete, which asserts that its argument is not null; boot_sem *)
(* keeps its value.                                                        *)
Delete ==
  /\ At("delete")
  /\ \/ /\ boot_sem = "live"
        /\ boot_sem' = "deleted"
        /\ main' = IF ret = "ESP_OK" /\ WifiEnabled THEN "wifi_init"
                   ELSE BehindWifi
        /\ UNCHANGED aborted
     \/ /\ boot_sem = "null"
        /\ aborted' = TRUE
        /\ UNCHANGED <<boot_sem, main>>
  /\ UNCHANGED <<ret, receiver, sipVars, total_tx, count, chipVars, recvVars,
                 upVars, stray, faults>>

-------------------------------------------------------------------------------
(* esp_extconn_init starts the transports.                                 *)

(* esp_extconn_trans_wifi_init.                                            *)
WifiInit ==
  /\ At("wifi_init")
  /\ \/ Pass(BehindWifi) /\ wifiUp' = TRUE
     \/ Fail(BehindWifi) /\ UNCHANGED wifiUp
  /\ UNCHANGED <<receiver, sipVars, total_tx, semVars, chipVars, recvVars, btUp,
                 endVars>>

(* After vTaskDelay(100), esp_extconn_trans_bt_init, which cannot fail,    *)
(* unless something else did.                                              *)
BtInit ==
  /\ At("bt_init")
  /\ main' = "done"
  /\ btUp' = (ret = "ESP_OK")
  /\ UNCHANGED <<ret, receiver, sipVars, total_tx, semVars, chipVars, recvVars,
                 wifiUp, endVars, faults>>

-------------------------------------------------------------------------------
(* trans_recv_task: esp_sip_parse_events.                                  *)

(* The next event is of this kind.  trans_recv_task has read it, and its   *)
(* number was the expected one.                                            *)
Event(kind) ==
  /\ Receives("idle")
  /\ sdio_mutex
  /\ ~ gap
  /\ events # << >>
  /\ Head(events) = kind
  /\ events' = Tail(events)

(* An event is lost when get_packet fails, reads too little or reads a bad *)
(* header.  If sip->rxseq has not counted it, no later number agrees with  *)
(* it, and every later event is refused.                                   *)
LoseEvent ==
  /\ Receives("idle")
  /\ sdio_mutex
  /\ events # << >>
  /\ events' = Tail(events)
  /\ \/ gap /\ UNCHANGED <<gap, faults>>
     \/ Fault /\ gap' \in BOOLEAN
  /\ UNCHANGED <<mainVars, receiver, sdio_mutex, sipVars, total_tx, semVars,
                 chip, announced, upVars, endVars>>

(* TARGET_ON is followed in every state.                                   *)
TargetOnAlways ==
  /\ Event("TARGET_ON")
  /\ state' = "SIP_SEND_INIT"
  /\ receiver' = "send_init"
  /\ UNCHANGED <<mainVars, txseq, tx_blksz, rawbuf, total_tx, semVars, chip,
                 announced, recvVars, upVars, endVars, faults>>

(* SIP_PREPARE_BOOT, the only state of the two that is ever set, is        *)
(* forgotten.                                                              *)
TargetOnInBoot ==
  /\ Event("TARGET_ON")
  /\ IF state = "SIP_BOOT"
       THEN state' = "SIP_SEND_INIT" /\ receiver' = "send_init"
       ELSE UNCHANGED <<state, receiver>>
  /\ UNCHANGED <<mainVars, txseq, tx_blksz, rawbuf, total_tx, semVars, chip,
                 announced, recvVars, upVars, endVars, faults>>

(* TARGET_ON in any other state is logged and forgotten.                   *)
TargetOn ==
  /\ Event("TARGET_ON")
  /\ IF state \in {"SIP_PREPARE_BOOT", "SIP_BOOT"}
       THEN state' = "SIP_SEND_INIT" /\ receiver' = "send_init"
       ELSE UNCHANGED <<state, receiver>>
  /\ UNCHANGED <<mainVars, txseq, tx_blksz, rawbuf, total_tx, semVars, chip,
                 announced, recvVars, upVars, endVars, faults>>

(* sip_send_chip_init.  If there is no memory, or the transfer fails (with *)
(* or without the target having got the command), the state stays what it  *)
(* is.                                                                     *)
SendInit ==
  /\ Receives("send_init")
  /\ \/ /\ txseq' = txseq + 1
        /\ total_tx' = total_tx + 1
        /\ chip' = "init"
        /\ receiver' = "sent_init"
        /\ UNCHANGED faults
     \/ /\ Fault
        /\ \/ UNCHANGED <<txseq, chip>>
           \/ txseq' = txseq + 1 /\ chip' \in {chip, "init"}
        /\ receiver' = "idle"
        /\ UNCHANGED total_tx
  /\ UNCHANGED <<mainVars, state, tx_blksz, rawbuf, semVars, announced, events,
                 recvVars, upVars, endVars>>

WaitBootup ==
  /\ Receives("sent_init")
  /\ state' = "SIP_WAIT_BOOTUP"
  /\ receiver' = "idle"
  /\ UNCHANGED <<mainVars, txseq, tx_blksz, rawbuf, total_tx, semVars, chipVars,
                 recvVars, upVars, endVars, faults>>

(* The BOOTUP event: rawbuf is freed, esp_sip_post_init takes over what    *)
(* the target told ...                                                     *)
PostInit ==
  /\ Event("BOOTUP")
  /\ rawbuf' = FALSE
  /\ tx_blksz' = TxBlks
  /\ receiver' = "run"
  /\ UNCHANGED <<mainVars, state, txseq, total_tx, semVars, chip, announced,
                 recvVars, upVars, endVars, faults>>

Run ==
  /\ Receives("run")
  /\ state' = "SIP_RUN"
  /\ receiver' = "give"
  /\ UNCHANGED <<mainVars, txseq, tx_blksz, rawbuf, total_tx, semVars, chipVars,
                 recvVars, upVars, endVars, faults>>

(* ... and boot_sem is given, whatever it points to: a null pointer fails  *)
(* an assertion, and what giving a deleted semaphore does is undefined.    *)
Give ==
  /\ Receives("give")
  /\ receiver' = "idle"
  /\ \/ boot_sem = "live" /\ count' = 1 /\ UNCHANGED endVars
     \/ /\ boot_sem = "null"
        /\ stray' = "null"
        /\ aborted' = TRUE
        /\ UNCHANGED count
     \/ /\ boot_sem = "deleted"
        /\ stray' = "deleted"
        /\ aborted' \in BOOLEAN
        /\ UNCHANGED count
  /\ UNCHANGED <<mainVars, sipVars, total_tx, boot_sem, chipVars, recvVars,
                 upVars, faults>>

(* esp_extconn_sdio_get_intr fails and the task returns.                   *)
RecvTaskReturns ==
  /\ Receives("idle")
  /\ sdio_mutex
  /\ Fault
  /\ receiver' = "dead"
  /\ UNCHANGED <<mainVars, sipVars, total_tx, semVars, chipVars, recvVars,
                 upVars, endVars>>

-------------------------------------------------------------------------------
(* The target, as far as esp_sip_parse_events knows it.                    *)

(* Booted, it says it is there, perhaps more than once.                    *)
Announce ==
  /\ chip = "booted" /\ ~ aborted
  /\ announced < MaxAnnounce
  /\ announced' = announced + 1
  /\ events' = Append(events, "TARGET_ON")
  /\ UNCHANGED <<mainVars, receiver, sipVars, total_tx, semVars, chip, recvVars,
                 upVars, endVars, faults>>

(* It answers INIT.                                                        *)
Report ==
  /\ chip = "init" /\ ~ aborted
  /\ chip' = "running"
  /\ events' = Append(events, "BOOTUP")
  /\ UNCHANGED <<mainVars, receiver, sipVars, total_tx, semVars, announced,
                 recvVars, upVars, endVars, faults>>

Next ==
  \/ ExtconnBoot
  \/ FwDownload
  \/ RecvInit
  \/ LockFails
  \/ SendBootup
  \/ Prepare
  \/ Create
  \/ Take
  \/ Delete
  \/ WifiInit
  \/ BtInit
  \/ LoseEvent
  \/ TargetOn
  \/ SendInit
  \/ WaitBootup
  \/ PostInit
  \/ Run
  \/ Give
  \/ RecvTaskReturns
  \/ Announce
  \/ Report

Spec == Init /\ [][Next]_vars

-------------------------------------------------------------------------------
(* Properties.                                                             *)

(* enum SIP_STATE, as far as the code goes.                                *)
Rank == [SIP_INIT |-> 0, SIP_PREPARE_BOOT |-> 1, SIP_BOOT |-> 2,
         SIP_SEND_INIT |-> 3, SIP_WAIT_BOOTUP |-> 4, SIP_RUN |-> 5]

(* The type invariant.                                                     *)
TypeOK ==
  /\ main \in {"boot", "download", "recv_init", "bootup", "prepare", "create",
               "take", "delete", "wifi_init", "bt_init", "done"}
  /\ ret \in {"ESP_OK", "ESP_FAIL", "ESP_ERR_TIMEOUT"}
  /\ receiver \in {"none", "idle", "send_init", "sent_init", "run", "give",
                   "dead"}
  /\ sdio_mutex \in BOOLEAN
  /\ gap \in BOOLEAN
  /\ state \in DOMAIN Rank
  /\ txseq \in 0 .. FwChunks
  /\ tx_blksz \in {0, TxBlks}
  /\ rawbuf \in BOOLEAN
  /\ total_tx \in 0 .. 2
  /\ boot_sem \in {"null", "live", "deleted"}
  /\ count \in {0, 1}
  /\ chip \in {"loader", "booted", "init", "running"}
  /\ announced \in 0 .. MaxAnnounce
  /\ events \in Seq({"TARGET_ON", "BOOTUP"})
  /\ wifiUp \in BOOLEAN
  /\ btUp \in BOOLEAN
  /\ aborted \in BOOLEAN
  /\ stray \in {"no", "null", "deleted"}
  /\ faults \in 0 .. MaxFaults

(* With Wi-Fi, whoever uses a transport, and whoever is told ESP_OK, finds *)
(* the handshake complete: the target runs, its block size is known (the   *)
(* frames are rounded up with it), the download's numbers and buffer are   *)
(* gone.  Exactly the two commands were counted: more INIT commands, or    *)
(* one counted twice, and WifiTx would start with credits the target does  *)
(* not have.  Only a transfer reported as failed that reached the target   *)
(* spoils the count.                                                       *)
HandshakeComplete ==
  /\ state = "SIP_RUN"
  /\ chip = "running"
  /\ tx_blksz = TxBlks
  /\ txseq = 1
  /\ total_tx = 2 \/ faults > 0
  /\ ~ rawbuf
ReadyWhenUp ==
  WifiEnabled /\ (wifiUp \/ btUp \/ (main = "done" /\ ret = "ESP_OK")) =>
    HandshakeComplete

(* sip->state, which two tasks assign without a lock, never goes back: a   *)
(* late or repeated TARGET_ON cannot restart a handshake, nor can          *)
(* esp_sip_bootup overwrite what trans_recv_task assigned.                 *)
StateGoesForward == [][Rank[state] <= Rank[state']]_vars

(* With Wi-Fi, boot_sem is alive when trans_recv_task gives it, but for    *)
(* two windows: esp_sip_bootup has set the state and not yet created it,   *)
(* or has given up waiting.                                                *)
GiveFindsSemaphore ==
  WifiEnabled =>
    /\ stray = "null" => main \in {"create", "take"}
    /\ main = "take" /\ stray = "null" => faults > 0
    /\ stray = "deleted" => ret = "ESP_ERR_TIMEOUT"

(* The comment of esp_extconn_init on the delay in front of                *)
(* esp_extconn_trans_bt_init: "BT will send packet immediately [after]     *)
(* initiation, so delay its initiation to wait chip on".                   *)
BtAfterChipOn == btUp => state = "SIP_RUN"

(* What takes the program down before a transport starts (an assertion in  *)
(* xSemaphoreGive leaves its mark in stray) is a null handle that had no   *)
(* memory, or that a failed command left: sdio_mutex, when the BOOTUP      *)
(* command is due or trans_recv_task wakes up, or boot_sem, when it is     *)
(* taken or deleted.  A timeout is not among it.                           *)
AssertionNeedsFault ==
  aborted /\ stray = "no" =>
    /\ faults > 0
    /\ \/ main \in {"bootup", "delete"} /\ ~ sdio_mutex
       \/ main \in {"take", "delete"} /\ boot_sem = "null"

(* The tasks run, the target does what it is told, the ten seconds pass.   *)
Fairness ==
  /\ WF_vars(ExtconnBoot \/ FwDownload \/ RecvInit \/ LockFails \/ SendBootup
             \/ Prepare)
  /\ WF_vars(Create) /\ WF_vars(Take) /\ WF_vars(Delete)
  /\ WF_vars(WifiInit) /\ WF_vars(BtInit)
  /\ WF_vars(TargetOn) /\ WF_vars(SendInit) /\ WF_vars(WaitBootup)
  /\ WF_vars(PostInit) /\ WF_vars(Run) /\ WF_vars(Give)
  /\ WF_vars(Report)

FairSpec == Spec /\ Fairness

(* A TARGET_ON event still on its way when the state allows it starts the  *)
(* handshake, and unless something fails the handshake completes, whether  *)
(* or not esp_sip_bootup still waits for it.                               *)
HandshakeCompletes ==
  state = "SIP_PREPARE_BOOT" /\ "TARGET_ON" \in Range(events)
    ~> state = "SIP_RUN" \/ faults > 0

(* esp_extconn_init returns, although a TARGET_ON that was forgotten is    *)
(* never repeated; or an assertion takes the system down.  What cannot be  *)
(* concluded: esp_extconn_sdio_start repeats CMD0 for ever while the       *)
(* target answers it badly; ExtconnBoot stands for a boot that ends.       *)
InitReturns == <>(main = "done" \/ aborted)
=============================================================================
