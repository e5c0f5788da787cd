----------------------------- MODULE ExtConnInit -----------------------------
(***************************************************************************)
(* esp_extconn_init with what it acquires: ext_boot.c, the set-up of the   *)
(* link in ext_sdio_adapter.c and the init functions of the transports.    *)
(* Wi-Fi and Bluetooth are built in.  Any allocation and any access may    *)
(* fail, and the application may call again, after an error or a success.  *)
(* What the tasks do once they exist is in the other modules.              *)
(***************************************************************************)
EXTENDS Integers

CONSTANTS
  MaxCalls,     \* bound: calls of esp_extconn_init
  MaxFaults     \* bound: allocations and accesses that fail

ASSUME InitAssumption == MaxCalls \in Nat /\ MaxFaults \in Nat

(* The handle of the on-chip LDO and the sdmmc_card_t come first.          *)
Resources == {"ldo", "card", "sip", "sdio_mutex", "recv_buf",
              "trans_recv_task", "wifi_tx", "wifi_send_task",
              "bt_tx", "tx_sem", "tx_que", "bt_tx_task"}

(* The registers of the target the link set-up changes, and the bits it    *)
(* sets: SLC_CONF1, SLC_0_LEN_CONF, FUNC1_INT_ENA.  "own" stands for the   *)
(* bits that are the target's own business.                                *)
Bits == [conf1 |-> {"rx_stitch", "tx_stitch"}, len_conf |-> {"packet_load"},
         int_ena |-> {"gpio_int"}]
Registers == DOMAIN Bits

VARIABLES
  pc,           \* where the caller stands
  calls,        \* so far
  result,       \* of the last call
  host,         \* `host` is set
  tries,        \* of sdmmc_card_init
  reg,          \* the registers
  buf,          \* t_buf or val: what was read
  reset,        \* history: the registers after the last reset,
  made, again,  \*   what was created, what was created once more
  faults

vars == <<pc, calls, result, host, tries, reg, buf, reset, made, again, faults>>
linkVars == <<reg, buf, reset>>
madeVars == <<made, again>>

Init ==
  /\ pc = "idle" /\ calls = 0 /\ result = "none"
  /\ host = FALSE
  /\ tries = 0
  /\ reset \in [Registers -> {{}, {"own"}}]
  /\ reg = reset
  /\ buf = {}
  /\ made = {} /\ again = {}
  /\ faults = 0

Fault == faults < MaxFaults /\ faults' = faults + 1

GoesOn(from, to) ==
  pc = from /\ pc' = to /\ UNCHANGED <<calls, result, faults>>

Returns(from, res) ==
  pc = from /\ pc' = "idle" /\ result' = res /\ UNCHANGED calls

(* A failing step that the code notices.                                   *)
Fails(from) == Returns(from, "error") /\ Fault

Aborts(from) ==
  pc = from /\ pc' = "aborted" /\ UNCHANGED <<calls, result>>

Make(S) == made' = made \cup S /\ again' = again \cup (made \cap S)

-------------------------------------------------------------------------------
(* esp_extconn_boot resets the target first, whatever the state.           *)
Call ==
  /\ pc = "idle" /\ calls < MaxCalls
  /\ pc' = "sdmmc" /\ calls' = calls + 1 /\ result' = "none"
  /\ reg' = reset
  /\ UNCHANGED <<host, tries, buf, reset, madeVars, faults>>

(* sdmmc_init looks at nothing an earlier call made.  An error of the LDO  *)
(* or of calloc is returned, one of sdmmc_host_init and                    *)
(* sdmmc_host_init_slot in between aborts; some versions of the first      *)
(* refuse a second call.                                                   *)
SdmmcInit ==
  /\ \/ GoesOn("sdmmc", "card") /\ Make({"ldo", "card"})
     \/ Fails("sdmmc") /\ (Make({"ldo"}) \/ UNCHANGED madeVars)
     \/ Aborts("sdmmc") /\ Make({"ldo"}) /\ (Fault \/ (calls > 1 /\ UNCHANGED faults))
  /\ tries' = 0
  /\ UNCHANGED <<host, linkVars>>

(* As in the other modules, variants of the kind this code invites come    *)
(* before the operations they vary, and nothing uses them.                 *)

(* There is one attempt more.                                              *)
CardInitEleven ==
  /\ \/ GoesOn("card", "attach") /\ UNCHANGED tries
     \/ tries < 10 /\ GoesOn("card", "card") /\ tries' = tries + 1
     \/ tries = 10 /\ GoesOn("card", "attach") /\ tries' = 11
  /\ UNCHANGED <<host, linkVars, madeVars>>

(* The tenth failure is as good as a success.                              *)
CardInit ==
  /\ \/ GoesOn("card", "attach") /\ UNCHANGED tries
     \/ tries < 9 /\ GoesOn("card", "card") /\ tries' = tries + 1
     \/ tries = 9 /\ GoesOn("card", "attach") /\ tries' = 10
  /\ UNCHANGED <<host, linkVars, madeVars>>

(* There is no test of host.                                               *)
SdioInitAgain ==
  /\ \/ GoesOn("attach", "start") /\ host' = TRUE
     \/ Fails("attach") /\ UNCHANGED host
  /\ UNCHANGED <<tries, linkVars, madeVars>>

(* A host that is there is taken for one that is set up.                   *)
SdioInitReusing ==
  /\ \/ ~ host /\ GoesOn("attach", "start") /\ host' = TRUE
     \/ ~ host /\ Fails("attach") /\ UNCHANGED host
     \/ host /\ GoesOn("attach", "fw") /\ UNCHANGED host
  /\ UNCHANGED <<tries, linkVars, madeVars>>

(* esp_extconn_sdio_init.                                                  *)
SdioInit ==
  /\ \/ ~ host /\ GoesOn("attach", "start") /\ host' = TRUE
     \/ ~ host /\ Fails("attach") /\ UNCHANGED host
     \/ host /\ Returns("attach", "error") /\ UNCHANGED <<host, faults>>
  /\ UNCHANGED <<tries, linkVars, madeVars>>

(* esp_extconn_sdio_start.  CMD0 is repeated as long as its answer is      *)
(* invalid; host stays set whatever fails.                                 *)
SdioStart ==
  /\ GoesOn("start", "conf1") \/ Fails("start")
  /\ UNCHANGED <<host, tries, linkVars, madeVars>>

-------------------------------------------------------------------------------
(* esp_extconn_sdio_init_slave_link: read, modify, write, read.  A write   *)
(* that fails may have reached the register.                               *)
ReadReg(r, from, to) ==
  /\ \/ GoesOn(from, to) /\ buf' = reg[r]
     \/ Fails(from) /\ UNCHANGED buf
  /\ UNCHANGED <<host, tries, reg, reset, madeVars>>

(* What the register held is not kept.                                     *)
WrittenPlain(r) == [reg EXCEPT ![r] = Bits[r]]

Written(r) == [reg EXCEPT ![r] = buf \cup Bits[r]]

WriteReg(r, from, to) ==
  /\ \/ GoesOn(from, to) /\ reg' = Written(r)
     \/ Fails(from) /\ reg' \in {reg, Written(r)}
  /\ UNCHANGED <<host, tries, buf, reset, madeVars>>

Link ==
  \/ ReadReg("conf1", "conf1", "write conf1")
  \/ WriteReg("conf1", "write conf1", "check conf1")
  \/ ReadReg("conf1", "check conf1", "len_conf")
  \/ ReadReg("len_conf", "len_conf", "write len_conf")
  \/ WriteReg("len_conf", "write len_conf", "check len_conf")
  \/ ReadReg("len_conf", "check len_conf", "int_ena")

(* The interrupt enable.  Nobody looks whether it could be read, and then  *)
(* val is whatever malloc found, or written; only malloc may fail.         *)
ReadIntEna ==
  /\ \/ GoesOn("int_ena", "write int_ena") /\ buf' = reg["int_ena"]
     \/ pc = "int_ena" /\ pc' = "write int_ena" /\ Fault /\ buf' \in SUBSET {"own", "gpio_int"}
        /\ UNCHANGED <<calls, result>>
     \/ Fails("int_ena") /\ UNCHANGED buf
  /\ UNCHANGED <<host, tries, reg, reset, madeVars>>

WriteIntEna ==
  /\ \/ GoesOn("write int_ena", "fw") /\ reg' = Written("int_ena")
     \/ pc = "write int_ena" /\ pc' = "fw" /\ Fault
        /\ reg' \in {reg, Written("int_ena")} /\ UNCHANGED <<calls, result>>
  /\ UNCHANGED <<host, tries, buf, reset, madeVars>>

-------------------------------------------------------------------------------
(* esp_sip_init and esp_fw_download.                                       *)
FwInit ==
  /\ \/ GoesOn("fw", "recv") /\ Make({"sip"})
     \/ Fails("fw") /\ (Make({"sip"}) \/ UNCHANGED madeVars)
  /\ UNCHANGED <<host, tries, linkVars>>

(* esp_extconn_trans_recv_init does not look at the mutex.                 *)
RecvInit ==
  /\ \/ GoesOn("recv", "bootup") /\ Make({"sdio_mutex", "recv_buf", "trans_recv_task"})
     \/ pc = "recv" /\ pc' = "bootup" /\ Fault /\ Make({"recv_buf", "trans_recv_task"})
        /\ UNCHANGED <<calls, result>>
     \/ Fails("recv") /\ \E S \in SUBSET {"sdio_mutex", "recv_buf"} : Make(S)
  /\ UNCHANGED <<host, tries, linkVars>>

(* esp_sip_bootup: an error is returned only if TARGET_ON does not come in *)
(* time.  Without the mutex the command fails an assertion, and so does    *)
(* what follows a command that cannot be sent or a boot_sem that cannot be *)
(* created.                                                                *)
Bootup ==
  /\ \/ "sdio_mutex" \in made /\ GoesOn("bootup", "wifi")
     \/ "sdio_mutex" \in made /\ Returns("bootup", "error") /\ UNCHANGED faults
     \/ "sdio_mutex" \in made /\ Aborts("bootup") /\ Fault
     \/ "sdio_mutex" \notin made /\ Aborts("bootup") /\ UNCHANGED faults
  /\ UNCHANGED <<host, tries, linkVars, madeVars>>

(* Wi-Fi is as careless as Bluetooth.                                      *)
WifiInitCareless ==
  /\ \/ GoesOn("wifi", "bt") /\ Make({"wifi_tx", "wifi_send_task"})
     \/ pc = "wifi" /\ pc' = "bt" /\ Fault /\ Make({"wifi_tx"}) /\ UNCHANGED <<calls, result>>
  /\ UNCHANGED <<host, tries, linkVars>>

(* esp_extconn_trans_wifi_init.                                            *)
WifiInit ==
  /\ \/ GoesOn("wifi", "bt") /\ Make({"wifi_tx", "wifi_send_task"})
     \/ Fails("wifi") /\ (Make({"wifi_tx"}) \/ UNCHANGED madeVars)
  /\ UNCHANGED <<host, tries, linkVars>>

(* esp_extconn_trans_bt_init looks at nothing: without memory for bt_tx it *)
(* goes down, without any of the rest it returns ESP_OK.                   *)
Unchecked == {"tx_sem", "tx_que", "bt_tx_task"}
BtInit ==
  /\ \/ Returns("bt", "ok") /\ UNCHANGED faults /\ Make({"bt_tx"} \cup Unchecked)
     \/ Returns("bt", "ok") /\ Fault
        /\ \E lost \in SUBSET Unchecked \ {{}} : Make({"bt_tx"} \cup (Unchecked \ lost))
     \/ Aborts("bt") /\ Fault /\ UNCHANGED madeVars
  /\ UNCHANGED <<host, tries, linkVars>>

Next ==
  \/ Call \/ SdmmcInit \/ CardInit \/ SdioInit \/ SdioStart
  \/ Link \/ ReadIntEna \/ WriteIntEna
  \/ FwInit \/ RecvInit \/ Bootup \/ WifiInit \/ BtInit

Spec == Init /\ [][Next]_vars

-------------------------------------------------------------------------------
(* Properties.                                                             *)

(* The type invariant.                                                     *)
TypeOK ==
  /\ calls \in 0 .. MaxCalls /\ result \in {"none", "ok", "error"}
  /\ host \in BOOLEAN /\ tries \in 0 .. 10
  /\ reg \in [Registers -> SUBSET {"own", "rx_stitch", "tx_stitch", "packet_load", "gpio_int"}]
  /\ made \subseteq Resources /\ again \subseteq made
  /\ faults \in 0 .. MaxFaults

(* However often it is called, esp_extconn_init creates no second task on  *)
(* the bus and puts no mutex, buffer or queue in place of one in use.  The *)
(* LDO handle and the card are made again by each call, and leak when the  *)
(* call is refused behind them.                                            *)
OnlyCardAndLdoTwice == again \subseteq {"ldo", "card"}

(* Behind the set-up of the link, and whenever ESP_OK is returned, the     *)
(* target's registers have their bits and keep those they had, though each *)
(* call resets the target; for the interrupt enable that holds only if     *)
(* nothing failed, since its errors are not looked at.                     *)
LinkReady ==
  pc \in {"fw", "recv", "bootup", "wifi", "bt"} \/ result = "ok" =>
    \A r \in Registers :
      (r = "int_ena" => faults = 0) => reg[r] = reset[r] \cup Bits[r]

(* ESP_OK means a complete start (include/esp_extconn.h:112), but for the  *)
(* three results esp_extconn_trans_bt_init does not look at.  A mutex that *)
(* could not be created brings the start down before.                      *)
OkMeansComplete == result = "ok" => Resources \ made \subseteq Unchecked
=============================================================================
