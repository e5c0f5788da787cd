---------------------------- MODULE SipBootProofs ----------------------------
(***************************************************************************)
(* Theorems about the start of the component, for every number of events,  *)
(* failures and firmware chunks and for every build: about its handshake   *)
(* and about the state in which it hands over to WifiTx.                   *)
(***************************************************************************)
EXTENDS SipBoot, TLAPS

(* What is told of the events on their way.                                *)
NoBootup(s) == \A i \in DOMAIN s : s[i] # "BOOTUP"
OneBootup(s) ==
  \A i, j \in DOMAIN s : s[i] = "BOOTUP" /\ s[j] = "BOOTUP" => i = j

(* esp_extconn_init has not come to where esp_sip_bootup sets the state.   *)
EarlyInv ==
  /\ main \in {"boot", "download", "recv_init", "bootup", "prepare"} =>
       state = "SIP_INIT" /\ boot_sem = "null"
  /\ main \in {"boot", "download", "recv_init", "bootup"} =>
       total_tx = 0 /\ chip = "loader"
  /\ main = "prepare" => total_tx = 1 /\ txseq = 0 /\ chip = "booted"
  /\ main \in {"boot", "download", "recv_init"} => receiver = "none"

(* How far trans_recv_task, the target and sip->state are together.        *)
HandshakeInv ==
  /\ state \in {"SIP_INIT", "SIP_PREPARE_BOOT"} =>
       receiver \in {"none", "idle", "dead"} /\ chip \in {"loader", "booted"}
  /\ state = "SIP_PREPARE_BOOT" => txseq = 0 /\ total_tx = 1 /\ chip = "booted"
  /\ state # "SIP_BOOT"
  /\ receiver = "send_init" =>
       state = "SIP_SEND_INIT" /\ txseq = 0 /\ total_tx = 1 /\ chip = "booted"
  /\ receiver = "sent_init" =>
       state = "SIP_SEND_INIT" /\ chip \in {"init", "running"}
  /\ chip \in {"init", "running"} => txseq = 1 /\ (total_tx = 2 \/ faults > 0)
  /\ receiver \in {"run", "give"} =>
       /\ chip = "running"
       /\ tx_blksz = TxBlks
       /\ ~ rawbuf
       /\ NoBootup(events)
  /\ receiver = "run" => state \in {"SIP_SEND_INIT", "SIP_WAIT_BOOTUP"}
  /\ receiver = "give" => state = "SIP_RUN"
  /\ state = "SIP_RUN" =>
       /\ chip = "running"
       /\ tx_blksz = TxBlks
       /\ ~ rawbuf
       /\ NoBootup(events)
       /\ receiver \in {"idle", "give", "dead"}
  /\ chip # "running" => NoBootup(events)
  /\ OneBootup(events)

(* trans_recv_task is done with the BOOTUP event, and none will follow.    *)
Given == state = "SIP_RUN" /\ receiver \in {"idle", "dead"}

(* boot_sem tells esp_sip_bootup that much, and only a timeout makes it    *)
(* delete the semaphore earlier.                                           *)
SemInv ==
  /\ count = 1 => Given
  /\ boot_sem = "deleted" => main \in {"wifi_init", "bt_init", "done"}
  /\ boot_sem = "live" => main \in {"take", "delete"}
  /\ ret = "ESP_ERR_TIMEOUT" => main \in {"delete", "bt_init", "done"}
  /\ main = "create" => ret = "ESP_OK" /\ boot_sem = "null"
  /\ main = "take" => ret = "ESP_OK"
  /\ main = "wifi_init" => ret = "ESP_OK"
  /\ main = "delete" /\ ret = "ESP_FAIL" => boot_sem = "null"
  /\ WifiEnabled =>
       /\ main = "delete" /\ boot_sem = "live" /\ ret = "ESP_OK" => Given
       /\ main = "wifi_init" => Given
       /\ main \in {"bt_init", "done"} /\ ret = "ESP_OK" => Given
       /\ boot_sem = "deleted" => ret = "ESP_ERR_TIMEOUT" \/ Given
       /\ wifiUp \/ btUp => Given
       /\ boot_sem = "null" /\ state # "SIP_INIT" => main \in {"create", "take"}
       /\ main = "take" /\ boot_sem = "null" => faults > 0

(* A semaphore that was not alive when it was given.                       *)
StrayInv ==
  WifiEnabled =>
    /\ stray = "null" => /\ aborted
                         /\ main \in {"create", "take"}
                         /\ main = "take" => faults > 0
    /\ stray = "deleted" => ret = "ESP_ERR_TIMEOUT" /\ boot_sem = "deleted"

(* The inductive invariant.                                                *)
BootInv == TypeOK /\ EarlyInv /\ HandshakeInv /\ SemInv /\ StrayInv

-------------------------------------------------------------------------------
(* A queue of events loses its first one ...                               *)
LEMMA TailOfEvents ==
  ASSUME NEW E, NEW s \in Seq(E), s # << >>
  PROVE  /\ Tail(s) \in Seq(E)
         /\ NoBootup(s) => NoBootup(Tail(s)) /\ Head(s) # "BOOTUP"
         /\ OneBootup(s) => OneBootup(Tail(s))
         /\ OneBootup(s) /\ Head(s) = "BOOTUP" => NoBootup(Tail(s))
<1>1. /\ Tail(s) \in Seq(E)
      /\ DOMAIN Tail(s) = 1 .. Len(s) - 1
      /\ \A i \in 1 .. Len(s) - 1 : Tail(s)[i] = s[i + 1]
      /\ DOMAIN s = 1 .. Len(s)
      /\ Len(s) \in Nat \ {0}
      /\ Head(s) = s[1]
  OBVIOUS
<1>2. NoBootup(s) => NoBootup(Tail(s)) /\ Head(s) # "BOOTUP"
  BY <1>1 DEF NoBootup
<1>3. OneBootup(s) => OneBootup(Tail(s))
  BY <1>1 DEF OneBootup
<1>4. OneBootup(s) /\ Head(s) = "BOOTUP" => NoBootup(Tail(s))
  BY <1>1 DEF OneBootup, NoBootup
<1>5. QED
  BY <1>1, <1>2, <1>3, <1>4

(* ... or gets another one at the end.                                     *)
LEMMA AppendToEvents ==
  ASSUME NEW E, NEW s \in Seq(E), NEW e \in E
  PROVE  /\ Append(s, e) \in Seq(E)
         /\ NoBootup(s) /\ e # "BOOTUP" => NoBootup(Append(s, e))
         /\ NoBootup(s) => OneBootup(Append(s, e))
         /\ OneBootup(s) /\ e # "BOOTUP" => OneBootup(Append(s, e))
<1>1. /\ Append(s, e) \in Seq(E)
      /\ DOMAIN Append(s, e) = 1 .. Len(s) + 1
      /\ \A i \in 1 .. Len(s) : Append(s, e)[i] = s[i]
      /\ Append(s, e)[Len(s) + 1] = e
      /\ DOMAIN s = 1 .. Len(s)
      /\ Len(s) \in Nat
  OBVIOUS
<1>2. NoBootup(s) /\ e # "BOOTUP" => NoBootup(Append(s, e))
  BY <1>1 DEF NoBootup
<1>3. NoBootup(s) => OneBootup(Append(s, e))
  BY <1>1 DEF NoBootup, OneBootup
<1>4. OneBootup(s) /\ e # "BOOTUP" => OneBootup(Append(s, e))
  BY <1>1 DEF OneBootup
<1>5. QED
  BY <1>1, <1>2, <1>3, <1>4

-------------------------------------------------------------------------------
(* It holds when esp_extconn_init is called.                               *)
LEMMA InitBoot == Init => BootInv
<1> SUFFICES ASSUME Init PROVE BootInv
  OBVIOUS
<1>1. TypeOK
  <2>1. /\ rawbuf \in BOOLEAN /\ wifiUp \in BOOLEAN /\ btUp \in BOOLEAN
        /\ aborted \in BOOLEAN /\ sdio_mutex \in BOOLEAN /\ gap \in BOOLEAN
    BY DEF Init
  <2>2. events \in Seq({"TARGET_ON", "BOOTUP"})
    BY DEF Init
  <2>3. state \in DOMAIN Rank
    BY DEF Init, Rank
  <2>4. QED
    BY <2>1, <2>2, <2>3, BootAssumption DEF Init, TypeOK
<1>2. NoBootup(events) /\ OneBootup(events)
  BY DEF Init, NoBootup, OneBootup
<1>3. EarlyInv /\ HandshakeInv
  BY <1>2 DEF Init, EarlyInv, HandshakeInv
<1>4. SemInv /\ StrayInv
  BY DEF Init, SemInv, StrayInv
<1>5. QED
  BY <1>1, <1>3, <1>4 DEF BootInv

-------------------------------------------------------------------------------
(* Every action preserves the inductive invariant.                         *)
USE BootAssumption
    DEF mainVars, recvVars, sipVars, semVars, chipVars, upVars, endVars

(* The calls in front of esp_sip_bootup: neither the target nor the state  *)
(* moves before it.                                                        *)
LEMMA ExtconnBootBoot == BootInv /\ ExtconnBoot => BootInv'
<1> SUFFICES ASSUME BootInv, ExtconnBoot PROVE BootInv'
  OBVIOUS
<1> USE DEF BootInv, ExtconnBoot, Pass, Fail, Fault, At, BehindWifi
<1>1. TypeOK'
  BY DEF TypeOK, EarlyInv, HandshakeInv, Rank
<1>2. EarlyInv'
  BY DEF TypeOK, EarlyInv, HandshakeInv
<1>3. HandshakeInv'
  BY DEF TypeOK, EarlyInv, HandshakeInv
<1>4. SemInv'
  BY DEF TypeOK, EarlyInv, HandshakeInv, SemInv, Given
<1>5. StrayInv'
  BY DEF TypeOK, EarlyInv, HandshakeInv, SemInv, StrayInv, Given
<1>6. QED
  BY <1>1, <1>2, <1>3, <1>4, <1>5

(* txseq counts the download until BOOTUP restarts it.                     *)
LEMMA FwDownloadBoot == BootInv /\ FwDownload => BootInv'
<1> SUFFICES ASSUME BootInv, FwDownload PROVE BootInv'
  OBVIOUS
<1> USE DEF BootInv, FwDownload, Pass, Fail, Fault, At, BehindWifi
<1>1. TypeOK'
  <2>1. rawbuf' \in BOOLEAN
    BY DEF TypeOK
  <2>2. QED
    BY <2>1 DEF TypeOK, EarlyInv, HandshakeInv, Rank
<1>2. EarlyInv'
  BY DEF TypeOK, EarlyInv, HandshakeInv
<1>3. HandshakeInv'
  BY DEF TypeOK, EarlyInv, HandshakeInv
<1>4. SemInv'
  BY DEF TypeOK, EarlyInv, HandshakeInv, SemInv, Given
<1>5. StrayInv'
  BY DEF TypeOK, EarlyInv, HandshakeInv, SemInv, StrayInv, Given
<1>6. QED
  BY <1>1, <1>2, <1>3, <1>4, <1>5

(* From here on there are two tasks.                                       *)
LEMMA RecvInitBoot == BootInv /\ RecvInit => BootInv'
<1> SUFFICES ASSUME BootInv, RecvInit PROVE BootInv'
  OBVIOUS
<1> USE DEF BootInv, RecvInit, Pass, Fail, Fault, At, BehindWifi
<1>1. TypeOK'
  <2>1. sdio_mutex' \in BOOLEAN
    OBVIOUS
  <2>2. QED
    BY <2>1 DEF TypeOK, EarlyInv, HandshakeInv, Rank
<1>2. EarlyInv'
  BY DEF TypeOK, EarlyInv, HandshakeInv
<1>3. HandshakeInv'
  BY DEF TypeOK, EarlyInv, HandshakeInv
<1>4. SemInv'
  BY DEF TypeOK, EarlyInv, HandshakeInv, SemInv, Given
<1>5. StrayInv'
  BY DEF TypeOK, EarlyInv, HandshakeInv, SemInv, StrayInv, Given
<1>6. QED
  BY <1>1, <1>2, <1>3, <1>4, <1>5

(* The program is down, and nothing else changes.                          *)
LEMMA LockFailsBoot == BootInv /\ LockFails => BootInv'
<1> SUFFICES ASSUME BootInv, LockFails PROVE BootInv'
  OBVIOUS
<1>1. aborted' \in BOOLEAN
  BY DEF LockFails
<1>2. QED
  BY <1>1
  DEF LockFails, BootInv, TypeOK, EarlyInv, HandshakeInv, SemInv, StrayInv, Given

(* The BOOTUP command: total_tx becomes 1, txseq 0.                        *)
LEMMA SendBootupBoot == BootInv /\ SendBootup => BootInv'
<1> SUFFICES ASSUME BootInv, SendBootup PROVE BootInv'
  OBVIOUS
<1> USE DEF BootInv, SendBootup, Pass, Fail, Fault, At
<1>1. TypeOK'
  BY DEF TypeOK, EarlyInv, HandshakeInv, Rank
<1>2. EarlyInv'
  BY DEF TypeOK, EarlyInv, HandshakeInv
<1>3. HandshakeInv'
  BY DEF TypeOK, EarlyInv, HandshakeInv
<1>4. SemInv'
  BY DEF TypeOK, EarlyInv, HandshakeInv, SemInv, Given
<1>5. StrayInv'
  BY DEF TypeOK, EarlyInv, HandshakeInv, SemInv, StrayInv, Given
<1>6. QED
  BY <1>1, <1>2, <1>3, <1>4, <1>5

(* The state is still SIP_INIT, so no event was followed yet.              *)
LEMMA PrepareBoot == BootInv /\ Prepare => BootInv'
<1> SUFFICES ASSUME BootInv, Prepare PROVE BootInv'
  OBVIOUS
<1> USE DEF BootInv, Prepare, Pass, At
<1>1. TypeOK'
  BY DEF TypeOK, EarlyInv, HandshakeInv, Rank
<1>2. EarlyInv'
  BY DEF TypeOK, EarlyInv, HandshakeInv
<1>3. HandshakeInv'
  BY DEF TypeOK, EarlyInv, HandshakeInv
<1>4. SemInv'
  BY DEF TypeOK, EarlyInv, HandshakeInv, SemInv, Given
<1>5. StrayInv'
  BY DEF TypeOK, EarlyInv, HandshakeInv, SemInv, StrayInv, Given
<1>6. QED
  BY <1>1, <1>2, <1>3, <1>4, <1>5

(* boot_sem starts with a count of 0, whatever was given too early.        *)
LEMMA CreateBoot == BootInv /\ Create => BootInv'
<1> SUFFICES ASSUME BootInv, Create PROVE BootInv'
  OBVIOUS
<1> USE DEF BootInv, Create, Fault, At
<1>1. TypeOK'
  BY DEF TypeOK, EarlyInv, HandshakeInv, Rank
<1>2. EarlyInv'
  BY DEF TypeOK, EarlyInv, HandshakeInv
<1>3. HandshakeInv'
  BY DEF TypeOK, EarlyInv, HandshakeInv
<1>4. SemInv'
  BY DEF TypeOK, EarlyInv, HandshakeInv, SemInv, Given
<1>5. StrayInv'
  BY DEF TypeOK, EarlyInv, HandshakeInv, SemInv, StrayInv, Given
<1>6. QED
  BY <1>1, <1>2, <1>3, <1>4, <1>5

(* A count of 1 means that the handshake is complete.                      *)
LEMMA TakeBoot == BootInv /\ Take => BootInv'
<1> SUFFICES ASSUME BootInv, Take PROVE BootInv'
  OBVIOUS
<1> USE DEF BootInv, Take, Pass, At
<1>1. TypeOK'
  <2>1. aborted' \in BOOLEAN
    BY DEF TypeOK
  <2>2. QED
    BY <2>1 DEF TypeOK, EarlyInv, HandshakeInv, Rank
<1>2. EarlyInv'
  BY DEF TypeOK, EarlyInv, HandshakeInv
<1>3. HandshakeInv'
  BY DEF TypeOK, EarlyInv, HandshakeInv
<1>4. SemInv'
  BY DEF TypeOK, EarlyInv, HandshakeInv, SemInv, Given
<1>5. StrayInv'
  BY DEF TypeOK, EarlyInv, HandshakeInv, SemInv, StrayInv, Given
<1>6. QED
  BY <1>1, <1>2, <1>3, <1>4, <1>5

(* With Wi-Fi and ESP_OK nobody will give the semaphore any more.          *)
LEMMA DeleteBoot == BootInv /\ Delete => BootInv'
<1> SUFFICES ASSUME BootInv, Delete PROVE BootInv'
  OBVIOUS
<1> USE DEF BootInv, Delete, At, BehindWifi
<1>1. TypeOK'
  <2>1. aborted' \in BOOLEAN
    BY DEF TypeOK
  <2>2. QED
    BY <2>1 DEF TypeOK, EarlyInv, HandshakeInv, Rank
<1>2. EarlyInv'
  BY DEF TypeOK, EarlyInv, HandshakeInv
<1>3. HandshakeInv'
  BY DEF TypeOK, EarlyInv, HandshakeInv
<1>4. SemInv'
  BY DEF TypeOK, EarlyInv, HandshakeInv, SemInv, Given
<1>5. StrayInv'
  BY DEF TypeOK, EarlyInv, HandshakeInv, SemInv, StrayInv, Given
<1>6. QED
  BY <1>1, <1>2, <1>3, <1>4, <1>5

(* Only reached once the handshake is complete.                            *)
LEMMA WifiInitBoot == BootInv /\ WifiInit => BootInv'
<1> SUFFICES ASSUME BootInv, WifiInit PROVE BootInv'
  OBVIOUS
<1> USE DEF BootInv, WifiInit, Pass, Fail, Fault, At, BehindWifi
<1>1. TypeOK'
  <2>1. wifiUp' \in BOOLEAN
    BY DEF TypeOK
  <2>2. QED
    BY <2>1 DEF TypeOK, EarlyInv, HandshakeInv, Rank
<1>2. EarlyInv'
  BY DEF TypeOK, EarlyInv, HandshakeInv
<1>3. HandshakeInv'
  BY DEF TypeOK, EarlyInv, HandshakeInv
<1>4. SemInv'
  BY DEF TypeOK, EarlyInv, HandshakeInv, SemInv, Given
<1>5. StrayInv'
  BY DEF TypeOK, EarlyInv, HandshakeInv, SemInv, StrayInv, Given
<1>6. QED
  BY <1>1, <1>2, <1>3, <1>4, <1>5

(* With Wi-Fi, and ESP_OK, only reached once the handshake is complete.    *)
LEMMA BtInitBoot == BootInv /\ BtInit => BootInv'
<1> SUFFICES ASSUME BootInv, BtInit PROVE BootInv'
  OBVIOUS
<1> USE DEF BootInv, BtInit, At
<1>1. TypeOK'
  BY DEF TypeOK, EarlyInv, HandshakeInv, Rank
<1>2. EarlyInv'
  BY DEF TypeOK, EarlyInv, HandshakeInv
<1>3. HandshakeInv'
  BY DEF TypeOK, EarlyInv, HandshakeInv
<1>4. SemInv'
  BY DEF TypeOK, EarlyInv, HandshakeInv, SemInv, Given
<1>5. StrayInv'
  BY DEF TypeOK, EarlyInv, HandshakeInv, SemInv, StrayInv, Given
<1>6. QED
  BY <1>1, <1>2, <1>3, <1>4, <1>5

(* What is lost was not handled: no state moves.                           *)
LEMMA LoseEventBoot == BootInv /\ LoseEvent => BootInv'
<1> SUFFICES ASSUME BootInv, LoseEvent PROVE BootInv'
  OBVIOUS
<1> USE DEF BootInv, LoseEvent, Receives, Fault
<1>0. /\ events' \in Seq({"TARGET_ON", "BOOTUP"})
      /\ NoBootup(events) => NoBootup(events')
      /\ OneBootup(events) => OneBootup(events')
  BY TailOfEvents DEF TypeOK
<1>1. TypeOK'
  <2>1. gap' \in BOOLEAN
    BY DEF TypeOK
  <2>2. QED
    BY <1>0, <2>1 DEF TypeOK, EarlyInv, HandshakeInv, Rank
<1>2. EarlyInv'
  BY <1>0 DEF TypeOK, EarlyInv, HandshakeInv
<1>3. HandshakeInv'
  BY <1>0 DEF TypeOK, EarlyInv, HandshakeInv
<1>4. SemInv'
  BY <1>0 DEF TypeOK, EarlyInv, HandshakeInv, SemInv, Given
<1>5. StrayInv'
  BY <1>0 DEF TypeOK, EarlyInv, HandshakeInv, SemInv, StrayInv, Given
<1>6. QED
  BY <1>1, <1>2, <1>3, <1>4, <1>5

(* Followed in SIP_PREPARE_BOOT only.                                      *)
LEMMA TargetOnBoot == BootInv /\ TargetOn => BootInv'
<1> SUFFICES ASSUME BootInv, TargetOn PROVE BootInv'
  OBVIOUS
<1> USE DEF BootInv, TargetOn, Event, Receives
<1>0. /\ events' \in Seq({"TARGET_ON", "BOOTUP"})
      /\ NoBootup(events) => NoBootup(events') /\ Head(events) # "BOOTUP"
      /\ OneBootup(events) => OneBootup(events')
      /\ OneBootup(events) /\ Head(events) = "BOOTUP" => NoBootup(events')
  BY TailOfEvents DEF TypeOK
<1>1. TypeOK'
  BY <1>0 DEF TypeOK, EarlyInv, HandshakeInv, Rank
<1>2. EarlyInv'
  BY <1>0 DEF TypeOK, EarlyInv, HandshakeInv
<1>3. HandshakeInv'
  BY <1>0 DEF TypeOK, EarlyInv, HandshakeInv
<1>4. SemInv'
  BY <1>0 DEF TypeOK, EarlyInv, HandshakeInv, SemInv, Given
<1>5. StrayInv'
  BY <1>0 DEF TypeOK, EarlyInv, HandshakeInv, SemInv, StrayInv, Given
<1>6. QED
  BY <1>1, <1>2, <1>3, <1>4, <1>5

(* The INIT command is sent once, as number 1, in SIP_SEND_INIT.           *)
LEMMA SendInitBoot == BootInv /\ SendInit => BootInv'
<1> SUFFICES ASSUME BootInv, SendInit PROVE BootInv'
  OBVIOUS
<1> USE DEF BootInv, SendInit, Receives, Fault
<1>1. TypeOK'
  BY DEF TypeOK, EarlyInv, HandshakeInv, Rank
<1>2. EarlyInv'
  BY DEF TypeOK, EarlyInv, HandshakeInv
<1>3. HandshakeInv'
  BY DEF TypeOK, EarlyInv, HandshakeInv
<1>4. SemInv'
  BY DEF TypeOK, EarlyInv, HandshakeInv, SemInv, Given
<1>5. StrayInv'
  BY DEF TypeOK, EarlyInv, HandshakeInv, SemInv, StrayInv, Given
<1>6. QED
  BY <1>1, <1>2, <1>3, <1>4, <1>5

(* The state is SIP_SEND_INIT.                                             *)
LEMMA WaitBootupBoot == BootInv /\ WaitBootup => BootInv'
<1> SUFFICES ASSUME BootInv, WaitBootup PROVE BootInv'
  OBVIOUS
<1> USE DEF BootInv, WaitBootup, Receives
<1>1. TypeOK'
  BY DEF TypeOK, EarlyInv, HandshakeInv, Rank
<1>2. EarlyInv'
  BY DEF TypeOK, EarlyInv, HandshakeInv
<1>3. HandshakeInv'
  BY DEF TypeOK, EarlyInv, HandshakeInv
<1>4. SemInv'
  BY DEF TypeOK, EarlyInv, HandshakeInv, SemInv, Given
<1>5. StrayInv'
  BY DEF TypeOK, EarlyInv, HandshakeInv, SemInv, StrayInv, Given
<1>6. QED
  BY <1>1, <1>2, <1>3, <1>4, <1>5

(* The one BOOTUP event was the last: the target is running.               *)
LEMMA PostInitBoot == BootInv /\ PostInit => BootInv'
<1> SUFFICES ASSUME BootInv, PostInit PROVE BootInv'
  OBVIOUS
<1> USE DEF BootInv, PostInit, Event, Receives
<1>0. /\ events' \in Seq({"TARGET_ON", "BOOTUP"})
      /\ NoBootup(events) => NoBootup(events') /\ Head(events) # "BOOTUP"
      /\ OneBootup(events) => OneBootup(events')
      /\ OneBootup(events) /\ Head(events) = "BOOTUP" => NoBootup(events')
  BY TailOfEvents DEF TypeOK
<1>1. TypeOK'
  BY <1>0 DEF TypeOK, EarlyInv, HandshakeInv, Rank
<1>2. EarlyInv'
  BY <1>0 DEF TypeOK, EarlyInv, HandshakeInv
<1>3. HandshakeInv'
  <2>1. chip = "running" /\ state \in {"SIP_SEND_INIT", "SIP_WAIT_BOOTUP"}
    BY <1>0 DEF TypeOK, HandshakeInv, Rank
  <2>2. NoBootup(events') /\ OneBootup(events')
    BY <1>0 DEF HandshakeInv
  <2>3. ~ rawbuf'
    OBVIOUS
  <2>4. QED
    BY <2>1, <2>2, <2>3 DEF TypeOK, HandshakeInv
<1>4. SemInv'
  BY <1>0 DEF TypeOK, EarlyInv, HandshakeInv, SemInv, Given
<1>5. StrayInv'
  BY <1>0 DEF TypeOK, EarlyInv, HandshakeInv, SemInv, StrayInv, Given
<1>6. QED
  BY <1>1, <1>2, <1>3, <1>4, <1>5

(* The highest of the states, which nothing leaves.                        *)
LEMMA RunBoot == BootInv /\ Run => BootInv'
<1> SUFFICES ASSUME BootInv, Run PROVE BootInv'
  OBVIOUS
<1> USE DEF BootInv, Run, Receives
<1>1. TypeOK'
  BY DEF TypeOK, EarlyInv, HandshakeInv, Rank
<1>2. EarlyInv'
  BY DEF TypeOK, EarlyInv, HandshakeInv
<1>3. HandshakeInv'
  BY DEF TypeOK, EarlyInv, HandshakeInv
<1>4. SemInv'
  BY DEF TypeOK, EarlyInv, HandshakeInv, SemInv, Given
<1>5. StrayInv'
  BY DEF TypeOK, EarlyInv, HandshakeInv, SemInv, StrayInv, Given
<1>6. QED
  BY <1>1, <1>2, <1>3, <1>4, <1>5

(* The only BOOTUP event has been handled, so this is the only time.       *)
LEMMA GiveBoot == BootInv /\ Give => BootInv'
<1> SUFFICES ASSUME BootInv, Give PROVE BootInv'
  OBVIOUS
<1> USE DEF BootInv, Give, Receives
<1>1. TypeOK'
  <2>1. aborted' \in BOOLEAN
    BY DEF TypeOK
  <2>2. UNCHANGED <<sdio_mutex, gap, rawbuf, wifiUp, btUp>>
    OBVIOUS
  <2>3. QED
    BY <2>1, <2>2 DEF TypeOK, EarlyInv, HandshakeInv, Rank
<1>2. EarlyInv'
  BY DEF TypeOK, EarlyInv, HandshakeInv
<1>3. HandshakeInv'
  BY DEF TypeOK, EarlyInv, HandshakeInv
<1>4. SemInv'
  BY DEF TypeOK, EarlyInv, HandshakeInv, SemInv, Given
<1>5. StrayInv'
  BY DEF TypeOK, EarlyInv, HandshakeInv, SemInv, StrayInv, Given
<1>6. QED
  BY <1>1, <1>2, <1>3, <1>4, <1>5

(* The task stops between two events.                                      *)
LEMMA RecvTaskReturnsBoot == BootInv /\ RecvTaskReturns => BootInv'
<1> SUFFICES ASSUME BootInv, RecvTaskReturns PROVE BootInv'
  OBVIOUS
<1> USE DEF BootInv, RecvTaskReturns, Receives, Fault
<1>1. TypeOK'
  BY DEF TypeOK, EarlyInv, HandshakeInv, Rank
<1>2. EarlyInv'
  BY DEF TypeOK, EarlyInv, HandshakeInv
<1>3. HandshakeInv'
  BY DEF TypeOK, EarlyInv, HandshakeInv
<1>4. SemInv'
  BY DEF TypeOK, EarlyInv, HandshakeInv, SemInv, Given
<1>5. StrayInv'
  BY DEF TypeOK, EarlyInv, HandshakeInv, SemInv, StrayInv, Given
<1>6. QED
  BY <1>1, <1>2, <1>3, <1>4, <1>5

(* TARGET_ON only precedes INIT.                                           *)
LEMMA AnnounceBoot == BootInv /\ Announce => BootInv'
<1> SUFFICES ASSUME BootInv, Announce PROVE BootInv'
  OBVIOUS
<1> USE DEF BootInv, Announce
<1>0. /\ events' \in Seq({"TARGET_ON", "BOOTUP"})
      /\ NoBootup(events) => NoBootup(events')
      /\ OneBootup(events) => OneBootup(events')
  BY AppendToEvents DEF TypeOK
<1>1. TypeOK'
  BY <1>0 DEF TypeOK, EarlyInv, HandshakeInv, Rank
<1>2. EarlyInv'
  BY <1>0 DEF TypeOK, EarlyInv, HandshakeInv
<1>3. HandshakeInv'
  BY <1>0 DEF TypeOK, EarlyInv, HandshakeInv
<1>4. SemInv'
  BY <1>0 DEF TypeOK, EarlyInv, HandshakeInv, SemInv, Given
<1>5. StrayInv'
  BY <1>0 DEF TypeOK, EarlyInv, HandshakeInv, SemInv, StrayInv, Given
<1>6. QED
  BY <1>1, <1>2, <1>3, <1>4, <1>5

(* The target answers the one INIT command.                                *)
LEMMA ReportBoot == BootInv /\ Report => BootInv'
<1> SUFFICES ASSUME BootInv, Report PROVE BootInv'
  OBVIOUS
<1> USE DEF BootInv, Report
<1>0. /\ events' \in Seq({"TARGET_ON", "BOOTUP"})
      /\ NoBootup(events) => OneBootup(events')
  BY AppendToEvents DEF TypeOK
<1>1. TypeOK'
  BY <1>0 DEF TypeOK, EarlyInv, HandshakeInv, Rank
<1>2. EarlyInv'
  BY <1>0 DEF TypeOK, EarlyInv, HandshakeInv
<1>3. HandshakeInv'
  BY <1>0 DEF TypeOK, EarlyInv, HandshakeInv
<1>4. SemInv'
  BY <1>0 DEF TypeOK, EarlyInv, HandshakeInv, SemInv, Given
<1>5. StrayInv'
  BY <1>0 DEF TypeOK, EarlyInv, HandshakeInv, SemInv, StrayInv, Given
<1>6. QED
  BY <1>1, <1>2, <1>3, <1>4, <1>5

(* Nothing moves.                                                          *)
LEMMA StutterBoot == BootInv /\ UNCHANGED vars => BootInv'
BY DEF vars, BootInv, TypeOK, EarlyInv, HandshakeInv, SemInv, StrayInv, Given

(* One lemma for each disjunct of Next.                                    *)
LEMMA NextBoot == BootInv /\ [Next]_vars => BootInv'
BY StutterBoot, ExtconnBootBoot, FwDownloadBoot, RecvInitBoot, LockFailsBoot,
   SendBootupBoot, LoseEventBoot, PrepareBoot, CreateBoot, TakeBoot, DeleteBoot, WifiInitBoot, BtInitBoot,
   TargetOnBoot, SendInitBoot, WaitBootupBoot, PostInitBoot, RunBoot, GiveBoot,
   RecvTaskReturnsBoot, AnnounceBoot, ReportBoot
DEF Next

(* The inductive invariant holds in every state.                           *)
THEOREM BootInvariance == Spec => []BootInv
BY InitBoot, NextBoot, PTL DEF Spec

-------------------------------------------------------------------------------
(* The variables keep their types; in particular no command is sent or     *)
(* counted twice (total_tx), and BOOTUP restarts the numbering (txseq).    *)
THEOREM BootTypeCorrect == Spec => []TypeOK
<1>1. BootInv => TypeOK
  BY DEF BootInv
<1>2. QED
  BY <1>1, BootInvariance, PTL

(* With Wi-Fi, no transport is started and ESP_OK is not returned before   *)
(* the handshake with the target is complete.                              *)
THEOREM TransportsFindHandshakeComplete == Spec => []ReadyWhenUp
<1>1. BootInv => ReadyWhenUp
  BY DEF BootInv, TypeOK, HandshakeInv, SemInv, Given, ReadyWhenUp,
         HandshakeComplete
<1>2. QED
  BY <1>1, BootInvariance, PTL

(* With Wi-Fi, xSemaphoreGive(boot_sem) finds a live semaphore, but for    *)
(* the two windows of esp_sip_bootup.                                      *)
THEOREM GiveFindsLiveSemaphore == Spec => []GiveFindsSemaphore
<1>1. BootInv => GiveFindsSemaphore
  BY DEF BootInv, StrayInv, GiveFindsSemaphore
<1>2. QED
  BY <1>1, BootInvariance, PTL

(* A null handle has a failure behind it, and nothing but a null handle    *)
(* brings the program down.  Without sdio_mutex the start does not get     *)
(* further than the BOOTUP command.                                        *)
NullInv ==
  /\ main \in {"take", "delete"} /\ boot_sem = "null" => faults > 0
  /\ ~ sdio_mutex =>
       \/ receiver = "none"
       \/ /\ receiver = "idle"
          /\ main \in {"bootup", "delete"}
          /\ boot_sem = "null"
          /\ faults > 0
  /\ main = "bootup" => receiver # "none"
  /\ aborted /\ stray = "no" =>
       \/ main \in {"bootup", "delete"} /\ ~ sdio_mutex /\ receiver # "none"
       \/ main \in {"take", "delete"} /\ boot_sem = "null"

LEMMA NullStep == BootInv /\ NullInv /\ [Next]_vars => NullInv'
<1> SUFFICES ASSUME BootInv, NullInv, [Next]_vars PROVE NullInv'
  OBVIOUS
<1> USE DEF NullInv
<1>1. /\ faults \in Nat
      /\ faults' = faults \/ faults' = faults + 1
  <2>1. faults \in Nat
    BY BootAssumption DEF BootInv, TypeOK
  <2>2. faults' = faults \/ faults' = faults + 1
    BY DEF Next, vars, ExtconnBoot, FwDownload, RecvInit, LockFails, SendBootup,
           Prepare, Create, Take, Delete, WifiInit, BtInit, LoseEvent, TargetOn,
           SendInit, WaitBootup, PostInit, Run, Give, RecvTaskReturns, Announce,
           Report, Pass, Fail, Fault
  <2>3. QED
    BY <2>1, <2>2
<1>2. CASE RecvInit
  BY <1>1, <1>2
  DEF RecvInit, At, Pass, Fail, Fault, BehindWifi, BootInv, EarlyInv, semVars
<1>3. CASE LockFails
  BY <1>3 DEF LockFails, At, Receives
<1>4. CASE SendBootup
  BY <1>1, <1>4 DEF SendBootup, At, Pass, Fail, Fault
<1>5. CASE Create
  BY <1>1, <1>5 DEF Create, At, Fault
<1>6. CASE Take
  BY <1>1, <1>6 DEF Take, At, Pass
<1>7. CASE Delete
  <2>1. CASE boot_sem = "live"
    <3>1. sdio_mutex \/ receiver = "none"
      BY <2>1
    <3>2. QED
      BY <1>7, <2>1, <3>1 DEF Delete, At, BehindWifi
  <2>2. CASE boot_sem = "null"
    BY <1>7, <2>2 DEF Delete, At
  <2>3. QED
    BY <1>7, <2>1, <2>2 DEF Delete
<1>8. CASE Give
  BY <1>8 DEF Give, Receives
<1>9. CASE ExtconnBoot \/ FwDownload \/ Prepare \/ WifiInit \/ BtInit
  BY <1>1, <1>9
  DEF ExtconnBoot, FwDownload, Prepare, WifiInit, BtInit, At, Pass, Fail,
      BehindWifi, BootInv, EarlyInv
<1>10. CASE \/ LoseEvent \/ TargetOn \/ PostInit \/ RecvTaskReturns
  BY <1>1, <1>10
  DEF LoseEvent, TargetOn, PostInit, RecvTaskReturns, Event, Receives
<1>11. CASE \/ SendInit \/ WaitBootup \/ Run \/ Announce \/ Report
            \/ UNCHANGED vars
  BY <1>1, <1>11
  DEF SendInit, WaitBootup, Run, Announce, Report, Receives, vars
<1>12. QED
  BY <1>2, <1>3, <1>4, <1>5, <1>6, <1>7, <1>8, <1>9, <1>10, <1>11 DEF Next

(* Before the transports start an assertion fails only through a null      *)
(* sdio_mutex or a null boot_sem, at the places that use them, and only    *)
(* after a failure; a timeout never does it.                               *)
THEOREM OnlyFaultsAssert == Spec => []AssertionNeedsFault
<1>1. Init => NullInv
  BY DEF Init, NullInv
<1>2. NullInv => AssertionNeedsFault
  BY DEF NullInv, AssertionNeedsFault
<1>3. QED
  BY <1>1, <1>2, NullStep, BootInvariance, PTL DEF Spec

(* sip->state never goes back, whatever the order in which the two tasks   *)
(* assign it.                                                              *)
THEOREM StateNeverGoesBack == Spec => StateGoesForward
<1>1. BootInv /\ [Next]_vars => [Rank[state] <= Rank[state']]_vars
  <2>1. SUFFICES ASSUME BootInv, Next PROVE Rank[state] <= Rank[state']
    OBVIOUS
  <2>2. \A s \in DOMAIN Rank : Rank[s] <= Rank[s] /\ Rank[s] <= Rank["SIP_RUN"]
    BY DEF Rank
  <2>3. state \in DOMAIN Rank
    BY <2>1 DEF BootInv, TypeOK
  <2>4. CASE Prepare
    BY <2>1, <2>4 DEF Prepare, At, BootInv, EarlyInv, Rank
  <2>5. CASE TargetOn
    BY <2>1, <2>2, <2>3, <2>5 DEF TargetOn, Rank
  <2>6. CASE WaitBootup
    BY <2>1, <2>6 DEF WaitBootup, Receives, BootInv, HandshakeInv, Rank
  <2>7. CASE Run
    BY <2>2, <2>3, <2>7 DEF Run
  <2>8. CASE \/ ExtconnBoot \/ FwDownload \/ RecvInit \/ LockFails
             \/ SendBootup \/ LoseEvent \/ Create
             \/ Take \/ Delete \/ WifiInit \/ BtInit \/ SendInit \/ PostInit
             \/ Give \/ RecvTaskReturns \/ Announce \/ Report
    <3>1. state' = state
      BY <2>8
      DEF ExtconnBoot, FwDownload, RecvInit, LockFails, LoseEvent, SendBootup, Create, Take, Delete,
          WifiInit, BtInit, SendInit, PostInit, Give, RecvTaskReturns, Announce,
          Report, sipVars
    <3>2. QED
      BY <2>2, <2>3, <3>1
  <2>9. QED
    BY <2>1, <2>4, <2>5, <2>6, <2>7, <2>8 DEF Next
<1>2. QED
  BY <1>1, BootInvariance, PTL DEF Spec, StateGoesForward

(* In every build, with Wi-Fi or without: once sip->state is SIP_RUN, the  *)
(* handshake is complete and stays so.  Only who waits for it needs the    *)
(* semaphore.                                                              *)
THEOREM RunMeansComplete == Spec => [](state = "SIP_RUN" => HandshakeComplete)
<1>1. BootInv => (state = "SIP_RUN" => HandshakeComplete)
  BY DEF BootInv, HandshakeInv, HandshakeComplete
<1>2. QED
  BY <1>1, BootInvariance, PTL

-------------------------------------------------------------------------------
(***************************************************************************)
(* What the start hands over to the Wi-Fi transmit path: WifiTx, with an   *)
(* empty list and an idle wifi_send_task, and with the two counters of     *)
(* esp_sip.c and the target as the handshake leaves them.                  *)
(***************************************************************************)
CONSTANTS Bufs, NoBuf, Kind, FrameLen, TxBufferMax, DevBufs, SeqMod

(* The commands the target has processed, a buffer each.                   *)
Processed == CASE chip = "loader" -> 0
               [] chip = "booted" -> 1
               [] chip \in {"init", "running"} -> 2

Wifi == INSTANCE WifiTx WITH
  queue <- << >>, needSend <- FALSE, pool <- Bufs, pending <- {}, txdq <- {},
  sender <- "wait", eb <- NoBuf, num <- 0, hdrSeq <- 0, busUser <- "nobody",
  token <- (Processed + DevBufs) % TxBufferMax, devUsed <- 0,
  devSeq <- txseq - 1

(* When trans_wifi_init has succeeded, and nothing failed, total_tx, txseq *)
(* and the target are where WifiTx begins, and the block size is the one   *)
(* it rounds with: no credit is lost or invented by the handshake, and     *)
(* frames go on with the number behind INIT's.                             *)
THEOREM StartHandsOver ==
  ASSUME TxBufferMax \in Nat, TxBufferMax > 2
  PROVE  Spec => [](WifiEnabled /\ wifiUp /\ faults = 0 =>
                      Wifi!Init /\ tx_blksz = TxBlks)
<1>1. BootInv /\ WifiEnabled /\ wifiUp /\ faults = 0 =>
        Wifi!Init /\ tx_blksz = TxBlks
  <2>1. SUFFICES ASSUME BootInv, WifiEnabled, wifiUp, faults = 0
                 PROVE  Wifi!Init /\ tx_blksz = TxBlks
    OBVIOUS
  <2>2. HandshakeComplete /\ total_tx = 2
    BY <2>1 DEF BootInv, HandshakeInv, HandshakeComplete, SemInv, Given
  <2>3. Processed = 2
    BY <2>2 DEF HandshakeComplete, Processed
  <2>4. 2 % TxBufferMax = 2
    OBVIOUS
  <2>5. QED
    BY <2>1, <2>2, <2>3, <2>4 DEF HandshakeComplete, Wifi!Init
<1>2. QED
  BY <1>1, BootInvariance, PTL
=============================================================================
