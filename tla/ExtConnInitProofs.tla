-------------------------- MODULE ExtConnInitProofs --------------------------
(***************************************************************************)
(* Theorems about ExtConnInit: what esp_extconn_init acquires, for every   *)
(* number of calls and of failures.                                        *)
(***************************************************************************)
EXTENDS ExtConnInit, TLAPS

(* Where the caller stands while a register of the link is not written.    *)
BeforeConf1 == {"sdmmc", "card", "attach", "start", "conf1", "write conf1"}
BeforeLenConf == BeforeConf1 \cup {"check conf1", "len_conf", "write len_conf"}
BeforeIntEna == BeforeLenConf \cup {"check len_conf", "int_ena", "write int_ena"}
Behind == {"fw", "recv", "bootup", "wifi", "bt"}

(* Each write finds in buf what the reset left in the register, and the    *)
(* registers written later do not lose the bits of the earlier ones.       *)
Ready(r) == reg[r] = reset[r] \cup Bits[r]
LinkInv ==
  /\ pc \in BeforeConf1 => reg["conf1"] = reset["conf1"]
  /\ pc = "write conf1" => buf = reset["conf1"]
  /\ pc \in BeforeIntEna \ BeforeConf1 => Ready("conf1")
  /\ pc \in BeforeLenConf => reg["len_conf"] = reset["len_conf"]
  /\ pc = "write len_conf" => buf = reset["len_conf"]
  /\ pc \in BeforeIntEna \ BeforeLenConf => Ready("len_conf")
  /\ pc \in BeforeIntEna => reg["int_ena"] = reset["int_ena"]
  /\ pc = "write int_ena" => buf = reset["int_ena"] \/ faults # 0

(* host, which is never cleared, is set before anything but the LDO handle *)
(* and the card is created, so a call that finds more than these gives up  *)
(* in esp_extconn_sdio_init.                                               *)
Supply == {"ldo", "card"}
Receiving == Supply \cup {"sip", "sdio_mutex", "recv_buf", "trans_recv_task"}
Hostless == {"idle", "aborted", "sdmmc", "card", "attach"}
MadeInv ==
  /\ ~ host => made \subseteq Supply /\ pc \in Hostless
  /\ pc \in {"card", "attach"} => Supply \subseteq made
  /\ pc \in (BeforeIntEna \cup {"fw"}) \ Hostless => made = Supply
  /\ pc = "recv" => made = Supply \cup {"sip"}
  /\ pc = "bootup" => made \in {Receiving, Receiving \ {"sdio_mutex"}}
  /\ pc = "wifi" => made = Receiving
  /\ pc = "bt" => made = Receiving \cup {"wifi_tx", "wifi_send_task"}

(* The type invariant with what it leaves open.                            *)
AllBits == {"own", "rx_stitch", "tx_stitch", "packet_load", "gpio_int"}
AcquireType ==
  /\ TypeOK
  /\ pc \in {"idle", "aborted"} \cup BeforeIntEna \cup Behind
  /\ reset \in [Registers -> {{}, {"own"}}]
  /\ buf \subseteq AllBits

(* The inductive invariant of ExtConnInit.                                 *)
AcquireInv ==
  /\ AcquireType
  /\ pc # "idle" => result = "none"
  /\ OnlyCardAndLdoTwice /\ LinkReady /\ OkMeansComplete
  /\ LinkInv /\ MadeInv

-------------------------------------------------------------------------------
(* The registers and their bits, one by one.                               *)
LEMMA BitsOfRegisters ==
  /\ Registers = {"conf1", "len_conf", "int_ena"}
  /\ Bits["conf1"] = {"rx_stitch", "tx_stitch"}
  /\ Bits["len_conf"] = {"packet_load"}
  /\ Bits["int_ena"] = {"gpio_int"}
BY DEF Registers, Bits

(* What every proof looks into.                                            *)
USE DEF Fault, GoesOn, Returns, Fails,
        Aborts, Make, linkVars, madeVars,
        BeforeConf1, BeforeLenConf, BeforeIntEna, Behind, Unchecked, Supply, Receiving,
        Hostless

(* The types hold before the first call ...                                *)
LEMMA AcquireTypeInit ==
  ASSUME Init
  PROVE  AcquireType
<1> USE BitsOfRegisters DEF Init
<1>1. calls \in 0 .. MaxCalls /\ tries \in 0 .. 10 /\ faults \in 0 .. MaxFaults
  BY InitAssumption
<1>2. reset \in [Registers -> {{}, {"own"}}]
  OBVIOUS
<1>3. reg \in [Registers -> SUBSET AllBits]
  BY DEF AllBits
<1>4. host \in BOOLEAN /\ result \in {"none", "ok", "error"}
  OBVIOUS
<1>5. made \subseteq Resources /\ again \subseteq made /\ buf \subseteq AllBits
  OBVIOUS
<1>6. QED
  BY <1>1, <1>2, <1>3, <1>4, <1>5 DEF AcquireType, TypeOK, AllBits

(* ... the counters go up one by one, below their bounds ...               *)
LEMMA AcquireCounts ==
  ASSUME Next
  PROVE  /\ calls' = calls \/ (calls < MaxCalls /\ calls' = calls + 1)
         /\ tries' \in {tries, 0, 10} \/ (tries < 9 /\ tries' = tries + 1)
         /\ faults' = faults \/ Fault
<1>1. CASE Call
  BY <1>1 DEF Call
<1>2. CASE SdmmcInit \/ CardInit
  BY <1>2 DEF SdmmcInit, CardInit
<1>3. CASE SdioInit \/ SdioStart \/ FwInit
  BY <1>3 DEF SdioInit, SdioStart, FwInit
<1>4. CASE Link
  BY <1>4 DEF Link, ReadReg, WriteReg
<1>5. CASE ReadIntEna \/ WriteIntEna
  BY <1>5 DEF ReadIntEna, WriteIntEna
<1>6. CASE RecvInit
  BY <1>6 DEF RecvInit
<1>7. CASE Bootup \/ WifiInit \/ BtInit
  BY <1>7 DEF Bootup, WifiInit, BtInit
<1>8. QED
  BY <1>1, <1>2, <1>3, <1>4, <1>5, <1>6, <1>7 DEF Next

(* ... and every step keeps the types.                                     *)
LEMMA AcquireTypeStep ==
  ASSUME AcquireType, Next
  PROVE  AcquireType'
<1>1. calls' \in 0 .. MaxCalls
  <2>1. calls \in 0 .. MaxCalls /\ MaxCalls \in Nat
    BY InitAssumption DEF AcquireType, TypeOK
  <2>2. QED
    BY <2>1, AcquireCounts
<1>2. tries' \in 0 .. 10
  <2>1. tries \in 0 .. 10
    BY DEF AcquireType, TypeOK
  <2>2. QED
    BY <2>1, AcquireCounts
<1>3. faults' \in 0 .. MaxFaults
  <2>1. faults \in 0 .. MaxFaults /\ MaxFaults \in Nat
    BY InitAssumption DEF AcquireType, TypeOK
  <2>2. QED
    BY <2>1, AcquireCounts
<1>4. reset' = reset
  BY DEF Next, Call, SdmmcInit, CardInit,
        SdioInit, SdioStart, Link, ReadReg,
        WriteReg, ReadIntEna, WriteIntEna, FwInit,
        RecvInit, Bootup, WifiInit, BtInit
<1>5. reg' \in [Registers -> SUBSET AllBits] /\ buf' \subseteq AllBits
  <2>1. /\ reg \in [Registers -> SUBSET AllBits] /\ buf \subseteq AllBits
        /\ reset \in [Registers -> {{}, {"own"}}]
    BY DEF AcquireType, TypeOK, AllBits
  <2>2. reset \in [Registers -> SUBSET AllBits]
    BY <2>1 DEF AllBits
  <2>3. \A r \in Registers :
          /\ reg[r] \subseteq AllBits
          /\ Written(r) \in [Registers -> SUBSET AllBits]
    BY <2>1, BitsOfRegisters DEF Written, AllBits
  <2>4. {"own", "gpio_int"} \subseteq AllBits
    BY DEF AllBits
  <2>5. QED
    BY <2>1, <2>2, <2>3, <2>4, BitsOfRegisters DEF Next, Call, SdmmcInit, CardInit,
        SdioInit, SdioStart, Link, ReadReg,
        WriteReg, ReadIntEna, WriteIntEna, FwInit,
        RecvInit, Bootup, WifiInit, BtInit
<1>6. host' \in BOOLEAN
  <2>1. host \in BOOLEAN
    BY DEF AcquireType, TypeOK
  <2>2. QED
    BY <2>1 DEF Next, Call, SdmmcInit, CardInit,
        SdioInit, SdioStart, Link, ReadReg,
        WriteReg, ReadIntEna, WriteIntEna, FwInit,
        RecvInit, Bootup, WifiInit, BtInit
<1>7. result' \in {"none", "ok", "error"}
  <2>1. result \in {"none", "ok", "error"}
    BY DEF AcquireType, TypeOK
  <2>2. QED
    BY <2>1 DEF Next, Call, SdmmcInit, CardInit,
        SdioInit, SdioStart, Link, ReadReg,
        WriteReg, ReadIntEna, WriteIntEna, FwInit,
        RecvInit, Bootup, WifiInit, BtInit
<1>8. pc' \in {"idle", "aborted"} \cup BeforeIntEna \cup Behind
  <2>1. pc \in {"idle", "aborted"} \cup BeforeIntEna \cup Behind
    BY DEF AcquireType
  <2>2. QED
    BY <2>1 DEF Next, Call, SdmmcInit, CardInit,
        SdioInit, SdioStart, Link, ReadReg,
        WriteReg, ReadIntEna, WriteIntEna, FwInit,
        RecvInit, Bootup, WifiInit, BtInit
<1>9. made' \subseteq Resources /\ again' \subseteq made'
  <2>1. made \subseteq Resources /\ again \subseteq made
    BY DEF AcquireType, TypeOK
  <2>2. QED
    BY <2>1 DEF Resources, Next, Call, SdmmcInit, CardInit,
        SdioInit, SdioStart, Link, ReadReg,
        WriteReg, ReadIntEna, WriteIntEna, FwInit,
        RecvInit, Bootup, WifiInit, BtInit
<1>10. QED
  BY <1>1, <1>2, <1>3, <1>4, <1>5, <1>6, <1>7, <1>8, <1>9
  DEF AcquireType, TypeOK, AllBits
(* The reset puts the registers back, and the last result is forgotten.    *)
LEMMA CallAcquire ==
  ASSUME AcquireInv, Call
  PROVE  /\ pc' # "idle" => result' = "none"
         /\ OnlyCardAndLdoTwice' /\ LinkReady' /\ OkMeansComplete'
         /\ LinkInv' /\ MadeInv'
<1> USE BitsOfRegisters DEF AcquireInv, Call
<1>1. pc' # "idle" => result' = "none"
  OBVIOUS
<1>2. OnlyCardAndLdoTwice' /\ MadeInv'
  BY DEF OnlyCardAndLdoTwice, MadeInv
<1>3. LinkInv'
  BY DEF LinkInv, Ready
<1>4. LinkReady'
  BY DEF LinkReady, LinkInv, Ready
<1>5. OkMeansComplete'
  BY DEF Resources, OkMeansComplete, MadeInv
<1>6. QED
  BY <1>1, <1>2, <1>3, <1>4, <1>5

(* The LDO handle and the card, once more if need be.                      *)
LEMMA SdmmcInitAcquire ==
  ASSUME AcquireInv, SdmmcInit
  PROVE  /\ pc' # "idle" => result' = "none"
         /\ OnlyCardAndLdoTwice' /\ LinkReady' /\ OkMeansComplete'
         /\ LinkInv' /\ MadeInv'
<1> USE BitsOfRegisters DEF AcquireInv, SdmmcInit
<1>1. pc' # "idle" => result' = "none"
  OBVIOUS
<1>2. OnlyCardAndLdoTwice' /\ MadeInv'
  BY DEF OnlyCardAndLdoTwice, MadeInv
<1>3. LinkInv'
  BY DEF LinkInv, Ready
<1>4. LinkReady'
  BY DEF LinkReady, LinkInv, Ready
<1>5. OkMeansComplete'
  BY DEF Resources, OkMeansComplete, MadeInv
<1>6. QED
  BY <1>1, <1>2, <1>3, <1>4, <1>5

(* It ends after ten attempts, whatever they gave.                         *)
LEMMA CardInitAcquire ==
  ASSUME AcquireInv, CardInit
  PROVE  /\ pc' # "idle" => result' = "none"
         /\ OnlyCardAndLdoTwice' /\ LinkReady' /\ OkMeansComplete'
         /\ LinkInv' /\ MadeInv'
<1> USE BitsOfRegisters DEF AcquireInv, CardInit
<1>1. pc' # "idle" => result' = "none"
  OBVIOUS
<1>2. OnlyCardAndLdoTwice' /\ MadeInv'
  BY DEF OnlyCardAndLdoTwice, MadeInv
<1>3. LinkInv'
  BY DEF LinkInv, Ready
<1>4. LinkReady'
  BY DEF LinkReady, LinkInv, Ready
<1>5. OkMeansComplete'
  BY DEF Resources, OkMeansComplete, MadeInv
<1>6. QED
  BY <1>1, <1>2, <1>3, <1>4, <1>5

(* A second call ends here, before anything is created.                    *)
LEMMA SdioInitAcquire ==
  ASSUME AcquireInv, SdioInit
  PROVE  /\ pc' # "idle" => result' = "none"
         /\ OnlyCardAndLdoTwice' /\ LinkReady' /\ OkMeansComplete'
         /\ LinkInv' /\ MadeInv'
<1> USE BitsOfRegisters DEF AcquireInv, SdioInit
<1>1. pc' # "idle" => result' = "none"
  OBVIOUS
<1>2. OnlyCardAndLdoTwice' /\ MadeInv'
  BY DEF OnlyCardAndLdoTwice, MadeInv
<1>3. LinkInv'
  BY DEF LinkInv, Ready
<1>4. LinkReady'
  BY DEF LinkReady, LinkInv, Ready
<1>5. OkMeansComplete'
  BY DEF Resources, OkMeansComplete, MadeInv
<1>6. QED
  BY <1>1, <1>2, <1>3, <1>4, <1>5

(* The registers are as the reset left them.                               *)
LEMMA SdioStartAcquire ==
  ASSUME AcquireInv, SdioStart
  PROVE  /\ pc' # "idle" => result' = "none"
         /\ OnlyCardAndLdoTwice' /\ LinkReady' /\ OkMeansComplete'
         /\ LinkInv' /\ MadeInv'
<1> USE BitsOfRegisters DEF AcquireInv, SdioStart
<1>1. pc' # "idle" => result' = "none"
  OBVIOUS
<1>2. OnlyCardAndLdoTwice' /\ MadeInv'
  BY DEF OnlyCardAndLdoTwice, MadeInv
<1>3. LinkInv'
  BY DEF LinkInv, Ready
<1>4. LinkReady'
  BY DEF LinkReady, LinkInv, Ready
<1>5. OkMeansComplete'
  BY DEF Resources, OkMeansComplete, MadeInv
<1>6. QED
  BY <1>1, <1>2, <1>3, <1>4, <1>5

(* buf holds what the reset left in the register when it is written.       *)
LEMMA LinkAcquire ==
  ASSUME AcquireInv, Link
  PROVE  /\ pc' # "idle" => result' = "none"
         /\ OnlyCardAndLdoTwice' /\ LinkReady' /\ OkMeansComplete'
         /\ LinkInv' /\ MadeInv'
<1>0. DOMAIN reg = Registers /\ \A r \in Registers : reset[r] \cup reset[r] = reset[r]
  BY DEF AcquireInv, AcquireType, TypeOK
<1> USE BitsOfRegisters DEF AcquireInv, Link, ReadReg,
            WriteReg, Written
<1>1. pc' # "idle" => result' = "none"
  OBVIOUS
<1>2. OnlyCardAndLdoTwice' /\ MadeInv'
  BY DEF OnlyCardAndLdoTwice, MadeInv
<1>3. LinkInv'
  <2>1. CASE ReadReg("conf1", "conf1", "write conf1")
    BY <1>0, <2>1 DEF LinkInv, Ready
  <2>2. CASE WriteReg("conf1", "write conf1", "check conf1")
    BY <1>0, <2>2 DEF LinkInv, Ready
  <2>3. CASE ReadReg("conf1", "check conf1", "len_conf")
    BY <1>0, <2>3 DEF LinkInv, Ready
  <2>4. CASE ReadReg("len_conf", "len_conf", "write len_conf")
    BY <1>0, <2>4 DEF LinkInv, Ready
  <2>5. CASE WriteReg("len_conf", "write len_conf", "check len_conf")
    BY <1>0, <2>5 DEF LinkInv, Ready
  <2>6. CASE ReadReg("len_conf", "check len_conf", "int_ena")
    BY <1>0, <2>6 DEF LinkInv, Ready
  <2>7. QED
    BY <2>1, <2>2, <2>3, <2>4, <2>5, <2>6
<1>4. LinkReady'
  BY DEF LinkReady, LinkInv, Ready
<1>5. OkMeansComplete'
  BY DEF Resources, OkMeansComplete, MadeInv
<1>6. QED
  BY <1>1, <1>2, <1>3, <1>4, <1>5

(* Only a failure puts something else in val.                              *)
LEMMA ReadIntEnaAcquire ==
  ASSUME AcquireInv, ReadIntEna
  PROVE  /\ pc' # "idle" => result' = "none"
         /\ OnlyCardAndLdoTwice' /\ LinkReady' /\ OkMeansComplete'
         /\ LinkInv' /\ MadeInv'
<1>0. /\ DOMAIN reg = Registers
      /\ Fault => faults' # 0
      /\ faults' = faults \/ faults' # 0
  <2>1. AcquireType
    BY DEF AcquireInv
  <2>2. faults \in 0 .. MaxFaults /\ DOMAIN reg = Registers
    BY <2>1 DEF AcquireType, TypeOK
  <2>3. faults' = faults \/ Fault
    BY AcquireCounts DEF Next
  <2>4. QED
    BY <2>2, <2>3
<1> USE BitsOfRegisters DEF AcquireInv, ReadIntEna
<1>1. pc' # "idle" => result' = "none"
  OBVIOUS
<1>2. OnlyCardAndLdoTwice' /\ MadeInv'
  BY DEF OnlyCardAndLdoTwice, MadeInv
<1>3. LinkInv'
  BY <1>0 DEF LinkInv, Ready
<1>4. LinkReady'
  BY <1>0 DEF LinkReady, LinkInv, Ready
<1>5. OkMeansComplete'
  BY DEF Resources, OkMeansComplete, MadeInv
<1>6. QED
  BY <1>1, <1>2, <1>3, <1>4, <1>5

(* The third register; after a failure nothing is said of it.              *)
LEMMA WriteIntEnaAcquire ==
  ASSUME AcquireInv, WriteIntEna
  PROVE  /\ pc' # "idle" => result' = "none"
         /\ OnlyCardAndLdoTwice' /\ LinkReady' /\ OkMeansComplete'
         /\ LinkInv' /\ MadeInv'
<1>0. /\ DOMAIN reg = Registers
      /\ Fault => faults' # 0
      /\ faults' = faults \/ faults' # 0
  <2>1. AcquireType
    BY DEF AcquireInv
  <2>2. faults \in 0 .. MaxFaults /\ DOMAIN reg = Registers
    BY <2>1 DEF AcquireType, TypeOK
  <2>3. faults' = faults \/ Fault
    BY AcquireCounts DEF Next
  <2>4. QED
    BY <2>2, <2>3
<1> USE BitsOfRegisters DEF AcquireInv, WriteIntEna, Written
<1>1. pc' # "idle" => result' = "none"
  OBVIOUS
<1>2. OnlyCardAndLdoTwice' /\ MadeInv'
  BY DEF OnlyCardAndLdoTwice, MadeInv
<1>3. LinkInv'
  BY <1>0 DEF LinkInv, Ready
<1>4. LinkReady'
  <2>1. /\ Ready("conf1") /\ Ready("len_conf") /\ result # "ok"
        /\ buf = reset["int_ena"] \/ faults # 0
    BY DEF LinkInv
  <2>2. /\ reg'["conf1"] = reg["conf1"] /\ reg'["len_conf"] = reg["len_conf"]
        /\ reg'["int_ena"] = buf \cup {"gpio_int"} \/ faults' # 0
        /\ reset' = reset
    BY <1>0
  <2>3. QED
    BY <1>0, <2>1, <2>2 DEF LinkReady, Ready
<1>5. OkMeansComplete'
  BY DEF Resources, OkMeansComplete, MadeInv
<1>6. QED
  BY <1>1, <1>2, <1>3, <1>4, <1>5

(* The first thing that is created.                                        *)
LEMMA FwInitAcquire ==
  ASSUME AcquireInv, FwInit
  PROVE  /\ pc' # "idle" => result' = "none"
         /\ OnlyCardAndLdoTwice' /\ LinkReady' /\ OkMeansComplete'
         /\ LinkInv' /\ MadeInv'
<1> USE BitsOfRegisters DEF AcquireInv, FwInit
<1>1. pc' # "idle" => result' = "none"
  OBVIOUS
<1>2. OnlyCardAndLdoTwice' /\ MadeInv'
  BY DEF OnlyCardAndLdoTwice, MadeInv
<1>3. LinkInv'
  BY DEF LinkInv, Ready
<1>4. LinkReady'
  BY DEF LinkReady, LinkInv, Ready
<1>5. OkMeansComplete'
  BY DEF Resources, OkMeansComplete, MadeInv
<1>6. QED
  BY <1>1, <1>2, <1>3, <1>4, <1>5

(* Without a mutex it goes on all the same.                                *)
LEMMA RecvInitAcquire ==
  ASSUME AcquireInv, RecvInit
  PROVE  /\ pc' # "idle" => result' = "none"
         /\ OnlyCardAndLdoTwice' /\ LinkReady' /\ OkMeansComplete'
         /\ LinkInv' /\ MadeInv'
<1>0. /\ DOMAIN reg = Registers
      /\ Fault => faults' # 0
      /\ faults' = faults \/ faults' # 0
  <2>1. AcquireType
    BY DEF AcquireInv
  <2>2. faults \in 0 .. MaxFaults /\ DOMAIN reg = Registers
    BY <2>1 DEF AcquireType, TypeOK
  <2>3. faults' = faults \/ Fault
    BY AcquireCounts DEF Next
  <2>4. QED
    BY <2>2, <2>3
<1> USE BitsOfRegisters DEF AcquireInv, RecvInit
<1>1. pc' # "idle" => result' = "none"
  OBVIOUS
<1>2. OnlyCardAndLdoTwice' /\ MadeInv'
  BY DEF OnlyCardAndLdoTwice, MadeInv
<1>3. LinkInv'
  BY <1>0 DEF LinkInv, Ready
<1>4. LinkReady'
  BY <1>0 DEF LinkReady, LinkInv, Ready
<1>5. OkMeansComplete'
  BY DEF Resources, OkMeansComplete, MadeInv
<1>6. QED
  BY <1>1, <1>2, <1>3, <1>4, <1>5

(* Only with a mutex.                                                      *)
LEMMA BootupAcquire ==
  ASSUME AcquireInv, Bootup
  PROVE  /\ pc' # "idle" => result' = "none"
         /\ OnlyCardAndLdoTwice' /\ LinkReady' /\ OkMeansComplete'
         /\ LinkInv' /\ MadeInv'
<1> USE BitsOfRegisters DEF AcquireInv, Bootup
<1>1. pc' # "idle" => result' = "none"
  OBVIOUS
<1>2. OnlyCardAndLdoTwice' /\ MadeInv'
  BY DEF OnlyCardAndLdoTwice, MadeInv
<1>3. LinkInv'
  BY DEF LinkInv, Ready
<1>4. LinkReady'
  BY DEF LinkReady, LinkInv, Ready
<1>5. OkMeansComplete'
  BY DEF Resources, OkMeansComplete, MadeInv
<1>6. QED
  BY <1>1, <1>2, <1>3, <1>4, <1>5

(* It looks at what it creates.                                            *)
LEMMA WifiInitAcquire ==
  ASSUME AcquireInv, WifiInit
  PROVE  /\ pc' # "idle" => result' = "none"
         /\ OnlyCardAndLdoTwice' /\ LinkReady' /\ OkMeansComplete'
         /\ LinkInv' /\ MadeInv'
<1> USE BitsOfRegisters DEF AcquireInv, WifiInit
<1>1. pc' # "idle" => result' = "none"
  OBVIOUS
<1>2. OnlyCardAndLdoTwice' /\ MadeInv'
  BY DEF OnlyCardAndLdoTwice, MadeInv
<1>3. LinkInv'
  BY DEF LinkInv, Ready
<1>4. LinkReady'
  BY DEF LinkReady, LinkInv, Ready
<1>5. OkMeansComplete'
  BY DEF Resources, OkMeansComplete, MadeInv
<1>6. QED
  BY <1>1, <1>2, <1>3, <1>4, <1>5

(* ESP_OK, with three things that may be missing.                          *)
LEMMA BtInitAcquire ==
  ASSUME AcquireInv, BtInit
  PROVE  /\ pc' # "idle" => result' = "none"
         /\ OnlyCardAndLdoTwice' /\ LinkReady' /\ OkMeansComplete'
         /\ LinkInv' /\ MadeInv'
<1>0. /\ DOMAIN reg = Registers
      /\ Fault => faults' # 0
      /\ faults' = faults \/ faults' # 0
  <2>1. AcquireType
    BY DEF AcquireInv
  <2>2. faults \in 0 .. MaxFaults /\ DOMAIN reg = Registers
    BY <2>1 DEF AcquireType, TypeOK
  <2>3. faults' = faults \/ Fault
    BY AcquireCounts DEF Next
  <2>4. QED
    BY <2>2, <2>3
<1> USE BitsOfRegisters DEF AcquireInv, BtInit
<1>1. pc' # "idle" => result' = "none"
  OBVIOUS
<1>2. OnlyCardAndLdoTwice' /\ MadeInv'
  BY DEF OnlyCardAndLdoTwice, MadeInv
<1>3. LinkInv'
  BY <1>0 DEF LinkInv, Ready
<1>4. LinkReady'
  BY <1>0 DEF LinkReady, LinkInv, Ready
<1>5. OkMeansComplete'
  BY DEF Resources, OkMeansComplete, MadeInv
<1>6. QED
  BY <1>1, <1>2, <1>3, <1>4, <1>5

(* The inductive invariant holds before the first call, and every step     *)
(* keeps it.                                                               *)
LEMMA AcquireInit ==
  ASSUME Init
  PROVE  AcquireInv
<1>1. AcquireType
  BY AcquireTypeInit
<1>2. /\ OnlyCardAndLdoTwice /\ LinkReady /\ OkMeansComplete
      /\ pc # "idle" => result = "none"
  BY DEF Init, OnlyCardAndLdoTwice, LinkReady, OkMeansComplete
<1>3. LinkInv /\ MadeInv
  BY DEF Init, LinkInv, MadeInv
<1>4. QED
  BY <1>1, <1>2, <1>3 DEF AcquireInv

LEMMA AcquireStep ==
  ASSUME AcquireInv, [Next]_vars
  PROVE  AcquireInv'
<1>1. CASE UNCHANGED vars
  <2>1. AcquireType' /\ (pc' # "idle" => result' = "none")
    BY <1>1 DEF vars, AcquireInv, AcquireType, TypeOK
  <2>2. OnlyCardAndLdoTwice' /\ OkMeansComplete' /\ MadeInv'
    BY <1>1 DEF vars, AcquireInv, OnlyCardAndLdoTwice, OkMeansComplete, MadeInv
  <2>3. LinkReady' /\ LinkInv'
    BY <1>1 DEF vars, AcquireInv, LinkReady, LinkInv, Ready
  <2>4. QED
    BY <2>1, <2>2, <2>3 DEF AcquireInv
<1>2. CASE Next
  <2>1. AcquireType'
    BY <1>2, AcquireTypeStep DEF AcquireInv
  <2>2. QED
    BY <1>2, <2>1, CallAcquire, SdmmcInitAcquire, CardInitAcquire, SdioInitAcquire,
       SdioStartAcquire, LinkAcquire, ReadIntEnaAcquire,
       WriteIntEnaAcquire, FwInitAcquire, RecvInitAcquire,
       BootupAcquire, WifiInitAcquire, BtInitAcquire
    DEF AcquireInv, Next
<1>3. QED
  BY <1>1, <1>2

THEOREM AcquireInvariance == Spec => []AcquireInv
BY AcquireInit, AcquireStep, PTL DEF Spec

-------------------------------------------------------------------------------
(* The counters of calls, attempts and failures keep to their bounds, and  *)
(* the registers and resources to what there is.                           *)
THEOREM AcquireTypeCorrect == Spec => []TypeOK
<1>1. AcquireInv => TypeOK
  BY DEF AcquireInv, AcquireType
<1>2. QED
  BY <1>1, AcquireInvariance, PTL

(* However often and after whatever failure esp_extconn_init is called,    *)
(* nothing but the LDO handle and the card is created twice: host, which   *)
(* is never cleared, stops the call in esp_extconn_sdio_init.              *)
THEOREM OnlyCardAndLdoAreMadeTwice == Spec => []OnlyCardAndLdoTwice
<1>1. AcquireInv => OnlyCardAndLdoTwice
  BY DEF AcquireInv
<1>2. QED
  BY <1>1, AcquireInvariance, PTL

(* Behind the set-up of the link, and whenever ESP_OK is returned, the     *)
(* registers have their bits and keep those the reset left.                *)
THEOREM LinkIsSetUp == Spec => []LinkReady
<1>1. AcquireInv => LinkReady
  BY DEF AcquireInv
<1>2. QED
  BY <1>1, AcquireInvariance, PTL

(* ESP_OK means a complete start, but for what esp_extconn_trans_bt_init   *)
(* does not look at.                                                       *)
THEOREM OkIsComplete == Spec => []OkMeansComplete
<1>1. AcquireInv => OkMeansComplete
  BY DEF AcquireInv
<1>2. QED
  BY <1>1, AcquireInvariance, PTL
=============================================================================
