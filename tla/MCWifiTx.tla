------------------------------ MODULE MCWifiTx ------------------------------
(* Small instances of WifiTx.                                              *)
EXTENDS WifiTx, TLC

CONSTANTS data, cmd, down, test

MCKind ==
  data :> "tx_pb" @@ cmd :> "sip_cmd" @@ down :> "sip_setsta_down"
    @@ test :> "sip_test"

(* All buffers for the data frame, one for each command.                   *)
MCFrameLen == data :> 1500 @@ cmd :> 60 @@ down :> 64 @@ test :> 512

MCBufs == {data, cmd, down, test}
MCKindOf == [b \in MCBufs |-> MCKind[b]]
MCFrameLenOf == [b \in MCBufs |-> MCFrameLen[b]]
=============================================================================
