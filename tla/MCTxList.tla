------------------------------ MODULE MCTxList ------------------------------
(* Small instances of TxList.                                              *)
EXTENDS TxList, TLC

CONSTANTS data, mgmt, cmd, down, test, c1, c2

(* One frame of each class the list tells apart.                           *)
MCKind ==
  data :> "tx_pb" @@ mgmt :> "mgmt" @@ cmd :> "sip_cmd"
    @@ down :> "sip_setsta_down" @@ test :> "sip_test"
MCBufs == {data, cmd, mgmt, down, test}
MCKindOf == [b \in MCBufs |-> MCKind[b]]

(* The callers are interchangeable.                                        *)
CallerSymmetry == Permutations({c1, c2})

(* For liveness: a frame that a clear recycles, one that clears, one that  *)
(* stays and one that overtakes.                                           *)
LiveBufs == {data, cmd, down, test}
LiveKindOf == [b \in LiveBufs |-> MCKind[b]]
=============================================================================
