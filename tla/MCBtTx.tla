-------------------------------- MODULE MCBtTx --------------------------------
(* A small instance of BtTx.                                               *)
EXTENDS BtTx

CONSTANTS m1, m2, m3, m4

(* One more than tx_que and bt_tx_task can hold, so that a call waits.     *)
MCMsgs == {m1, m2, m3, m4}
MCEmpty == {m4}
=============================================================================
