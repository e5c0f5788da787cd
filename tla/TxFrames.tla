------------------------------ MODULE TxFrames ------------------------------
(***************************************************************************)
(* The buffers (esf_buf_t) that travel on the Wi-Fi transmit path of       *)
(* trans_wifi.c, and the classes of frame the path tells apart.  A buffer  *)
(* stands for one class during the whole behaviour: esf_buf_alloc is given *)
(* the type, and the transmit path never changes it.                       *)
(***************************************************************************)

CONSTANTS
  Bufs,    \* the esf_buf_t objects
  NoBuf,   \* the null pointer
  Kind     \* the class of each buffer

(* The classes.  "tx_pb" is a data frame (ESF_BUF_TX_PB).  "mgmt" is a     *)
(* management frame, "mgmt_probereq" one whose only completion callback is *)
(* that of a scan's probe request.  The others are ESF_BUF_TX_SIP commands *)
(* of wifi_send_cmd: "sip_config" is SIP_CMD_CONFIG, "sip_setsta_down" is  *)
(* SIP_CMD_SETSTA with set = 0, "sip_test" is SIP_CMD_TEST.                *)
FrameKinds ==
  {"tx_pb", "mgmt", "mgmt_probereq",
   "sip_cmd", "sip_config", "sip_setsta_down", "sip_test"}

ASSUME FramesAssumption ==
  /\ NoBuf \notin Bufs
  /\ Kind \in [Bufs -> FrameKinds]

Pointer == Bufs \cup {NoBuf}

(* The frames list_clear gives back to the pool; it keeps all the others.  *)
Recyclable(b) == Kind[b] \in {"tx_pb", "sip_config", "mgmt_probereq"}

(* wifi_send_cmd clears the list first for this command ...                *)
ClearsList(b) == Kind[b] = "sip_setsta_down"

(* ... and puts this one in front of the list instead of behind it.        *)
GoesFirst(b) == Kind[b] = "sip_test"
=============================================================================
