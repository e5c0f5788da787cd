---------------------------- MODULE MCFwDownload ----------------------------
(* The image of eagle_fw.h: its three blocks, the second of which is no    *)
(* number of words and ends one byte before the third.                     *)
EXTENDS FwDownload

EagleFw == <<
  [load_addr |-> 1074200576, data_len |-> 238848, data |-> 32],
  [load_addr |-> 1073487872, data_len |-> 2235,   data |-> 238888],
  [load_addr |-> 1073490108, data_len |-> 18776,  data |-> 241131] >>

EagleFwLen == 259920

(* Bytes at and around the ends of each block and of some of its commands. *)
Borders ==
  UNION { {Image[b].load_addr + d : d \in {-1, 0, 1, 235, 236, 471, 472}} \cup
          {Image[b].load_addr + Image[b].data_len + d : d \in -5 .. 4} : b \in Blocks }
=============================================================================
