----------------------------- MODULE MCSdioXfer -----------------------------
(* All lengths of frames, commands and messages, and frames rounded to     *)
(* nothing, to less than a block, to one and to several; reads up to three *)
(* blocks and around the size of recv_buf.                                 *)
EXTENDS SdioXfer

MCFrames    == 13 .. 1600
MCTxBlks    == {1, 256, 512, 2048}
MCCommands  == 13 .. 160
MCMessages  == 9 .. 1040
MCAvailable == (1 .. 1600) \cup (32700 .. 32800)
=============================================================================
