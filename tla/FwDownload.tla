----------------------------- MODULE FwDownload -----------------------------
(***************************************************************************)
(* The download of the firmware: esp_fw_download in ext_boot.c walks over  *)
(* the blocks of the image, esp_sip_write_mem in esp_sip.c writes each in  *)
(* commands of SIP_BOOT_BUF_SIZE bytes.                                    *)
(*                                                                         *)
(* Of the memory of the target one byte is watched, any byte: it is chosen *)
(* at the beginning, and what holds for it holds for all.                  *)
(***************************************************************************)
EXTENDS Lengths, Sequences

CONSTANTS
  Image,        \* the blocks: load_addr, data_len and where the data lies
  ImageLen,     \* bytes of the array that holds the image
  Watched,      \* addresses of the target's memory that may be watched
  Untouched     \* the content of memory that was not written

FwHdr   == 24   \* sizeof(struct esp_fw_hdr) + 16
BlkHdr  == 8    \* sizeof(struct esp_fw_blk_hdr)
BufSize == 256  \* SIP_BOOT_BUF_SIZE
Hdrs    == 20   \* sizeof(struct sip_hdr) + sizeof(struct sip_cmd_write_memory)

Blocks == 1 .. Len(Image)

ASSUME ImageIsLaidOut ==
  /\ ImageLen \in Nat
  /\ Image \in Seq([load_addr : Nat, data_len : Nat, data : Nat])
  /\ \A b \in Blocks :
       Image[b].data = (IF b = 1 THEN FwHdr
                                 ELSE Image[b - 1].data + Image[b - 1].data_len) + BlkHdr

(* The rounding of a block ends before any other begins, and within the    *)
(* image.                                                                  *)
ASSUME BlocksAreApart ==
  /\ \A b, c \in Blocks : b # c =>
       \/ Image[b].load_addr + Roundup(Image[b].data_len, 4) <= Image[c].load_addr
       \/ Image[c].load_addr + Roundup(Image[c].data_len, 4) <= Image[b].load_addr
  /\ \A b \in Blocks : Image[b].data + Roundup(Image[b].data_len, 4) <= ImageLen

ASSUME WatchedAreAddresses == Watched \subseteq Nat /\ Untouched \notin Nat

VARIABLES
  pc,           \* where esp_fw_download stands, or what it returned
  block,        \* the block it is at: fhdr->blocks less `blocks', plus one
  offset,       \* into the image
  remains,      \* of esp_sip_write_mem
  rawbuf,       \* sip->rawbuf is allocated
  command,      \* the last WRITE_MEMORY: its bytes, where it reads and writes
  watched,      \* the address watched
  content       \* its byte: where in the image it comes from

vars == <<pc, block, offset, remains, rawbuf, command, watched, content>>

Init ==
  /\ pc = "magic"
  /\ block = 1
  /\ offset = FwHdr
  /\ remains = 0
  /\ rawbuf = FALSE
  /\ command = [len |-> 0, src |-> 0, addr |-> 0]
  /\ watched \in Watched
  /\ content = Untouched

-------------------------------------------------------------------------------
CheckMagic ==
  /\ pc = "magic"
  /\ pc' \in {"header", "failed"}
  /\ UNCHANGED <<block, offset, remains, rawbuf, command, watched, content>>

(* The next block; esp_sip_write_mem begins, and may get no buffer.        *)
NextBlock ==
  /\ pc = "header"
  /\ block \in Blocks
  /\ offset' = offset + BlkHdr
  /\ remains' = Image[block].data_len
  /\ \/ pc' = "write" /\ rawbuf' = TRUE
     \/ ~ rawbuf /\ pc' = "failed" /\ UNCHANGED rawbuf
  /\ UNCHANGED <<block, command, watched, content>>

(* As in the other modules, variants of the kind this code invites come    *)
(* before the operation they vary, and nothing uses them.                  *)

(* The last command is as long as the others.                              *)
ChunkWhole(n) == BufSize - Hdrs

(* The last command is rounded down.                                       *)
ChunkRoundedDown(n) == IF n < BufSize - Hdrs THEN n - (n % 4) ELSE BufSize - Hdrs

(* The bytes the next command writes.                                      *)
Chunk(n) == IF n < BufSize - Hdrs THEN Roundup(n, 4) ELSE BufSize - Hdrs

(* What is left after it.                                                  *)
Left(n) == n - Least(Chunk(n), n)

(* What a command does in the target, if it gets there.                    *)
Stored(src, addr, n) ==
  IF watched \in addr .. (addr + n - 1) THEN src + (watched - addr) ELSE content

(* One command.  If its transfer fails the target may have got it.         *)
Write ==
  LET done == Image[block].data_len - remains
      src  == offset + done
      addr == Image[block].load_addr + done
      n    == Chunk(remains)
  IN
  /\ pc = "write"
  /\ remains > 0
  /\ remains' = Left(remains)
  /\ command' = [len |-> n + Hdrs, src |-> src, addr |-> addr]
  /\ \/ pc' = pc /\ content' = Stored(src, addr, n)
     \/ pc' = "failed" /\ content' \in {content, Stored(src, addr, n)}
  /\ UNCHANGED <<block, offset, rawbuf, watched>>

(* The next header is looked for behind the rounding.                      *)
EndBlockRounding ==
  /\ pc = "write"
  /\ remains = 0
  /\ offset' = offset + Roundup(Image[block].data_len, 4)
  /\ block' = block + 1
  /\ pc' = "header"
  /\ UNCHANGED <<remains, rawbuf, command, watched, content>>

EndBlock ==
  /\ pc = "write"
  /\ remains = 0
  /\ offset' = offset + Image[block].data_len
  /\ block' = block + 1
  /\ pc' = "header"
  /\ UNCHANGED <<remains, rawbuf, command, watched, content>>

Return ==
  /\ pc = "header"
  /\ block \notin Blocks
  /\ pc' = "ok"
  /\ UNCHANGED <<block, offset, remains, rawbuf, command, watched, content>>

Next == CheckMagic \/ NextBlock \/ Write \/ EndBlock \/ Return

Spec == Init /\ [][Next]_vars

-------------------------------------------------------------------------------
(* Properties.                                                             *)

(* The type invariant.                                                     *)
TypeOK ==
  /\ pc \in {"magic", "header", "write", "ok", "failed"}
  /\ block \in 1 .. Len(Image) + 1
  /\ offset \in Nat /\ remains \in Nat
  /\ rawbuf \in BOOLEAN
  /\ command \in [len : Nat, src : Nat, addr : Nat]
  /\ watched \in Watched
  /\ content \in Nat \cup {Untouched}

(* How much of a block is written for certain.                             *)
Written(b) ==
  IF b < block THEN Image[b].data_len
  ELSE IF b = block /\ pc = "write" THEN Image[b].data_len - remains ELSE 0

(* Every byte of what was written, and of the whole image in the end, is   *)
(* at its place, neither doubled, skipped, nor overwritten by the rounding *)
(* of another block (esp_sip_write_mem, esp_fw_download).                  *)
InPlace ==
  \A b \in Blocks :
    watched \in Image[b].load_addr .. (Image[b].load_addr + Written(b) - 1) =>
      content = Image[b].data + (watched - Image[b].load_addr)

(* The target's memory between the blocks stays as it is, but for up to    *)
(* three bytes behind a block, however the download ends.                  *)
NothingElseWritten ==
  content # Untouched =>
    \E b \in Blocks :
      /\ watched - Image[b].load_addr \in 0 .. Roundup(Image[b].data_len, 4) - 1
      /\ content = Image[b].data + (watched - Image[b].load_addr)

(* A command fits into rawbuf, is a number of words (so that its end is    *)
(* the end the address of the transfer names), and is read from the image. *)
CommandFits ==
  command.len # 0 =>
    /\ command.len \in Hdrs + 1 .. BufSize
    /\ command.len % 4 = 0
    /\ command.src + command.len - Hdrs <= ImageLen

(* The task that downloads goes on; nothing needs to fail.                 *)
FairSpec == Spec /\ WF_vars(Next /\ pc' # "failed")

(* The download ends, whatever is left for the last command of a block.    *)
DownloadEnds == <>(pc \in {"ok", "failed"})
=============================================================================
