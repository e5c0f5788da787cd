------------------------------- MODULE Lengths -------------------------------
(***************************************************************************)
(* What the transfers of ext_sdio_adapter.c and the download of esp_sip.c  *)
(* do with lengths.                                                        *)
(***************************************************************************)
EXTENDS Integers

(* roundup of esp_sip.h, which is meant for powers of two; (n + 3) & (~3)  *)
(* is Roundup(n, 4).                                                       *)
Roundup(n, k) == ((n + k - 1) \div k) * k

Least(a, b) == IF a < b THEN a ELSE b
=============================================================================
