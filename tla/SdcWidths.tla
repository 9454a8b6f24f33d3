----------------------------- MODULE SdcWidths -----------------------------
(***************************************************************************)
(* What the SD-card controller and its driver compute at the width of      *)
(* their registers: the timeouts, the positions of the data FIFO and the   *)
(* length of an AXI burst.  A register of w bits is known by its number of *)
(* values, size = 2^w; the module Sdc counts the FIFO in whole bursts and  *)
(* takes the timeouts as given.                                            *)
(***************************************************************************)
EXTENDS Integers

Lower(a, b) == IF a < b THEN a ELSE b

-----------------------------------------------------------------------------
(* The timeouts: word is 2^32, size 2^25 for commands and 2^28 for data.   *)

\* sdc_send_cmd, sdc_setup_data_xfer: the register keeps the low bits of what
\* is written; a timeout that does not read back is replaced by all ones.
SetTimeout(word, size, timeout) ==
    LET kept == (timeout % word) % size
    IN  IF kept # timeout THEN (word - 1) % size ELSE kept

-----------------------------------------------------------------------------
(* The data FIFO: one of its slots always stays free.                      *)

\* Where a position is after n words.
Moved(slots, pos, n) == (pos + n) % slots

fifo_data_len(slots, inp, out) == (inp - out) % slots
fifo_free_len(slots, inp, out) == (out - Moved(slots, inp, 1)) % slots
fifo_full(slots, inp, out) == Moved(slots, inp, 1) = out
fifo_empty(inp, out) == inp = out

-----------------------------------------------------------------------------
(* A burst, from the word address adr, of the len words there are or there *)
(* is room for.  A page is the 1024 words of 4 KB.                         *)

\* tx_stb and rx_stb: with room, or words, for a third of the FIFO, or with the
\* last words of the transfer.  Their other conditions, the direction and the
\* write responses still due, only hold a burst back.
tx_stb(slots, inp, out) == fifo_free_len(slots, inp, out) >= slots \div 3
rx_stb(slots, inp, out, data_busy) ==
    \/ fifo_data_len(slots, inp, out) >= slots \div 3
    \/ ~fifo_empty(inp, out) /\ ~data_busy

\* tx_burst_len, rx_burst_len: the sum wraps around at the page, and so tells
\* whether the burst would reach its end; the length is one less than the beats.
burst_len(page, slots, adr, len) ==
    IF ((adr % page) + len) % page >= adr % page
    THEN (len - 1) % slots ELSE slots - 1 - (adr % slots)

\* m_axi_arlen, m_axi_awlen: at most 255.
Beats(page, slots, adr, len) == Lower(burst_len(page, slots, adr, len), 255) + 1

\* What the burst should be: as long as the words, the 256 beats of AXI and the
\* end of the page allow.
Longest(page, adr, len) == Lower(len, Lower(256, page - (adr % page)))
=============================================================================
