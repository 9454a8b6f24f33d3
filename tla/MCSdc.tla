------------------------------- MODULE MCSdc -------------------------------
(* SdcDriver with the requests of a card in use, and what SdcWidths        *)
(* computes for small registers, FIFOs and pages.                          *)
EXTENDS SdcDriver, SdcWidths

\* A command with a busy phase, a read closed by CMD12, a write announced by CMD23.
MCKinds == {
    [data |-> "none",  busy |-> TRUE,  sbc |-> FALSE, stop |-> FALSE],
    [data |-> "read",  busy |-> FALSE, sbc |-> FALSE, stop |-> TRUE],
    [data |-> "write", busy |-> FALSE, sbc |-> TRUE,  stop |-> FALSE]}

-----------------------------------------------------------------------------
(* SdcWidths against what it should compute; ArithProofs has the theorems. *)

\* A timeout is what was asked for, or the longest the register holds.
ASSUME ClampAssumption ==
    \A size \in {2, 4, 8}, t \in 1 .. 40 : SetTimeout(16, size, t) = Lower(t, size - 1)

\* A burst is the longest that stays in its page.
ASSUME BurstAssumption ==
    \A slots \in {4, 8, 16} : \A inp, out \in 0 .. slots - 1, adr \in 0 .. 40 :
    \A len \in {fifo_data_len(slots, inp, out), fifo_free_len(slots, inp, out)} \ {0} :
        Beats(16, slots, adr, len) = Longest(16, adr, len)

\* No beat of a burst meets a full FIFO, or an empty one, however far the
\* card's side has moved since it was measured.
ASSUME RoomAssumption ==
    \A slots \in {4, 8} : \A inp, out \in 0 .. slots - 1, adr \in 0 .. 15 :
        /\ tx_stb(slots, inp, out) =>
           \A b \in 0 .. Beats(16, slots, adr, fifo_free_len(slots, inp, out)) - 1 :
           \A p \in 0 .. fifo_data_len(slots, inp, out) + b :
               ~fifo_full(slots, Moved(slots, inp, b), Moved(slots, out, p))
        /\ \A busy \in BOOLEAN : rx_stb(slots, inp, out, busy) =>
           \A b \in 0 .. Beats(16, slots, adr, fifo_data_len(slots, inp, out)) - 1 :
           \A p \in 0 .. fifo_free_len(slots, inp, out) + b :
               ~fifo_empty(Moved(slots, inp, p), Moved(slots, out, b))
=============================================================================
