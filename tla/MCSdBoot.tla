------------------------------ MODULE MCSdBoot ------------------------------
(***************************************************************************)
(* Cards for SdBoot with End = 4, Chunk = 3, Alt = 12, Ram = 17 and the    *)
(* copy of the device tree at 8.                                           *)
(***************************************************************************)
EXTENDS SdBoot

Pt(offset, vaddr, filesz, memsz) ==
    [load |-> TRUE, offset |-> offset, vaddr |-> vaddr, filesz |-> filesz, memsz |-> memsz]
Note == [Pt(1, 0, 1, 1) EXCEPT !.load = FALSE]
Sd(name, hc, len, segs) ==
    [name |-> name, hc |-> hc, elf |-> TRUE, len |-> len, segs |-> segs]

Empty == [Sd("empty", FALSE, 0, <<>>) EXCEPT !.elf = FALSE]

TheCards == {
    Sd("low", TRUE, 8, <<Note, Pt(1, 0, 6, 7)>>),           \* across End
    Sd("bss", FALSE, 4, <<Pt(2, 6, 2, 2), Pt(1, 2, 1, 4)>>),  \* clears across End
    Sd("high", FALSE, 5, <<Pt(1, 4, 4, 3)>>),               \* nothing staged
    Sd("over", TRUE, 7, <<Pt(1, 0, 3, 3), Pt(4, 8, 3, 6)>>),  \* into Alt
    Sd("out", TRUE, 9, <<Pt(1, 15, 3, 3)>>),                \* out of RAM
    Sd("cut", FALSE, 4, <<Pt(1, 2, 5, 5)>>),                \* truncated
    Sd("none", TRUE, 2, <<Note>>),                          \* nothing to load
    [Sd("text", TRUE, 9, <<>>) EXCEPT !.elf = FALSE] }      \* not an ELF
=============================================================================
