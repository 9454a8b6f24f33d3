------------------------------- MODULE SdBoot -------------------------------
(***************************************************************************)
(* The boot ROM sd-boot, which loads BOOT.ELF from the SD card and starts  *)
(* it.  The ROM's own variables and stack are in the first words of RAM,   *)
(* where images are linked too: what belongs there is staged near the top  *)
(* of RAM and moved down when the ROM needs its memory no more.  The card  *)
(* is pulled, swapped and fails to answer; the ROM tries until it can      *)
(* start something.                                                        *)
(*                                                                         *)
(* RAM is counted in words from SOCT_MEM_BASE_ADDR, a sector is a word.    *)
(* FatFs is external: a read of the file is a read of its sectors.         *)
(***************************************************************************)
EXTENDS Integers, Sequences

CONSTANTS
    End,         \* BOOTROM_MEM_END, the end of the ROM's scratch memory
    Alt,         \* BOOTROM_MEM_ALT, where its contents are staged
    Ram,         \* SOCT_EXT_MEM_SIZE
    Space,       \* the addresses that are looked at, RAM and beyond
    Chunk,       \* the most words of one f_read
    MAX_BLOCK_CNT,
    SectorBytes,
    DtbSize, DtbSlack, Page,
    Cards,       \* the cards there are, see Card
    NoCard,
    MaxSwaps, MaxFaults

\* elf: BOOT.ELF is there and is an ELF of this word size and byte order; hc: the
\* card is addressed by blocks; len: the length of the file; segs: its program
\* headers, those that are not PT_LOAD included.  Integers are unbounded: an ELF
\* whose p_vaddr + p_memsz passes 2^64 is none of the cards.
Seg == [load : BOOLEAN, offset : Nat, vaddr : Int, filesz : Nat, memsz : Nat]
Card == [name : STRING, hc : BOOLEAN, elf : BOOLEAN, len : Nat, segs : Seq(Seg)]

\* Segments that share no address, as a linker makes them.
Disjoint(segs) ==
    \A j, k \in 1 .. Len(segs) :
        j # k /\ segs[j].load /\ segs[k].load =>
            \/ segs[j].vaddr + segs[j].memsz <= segs[k].vaddr
            \/ segs[k].vaddr + segs[k].memsz <= segs[j].vaddr

ASSUME SizeAssumption ==
    /\ {End, Alt, Ram, Space, Chunk, MAX_BLOCK_CNT, SectorBytes, Page, DtbSize}
          \subseteq Nat \ {0}
    /\ {DtbSlack, MaxSwaps, MaxFaults} \subseteq Nat
    /\ Alt + End <= Ram /\ Ram <= Space
    /\ End + Page + DtbSize + DtbSlack <= Alt
ASSUME CardAssumption ==
    /\ Cards \subseteq Card /\ NoCard \in Card /\ NoCard \notin Cards /\ ~ NoCard.elf
    /\ \A c \in Cards : Disjoint(c.segs)

VARIABLES
    card,      \* what is in the slot
    live,      \* that card has been through ini_sd
    block,     \* card_type & CT_BLOCK
    pc,        \* where the ROM is
    boot,      \* the card BOOT.ELF was opened on
    i, pos,    \* the program header, the words of its segment already there
    load_end,  \* the end of the image so far
    alt_mem,   \* something is staged
    mem,       \* RAM, and what is beyond
    swaps, faults

attempt == <<boot, i, pos, load_end>>
slot == <<card, swaps>>
vars == <<slot, live, block, pc, attempt, alt_mem, mem, faults>>

\* The contents of a word.
Rom == <<"rom", 0>>
Zero == <<"zero", 0>>
Unused == <<"unused", 0>>
FileWord(c, n) == <<c.name, n>>
DtbWord(n) == <<"dtb", n>>
\* The word with totalsize after DtbSlack has been added to it.
DtbGrown == <<"dtb grown", 0>>

NoLoad == -1     \* the initial load_end, 0, is below SOCT_MEM_BASE_ADDR
Min2(a, b) == IF a < b THEN a ELSE b
S == boot.segs[i]

Init ==
    /\ card \in Cards \union {NoCard} /\ live = FALSE /\ block = FALSE
    /\ pc = "mount" /\ boot = NoCard /\ i = 1 /\ pos = 0 /\ load_end = NoLoad
    /\ alt_mem = FALSE
    /\ mem = [a \in 0 .. Space - 1 |-> IF a < End THEN Rom ELSE Unused]
    /\ swaps = 0 /\ faults = 0

\* A command or a transfer fails: bounded by MaxFaults.
Fault == faults < MaxFaults /\ faults' = faults + 1
-----------------------------------------------------------------------------
(***************************************************************************)
(* The card                                                                *)
(***************************************************************************)
\* The card is pulled or another one put in.
Swap ==
    /\ swaps < MaxSwaps /\ swaps' = swaps + 1 /\ pc # "jump"
    /\ card' \in Cards \union {NoCard} /\ live' = FALSE
    /\ UNCHANGED <<block, pc, attempt, alt_mem, mem, faults>>

\* disk_read: the sector that ends up in word n of a buffer read from sector on.
\* A command moves MAX_BLOCK_CNT sectors at most; its argument counts blocks or
\* bytes, as the ROM thinks the card does, and the card takes it as it does.
Sector(sector, n) ==
    LET unit == IF block THEN 1 ELSE SectorBytes
        arg == sector * unit + (n \div MAX_BLOCK_CNT) * MAX_BLOCK_CNT * unit
    IN  (IF card.hc THEN arg ELSE arg \div SectorBytes) + (n % MAX_BLOCK_CNT)

\* RAM after the first n sectors of a read at addr are in, and after a sector
\* that FatFs has in its buffer is copied there.
Transferred(addr, sector, n) ==
    [a \in 0 .. Space - 1 |->
        IF addr <= a /\ a < addr + n THEN FileWord(card, Sector(sector, a - addr)) ELSE mem[a]]
Buffered(addr, sector) ==
    [a \in 0 .. Space - 1 |-> IF a = addr THEN FileWord(boot, sector) ELSE mem[a]]
-----------------------------------------------------------------------------
(***************************************************************************)
(* The ROM                                                                 *)
(***************************************************************************)
\* f_mount: drv_status is STA_NOINIT, so that disk_initialize runs ini_sd.
Mount ==
    /\ pc = "mount"
    /\ \/ card # NoCard /\ live' = TRUE /\ block' = card.hc /\ pc' = "open" /\ UNCHANGED faults
       \/ card = NoCard /\ live' = FALSE /\ block' = FALSE /\ pc' = "wait" /\ UNCHANGED faults
       \/ Fault /\ live' = FALSE /\ block' \in {FALSE, card.hc} /\ pc' = "wait"
    /\ UNCHANGED <<slot, attempt, alt_mem, mem>>

\* f_open, the checks of e_ident, and the fields of the ELF header.
Open ==
    /\ pc = "open"
    /\ \/ /\ live /\ card.elf /\ boot' = card /\ i' = 1 /\ pos' = 0 /\ load_end' = NoLoad
          /\ pc' = "phdr" /\ UNCHANGED faults
       \/ ~ (live /\ card.elf) /\ pc' = "wait" /\ UNCHANGED <<attempt, faults>>
       \/ Fault /\ pc' = "wait" /\ UNCHANGED attempt
    /\ UNCHANGED <<slot, live, block, alt_mem, mem>>

\* "Refuse to DMA outside RAM"
InRam(s) == s.vaddr >= 0 /\ s.vaddr + s.memsz <= Ram

\* One program header, which FatFs may have in its buffer.
Phdr ==
    /\ pc = "phdr" /\ i <= Len(boot.segs)
    /\ \/ /\ ~ S.load /\ i' = i + 1
          /\ UNCHANGED <<boot, pos, load_end, pc, faults>>
       \/ /\ S.load /\ InRam(S)
          /\ load_end' = IF S.vaddr + S.memsz > load_end THEN S.vaddr + S.memsz ELSE load_end
          /\ pos' = 0 /\ pc' = "load" /\ UNCHANGED <<boot, i, faults>>
       \/ /\ ~ live \/ (S.load /\ ~ InRam(S))
          /\ pc' = "wait" /\ UNCHANGED <<attempt, faults>>
       \/ Fault /\ pc' = "wait" /\ UNCHANGED attempt
    /\ UNCHANGED <<slot, live, block, alt_mem, mem>>

\* Mutant: nothing is staged.
StagedNot(addr) == addr

\* Where the word of an address is put for the time being.
Staged(addr) == IF addr < End THEN Alt + addr ELSE addr

\* Mutant: a piece goes on behind the scratch memory.
PieceWhole(addr, left) == Min2(Chunk, left)

\* The next piece of a segment: it does not cross BOOTROM_MEM_END.
Piece(addr, left) ==
    LET size == Min2(Chunk, left)
    IN  IF addr < End /\ addr + size > End THEN End - addr ELSE size

\* The words of a segment that come from the file.
FileWords(s) == Min2(s.filesz, s.memsz)

\* The loop that reads.  f_read returns what is left of the file, if less; a
\* transfer that fails may have written some of it.
Load ==
    /\ pc = "load" /\ pos < FileWords(S)
    /\ LET addr == S.vaddr + pos
           size == Piece(addr, FileWords(S) - pos)
           left == boot.len - (S.offset + pos)
           rd == IF left < 0 THEN 0 ELSE Min2(size, left)
       IN  /\ alt_mem' = (alt_mem \/ addr < End)
           /\ \/ /\ live /\ rd > 0
                 /\ mem' = Transferred(Staged(addr), S.offset + pos, rd)
                 /\ pos' = pos + rd /\ UNCHANGED <<boot, i, load_end, pc, faults>>
              \/ /\ ~ live /\ rd = 1
                 /\ mem' = Buffered(Staged(addr), S.offset + pos)
                 /\ pos' = pos + 1 /\ UNCHANGED <<boot, i, load_end, pc, faults>>
              \/ /\ ~ live \/ rd = 0
                 /\ pc' = "wait" /\ UNCHANGED <<mem, attempt, faults>>
              \/ /\ live /\ Fault /\ pc' = "wait" /\ UNCHANGED attempt
                 /\ \E n \in 0 .. rd : mem' = Transferred(Staged(addr), S.offset + pos, n)
    /\ UNCHANGED <<slot, live, block>>

\* The loop that clears the rest; then the next program header.
Fill ==
    /\ pc = "load" /\ pos >= FileWords(S)
    /\ \/ /\ pos < S.memsz
          /\ LET addr == S.vaddr + pos
                 size == Piece(addr, S.memsz - pos)
                 to == Staged(addr)
             IN  /\ alt_mem' = (alt_mem \/ addr < End)
                 /\ mem' = [a \in 0 .. Space - 1 |->
                               IF to <= a /\ a < to + size THEN Zero ELSE mem[a]]
                 /\ pos' = pos + size
          /\ UNCHANGED <<i, pc>>
       \/ pos >= S.memsz /\ i' = i + 1 /\ pc' = "phdr" /\ UNCHANGED <<pos, alt_mem, mem>>
    /\ UNCHANGED <<slot, live, block, boot, load_end, faults>>

\* The address of the device tree's copy.
Dst == ((Alt - DtbSize - DtbSlack) \div Page) * Page

\* Mutant: the headroom is added to totalsize and not cleared.
WithDtbUncleared(m) ==
    [a \in 0 .. Space - 1 |->
        IF a = Dst THEN DtbGrown
        ELSE IF Dst < a /\ a < Dst + DtbSize THEN DtbWord(a - Dst) ELSE m[a]]

\* RAM with the copy and its headroom.
WithDtb(m) ==
    [a \in 0 .. Space - 1 |->
        IF a = Dst THEN DtbGrown
        ELSE IF Dst < a /\ a < Dst + DtbSize THEN DtbWord(a - Dst)
        ELSE IF Dst + DtbSize <= a /\ a < Dst + DtbSize + DtbSlack THEN Zero ELSE m[a]]

\* There was something to load, and it ends below the copy.
ImageEnds == load_end >= 0 /\ load_end <= Dst

\* f_close of a file opened to read does nothing that could fail.
Dtb ==
    /\ pc = "phdr" /\ i > Len(boot.segs)
    /\ \/ ImageEnds /\ mem' = WithDtb(mem) /\ pc' = IF alt_mem THEN "copy" ELSE "jump"
       \/ ~ ImageEnds /\ pc' = "wait" /\ UNCHANGED mem
    /\ UNCHANGED <<slot, live, block, attempt, alt_mem, faults>>

\* boot_rom_memcpy, in registers only, and the jump.
Copy ==
    /\ pc = "copy" /\ pc' = "jump"
    /\ mem' = [a \in 0 .. Space - 1 |-> IF a < End THEN mem[Alt + a] ELSE mem[a]]
    /\ UNCHANGED <<slot, live, block, attempt, alt_mem, faults>>

\* Mutant: the next attempt finds the card initialised.
RetryMounted ==
    /\ pc = "wait" /\ pc' = "open"
    /\ UNCHANGED <<slot, live, block, attempt, alt_mem, mem, faults>>

\* The rest of main's loop.  alt_mem is not reset.
Retry ==
    /\ pc = "wait" /\ pc' = "mount"
    /\ UNCHANGED <<slot, live, block, attempt, alt_mem, mem, faults>>
-----------------------------------------------------------------------------
Main == Mount \/ Open \/ Phdr \/ Load \/ Fill \/ Dtb \/ Copy \/ Retry

Next == Main \/ Swap

Safety == Init /\ [][Next]_vars

\* The ROM keeps running.
Spec == Safety /\ WF_vars(Main)
-----------------------------------------------------------------------------
(***************************************************************************)
(* Properties                                                              *)
(***************************************************************************)
TypeOK ==
    /\ card \in Cards \union {NoCard} /\ boot \in Cards \union {NoCard}
    /\ live \in BOOLEAN /\ block \in BOOLEAN /\ alt_mem \in BOOLEAN
    /\ pc \in {"mount", "open", "phdr", "load", "copy", "jump", "wait"}
    /\ i \in 1 .. Len(boot.segs) + 1 /\ pos \in Nat
    /\ pc = "load" => i <= Len(boot.segs) /\ pos <= S.memsz
    /\ load_end \in Int
    /\ DOMAIN mem = 0 .. Space - 1
    /\ swaps \in 0 .. MaxSwaps /\ faults \in 0 .. MaxFaults

\* What an ELF says of the words of a segment.
Content(c, s, n) == IF n < FileWords(s) THEN FileWord(c, s.offset + n) ELSE Zero

\* Every word of every segment that is to be loaded is where the ELF wants it
\* when the ROM jumps to the entry (bootrom.c:486-613), whatever earlier
\* attempts left in RAM, in the staging area and in alt_mem.
ImageInPlace ==
    pc = "jump" =>
        \A j \in 1 .. Len(boot.segs) : boot.segs[j].load =>
            \A n \in 0 .. boot.segs[j].memsz - 1 :
                mem[boot.segs[j].vaddr + n] = Content(boot, boot.segs[j], n)

\* The device tree's copy is whole at the jump, "with headroom grown into its
\* totalsize" (bootrom.c:530), and the headroom is clear.
DtbInPlace ==
    pc = "jump" =>
        \A a \in 0 .. Space - 1 :
            /\ a = Dst => mem[a] = DtbGrown
            /\ Dst < a /\ a < Dst + DtbSize => mem[a] = DtbWord(a - Dst)
            /\ Dst + DtbSize <= a /\ a < Dst + DtbSize + DtbSlack => mem[a] = Zero

\* The ROM's variables and stack (bootrom.lds:61-73) are not written over by the
\* image while the ROM needs them.
ScratchIntact == pc # "jump" => \A a \in 0 .. End - 1 : mem[a] = Rom

\* "Refuse to DMA outside RAM" (bootrom.c:476): nothing beyond RAM is written.
InsideRam == \A a \in Ram .. Space - 1 : mem[a] = Unused

\* An image that the ROM can start: nothing of it is outside RAM, missing in the
\* file, or as high as the copy of the device tree.
Bootable(c) ==
    /\ c.elf /\ \E j \in 1 .. Len(c.segs) : c.segs[j].load
    /\ \A j \in 1 .. Len(c.segs) : c.segs[j].load =>
          /\ c.segs[j].vaddr >= 0 /\ c.segs[j].vaddr + c.segs[j].memsz <= Dst
          /\ FileWords(c.segs[j]) > 0 => c.segs[j].offset + FileWords(c.segs[j]) <= c.len

\* What cannot be started is refused, on every attempt (bootrom.c:476-481,
\* 498-501, 549-555).
RefusesRest == pc \in {"copy", "jump"} => Bootable(boot)

\* main's loop (bootrom.c:622-635) recovers from every failure: once a card that
\* can be started stays in the slot, it is started.
Boots == <>[](Bootable(card)) => <>(pc = "jump")
=============================================================================
