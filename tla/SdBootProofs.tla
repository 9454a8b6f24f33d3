---------------------------- MODULE SdBootProofs ----------------------------
(***************************************************************************)
(* Proofs about SdBoot, for every layout of RAM, every set of cards and    *)
(* any number of swaps and faults.  While an attempt loads, a word of the  *)
(* image is found where Staged puts it; that no two words of an image are  *)
(* put in the same place holds only for images that end below the copy of  *)
(* the device tree, which the ROM checks after it has loaded them.         *)
(***************************************************************************)
EXTENDS SdBoot, TLAPS

\* The segments, and which words of the image this attempt has loaded.
Loads(j) == j \in 1 .. Len(boot.segs) /\ boot.segs[j].load
Loaded(j, n) ==
    /\ Loads(j) /\ n \in 0 .. boot.segs[j].memsz - 1
    /\ j < i \/ (pc = "load" /\ j = i /\ n < pos)
Begun(j) == Loads(j) /\ (j < i \/ (pc = "load" /\ j = i))
Address(j, n) == boot.segs[j].vaddr + n
Attempting == pc \in {"phdr", "load"}

CardInv ==
    /\ pc = "open" /\ live => block = card.hc
    /\ Attempting => boot \in Cards /\ boot.elf /\ (live => card = boot /\ block = card.hc)
    /\ pc = "load" => S.load

EndInv ==
    Attempting =>
        /\ load_end >= NoLoad
        /\ load_end # NoLoad => load_end >= 0 /\ \E j \in 1 .. Len(boot.segs) : Begun(j)
        /\ \A j \in 1 .. Len(boot.segs) : Begun(j) =>
              InRam(boot.segs[j]) /\ boot.segs[j].vaddr + boot.segs[j].memsz <= load_end

\* What was read from the file was there.
FileInv ==
    Attempting =>
        \A j \in 1 .. Len(boot.segs), n \in Nat :
            Loaded(j, n) /\ n < FileWords(boot.segs[j]) => boot.segs[j].offset + n < boot.len

DataInv ==
    Attempting /\ load_end <= Dst =>
        \A j \in 1 .. Len(boot.segs), n \in Nat : Loaded(j, n) =>
            mem[Staged(Address(j, n))] = Content(boot, boot.segs[j], n)

AltInv ==
    Attempting =>
        \A j \in 1 .. Len(boot.segs), n \in Nat :
            Loaded(j, n) /\ Address(j, n) < End => alt_mem

\* Between the copy of the device tree and the jump.
HandInv ==
    /\ pc \in {"copy", "jump"} => Bootable(boot)
    /\ pc = "copy" =>
         /\ \A a \in 0 .. Space - 1 :
              /\ a = Dst => mem[a] = DtbGrown
              /\ Dst < a /\ a < Dst + DtbSize => mem[a] = DtbWord(a - Dst)
              /\ Dst + DtbSize <= a /\ a < Dst + DtbSize + DtbSlack => mem[a] = Zero
         /\ \A j \in 1 .. Len(boot.segs), n \in Nat :
              Loads(j) /\ n < boot.segs[j].memsz =>
                 mem[Staged(Address(j, n))] = Content(boot, boot.segs[j], n)

MemInv == ScratchIntact /\ InsideRam
ImageInv == DataInv /\ AltInv /\ HandInv /\ ImageInPlace /\ DtbInPlace
BootInv == TypeOK /\ CardInv /\ EndInv /\ FileInv
-----------------------------------------------------------------------------
\* The layout of RAM: scratch memory, images, device tree, staging area.
LEMMA Layout ==
    /\ End \in Nat /\ End > 0 /\ Alt \in Nat /\ Ram \in Nat /\ Space \in Nat
    /\ Chunk \in Nat /\ Chunk > 0 /\ DtbSize \in Nat /\ DtbSize > 0 /\ DtbSlack \in Nat
    /\ MaxSwaps \in Nat /\ MaxFaults \in Nat
    /\ MAX_BLOCK_CNT \in Nat /\ MAX_BLOCK_CNT > 0 /\ SectorBytes \in Nat /\ SectorBytes > 0
    /\ Alt + End <= Ram /\ Ram <= Space
    /\ Dst \in Nat /\ End <= Dst /\ Dst + DtbSize + DtbSlack <= Alt
<1>1. /\ End \in Nat /\ End > 0 /\ Alt \in Nat /\ Ram \in Nat /\ Space \in Nat
      /\ Chunk \in Nat /\ Chunk > 0 /\ DtbSize \in Nat /\ DtbSize > 0 /\ DtbSlack \in Nat
      /\ MaxSwaps \in Nat /\ MaxFaults \in Nat /\ Page \in Nat /\ Page > 0
      /\ MAX_BLOCK_CNT \in Nat /\ MAX_BLOCK_CNT > 0 /\ SectorBytes \in Nat /\ SectorBytes > 0
      /\ Alt + End <= Ram /\ Ram <= Space /\ End + Page + DtbSize + DtbSlack <= Alt
    BY SizeAssumption
<1> DEFINE top == Alt - DtbSize - DtbSlack
           q == top \div Page
<1>2. top \in Nat /\ End + Page <= top
    BY <1>1
<1>3. q \in Int /\ q * Page <= top /\ top < q * Page + Page
    <2> HIDE DEF top
    <2> QED BY <1>1, <1>2
<1>4. q * Page \in Int
    BY <1>1, <1>3
<1>5. Dst = q * Page
    BY DEF Dst
<1> HIDE DEF q
<1> QED BY <1>1, <1>2, <1>3, <1>4, <1>5

\* On the card it was determined for, disk_read delivers the sectors asked for.
LEMMA SectorIsRight ==
    ASSUME NEW s \in Nat, NEW n \in Nat, block = card.hc, block \in BOOLEAN
    PROVE  Sector(s, n) = s + n
<1> DEFINE M == MAX_BLOCK_CNT
           q == n \div M
<1>1. M \in Nat /\ M > 0 /\ SectorBytes \in Nat /\ SectorBytes > 0
    BY Layout
<1>2. q \in Nat /\ n % M \in Nat /\ n = q * M + (n % M)
    BY <1>1
<1> DEFINE k == s + q * M
<1>3. k \in Nat /\ k + (n % M) = s + n /\ q * M \in Nat
    BY <1>1, <1>2
<1>4. CASE block
    <2>1. Sector(s, n) = (s * 1 + q * M * 1) + (n % M)
        BY <1>4 DEF Sector
    <2> QED BY <1>1, <1>2, <1>3, <2>1
<1>5. CASE ~ block
    <2>1. Sector(s, n) = ((s * SectorBytes + q * M * SectorBytes) \div SectorBytes) + (n % M)
        BY <1>5 DEF Sector
    <2>2. s * SectorBytes + q * M * SectorBytes = k * SectorBytes
        BY <1>1, <1>2, <1>3
    <2>3. (k * SectorBytes) \div SectorBytes = k
        <3> HIDE DEF k
        <3> QED BY <1>1, <1>3
    <2> QED BY <1>3, <2>1, <2>2, <2>3
<1> QED BY <1>4, <1>5

\* The types of what an ELF says.
LEMMA SegTypes ==
    ASSUME TypeOK
    PROVE  /\ boot \in Card /\ card \in Card /\ boot.segs \in Seq(Seg) /\ boot.len \in Nat
           /\ card.hc \in BOOLEAN /\ Len(boot.segs) \in Nat
           /\ \A j \in 1 .. Len(boot.segs) :
                /\ boot.segs[j].load \in BOOLEAN /\ boot.segs[j].offset \in Nat
                /\ boot.segs[j].vaddr \in Int /\ boot.segs[j].filesz \in Nat
                /\ boot.segs[j].memsz \in Nat
                /\ FileWords(boot.segs[j]) \in Nat
                /\ FileWords(boot.segs[j]) <= boot.segs[j].memsz
<1>1. boot \in Card /\ card \in Card
    BY CardAssumption DEF TypeOK
<1>2. boot.segs \in Seq(Seg) /\ boot.len \in Nat /\ card.hc \in BOOLEAN
    BY <1>1 DEF Card
<1>3. Len(boot.segs) \in Nat /\ \A j \in 1 .. Len(boot.segs) : boot.segs[j] \in Seg
    BY <1>2
<1>4. \A j \in 1 .. Len(boot.segs) :
          /\ boot.segs[j].load \in BOOLEAN /\ boot.segs[j].offset \in Nat
          /\ boot.segs[j].vaddr \in Int /\ boot.segs[j].filesz \in Nat
          /\ boot.segs[j].memsz \in Nat
    BY <1>3 DEF Seg
<1>5. \A j \in 1 .. Len(boot.segs) :
          /\ FileWords(boot.segs[j]) \in Nat
          /\ FileWords(boot.segs[j]) <= boot.segs[j].memsz
    BY <1>4 DEF FileWords, Min2
<1> QED BY <1>1, <1>2, <1>3, <1>4, <1>5

\* The same of the segment being loaded.
LEMMA LoadTypes ==
    ASSUME TypeOK, pc = "load"
    PROVE  /\ i \in 1 .. Len(boot.segs) /\ pos \in Nat /\ S.load \in BOOLEAN
           /\ S.offset \in Nat /\ S.vaddr \in Int /\ S.memsz \in Nat /\ pos <= S.memsz
           /\ FileWords(S) \in Nat /\ FileWords(S) <= S.memsz
<1>1. i \in 1 .. Len(boot.segs) /\ pos \in Nat /\ pos <= S.memsz
    BY SegTypes DEF TypeOK
<1>2. /\ S.load \in BOOLEAN /\ S.offset \in Nat /\ S.vaddr \in Int /\ S.memsz \in Nat
      /\ FileWords(S) \in Nat /\ FileWords(S) <= S.memsz
    BY <1>1, SegTypes DEF S
<1> QED BY <1>1, <1>2

\* A piece is not empty, is staged as a whole, and neither in the scratch memory
\* nor outside RAM.
LEMMA PieceFacts ==
    ASSUME NEW addr \in Nat, NEW left \in Nat, left > 0, addr + left <= Ram
    PROVE  /\ Piece(addr, left) \in Nat /\ Piece(addr, left) > 0 /\ Piece(addr, left) <= left
           /\ Staged(addr) \in Nat /\ Staged(addr) >= End
           /\ Staged(addr) + Piece(addr, left) <= Ram
           /\ \A k \in Nat : k < Piece(addr, left) => Staged(addr + k) = Staged(addr) + k
BY Layout DEF Piece, Staged, Min2

\* Below the device tree no two addresses are staged in the same place.
LEMMA StagedApart ==
    ASSUME NEW a \in Nat, NEW b \in Nat, a < Dst, b < Dst, a # b
    PROVE  Staged(a) # Staged(b)
BY Layout DEF Staged

\* Where a word is staged, if its image ends below the device tree.
LEMMA StagedPlace ==
    ASSUME NEW a \in Nat, a < Dst
    PROVE  /\ Staged(a) \in 0 .. Space - 1
           /\ Staged(a) < Dst \/ Staged(a) >= Dst + DtbSize + DtbSlack
BY Layout DEF Staged

\* The segment being loaded, where the next piece goes and what is left of it.
AtPiece(v, sz, addr, left) ==
    v = S.vaddr /\ sz = S.memsz /\ addr = v + pos /\ left = sz - pos

\* What a step that writes m words at an address leaves alone.
WritesOnly(to, m) ==
    \A a \in 0 .. Space - 1 : a < to \/ a >= to + m => mem'[a] = mem[a]

\* Loading or clearing a piece leaves the scratch memory, what is beyond RAM, and
\* the words already loaded alone.
LEMMA WriteKeeps ==
    ASSUME BootInv, MemInv, pc = "load", pc' # "jump",
           NEW v \in Int, NEW sz \in Nat, NEW addr \in Int, NEW left \in Int,
           AtPiece(v, sz, addr, left), left > 0,
           NEW m \in Nat, m <= Piece(addr, left), WritesOnly(Staged(addr), m)
    PROVE  /\ MemInv'
           /\ load_end <= Dst =>
                \A j \in 1 .. Len(boot.segs), n \in Nat : Loaded(j, n) =>
                    /\ Address(j, n) \in Nat /\ Address(j, n) < Dst
                    /\ mem'[Staged(Address(j, n))] = mem[Staged(Address(j, n))]
<1>1. /\ i \in 1 .. Len(boot.segs) /\ pos \in Nat
      /\ Loads(i) /\ 0 <= v /\ v + sz <= Ram /\ v + sz <= load_end /\ load_end \in Int
    BY SegTypes DEF BootInv, TypeOK, CardInv, EndInv, Begun, Loads, Attempting, InRam, AtPiece, S
<1>a. pos \in Nat /\ 0 <= v /\ v + sz <= Ram /\ Ram \in Nat
    BY <1>1, Layout
<1>2. addr \in Nat /\ left \in Nat /\ addr + left <= Ram /\ addr + left = v + sz
    BY <1>a DEF AtPiece
<1>3. /\ m <= left
      /\ Staged(addr) \in Nat /\ Staged(addr) >= End /\ Staged(addr) + m <= Ram
      /\ \A k \in Nat : k < m => Staged(addr + k) = Staged(addr) + k
    <2>1. /\ Piece(addr, left) \in Nat /\ Piece(addr, left) <= left
          /\ Staged(addr) \in Nat /\ Staged(addr) >= End
          /\ Staged(addr) + Piece(addr, left) <= Ram
          /\ \A k \in Nat : k < Piece(addr, left) => Staged(addr + k) = Staged(addr) + k
        BY <1>2, PieceFacts
    <2> QED BY <1>a, <1>2, <2>1
<1>4. MemInv'
    BY <1>3, Layout DEF MemInv, ScratchIntact, InsideRam, WritesOnly
<1>5. ASSUME load_end <= Dst, NEW j \in 1 .. Len(boot.segs), NEW n \in Nat, Loaded(j, n)
      PROVE  /\ Address(j, n) \in Nat /\ Address(j, n) < Dst
             /\ mem'[Staged(Address(j, n))] = mem[Staged(Address(j, n))]
    <2>0. PICK w \in Int, wz \in Nat : w = boot.segs[j].vaddr /\ wz = boot.segs[j].memsz
        BY SegTypes DEF BootInv
    <2>1. n < wz /\ w >= 0 /\ w + wz <= load_end /\ Address(j, n) = w + n
        <3>1. /\ n < boot.segs[j].memsz /\ boot.segs[j].vaddr >= 0
              /\ boot.segs[j].vaddr + boot.segs[j].memsz <= load_end
            <4>1. Begun(j) /\ n \in 0 .. boot.segs[j].memsz - 1
                BY <1>5 DEF Loaded, Begun
            <4>2. InRam(boot.segs[j]) /\ boot.segs[j].vaddr + boot.segs[j].memsz <= load_end
                BY <4>1 DEF BootInv, EndInv, Attempting
            <4> QED BY <2>0, <4>1, <4>2 DEF InRam
        <3> QED BY <2>0, <3>1 DEF Address
    <2>2. Address(j, n) \in Nat /\ Address(j, n) < Dst
        BY <1>1, <1>5, <2>1, Layout
    <2>3. \A k \in Nat : k < m => Address(j, n) # addr + k
        <3>1. CASE j = i
            <4>1. n < pos /\ w = v
                BY <1>1, <1>5, <2>0, <3>1 DEF Loaded, AtPiece, S
            <4> QED BY <1>a, <2>1, <4>1 DEF AtPiece
        <3>2. CASE j # i
            <4>1. w + wz <= v \/ v + sz <= w
                BY <1>1, <1>5, <2>0, <3>2, CardAssumption, Zenon
                   DEF BootInv, CardInv, Attempting, Disjoint, Loads, Loaded, AtPiece, S
            <4> SUFFICES ASSUME NEW k \in Nat, k < m PROVE w + n # addr + k
                BY <2>1
            <4>2. k < left
                BY <1>2, <1>3
            <4>3. v <= addr
                BY <1>a DEF AtPiece
            <4> QED BY <1>2, <2>1, <4>1, <4>2, <4>3
        <3> QED BY <3>1, <3>2
    <2>4. \A k \in Nat : k < m => Staged(Address(j, n)) # Staged(addr) + k
        <3> SUFFICES ASSUME NEW k \in Nat, k < m PROVE Staged(Address(j, n)) # Staged(addr + k)
            BY <1>3
        <3>1. addr + k \in Nat /\ addr + k < Dst
            <4>1. v + sz <= Dst /\ Dst \in Nat
                BY <1>1, <1>5, Layout
            <4>2. k < left
                BY <1>2, <1>3
            <4> QED BY <1>2, <4>1, <4>2
        <3> QED BY <2>2, <2>3, <3>1, StagedApart
    <2>5. Staged(Address(j, n)) \in 0 .. Space - 1
        BY <2>2, StagedPlace
    <2>6. Staged(Address(j, n)) < Staged(addr) \/ Staged(Address(j, n)) >= Staged(addr) + m
        <3> SUFFICES ASSUME Staged(Address(j, n)) >= Staged(addr)
                     PROVE  Staged(Address(j, n)) >= Staged(addr) + m
            BY <1>3, <2>5, Layout
        <3>1. Staged(Address(j, n)) - Staged(addr) \in Nat
            BY <1>3, <2>5, Layout
        <3> QED BY <1>3, <2>4, <2>5, <3>1, Layout
    <2> QED BY <2>2, <2>5, <2>6 DEF WritesOnly
<1> QED BY <1>4, <1>5

\* A step that adds m words to what is loaded of the segment.
Advance(addr, m) ==
    /\ pc' = "load" /\ pos' = pos + m
    /\ UNCHANGED <<boot, i, load_end, card, live, block>>
    /\ alt_mem' = (alt_mem \/ addr < End)
    /\ WritesOnly(Staged(addr), m)
    /\ \A n \in Nat : pos <= n /\ n < pos + m =>
          /\ mem'[Staged(addr) + (n - pos)] = Content(boot, S, n)
          /\ n < FileWords(S) => S.offset + n < boot.len

\* The place of the next piece, while there is one.
LEMMA PieceExists ==
    ASSUME BootInv, pc = "load", pos < S.memsz
    PROVE  \E v \in Int, sz \in Nat, addr \in Int, left \in Int :
              AtPiece(v, sz, addr, left) /\ left > 0 /\ left \in Nat
              /\ addr \in Nat /\ addr + left <= Ram
<1>1. S.vaddr \in Int /\ S.memsz \in Nat /\ pos \in Nat /\ InRam(S)
    <2>1. InRam(S) /\ i \in 1 .. Len(boot.segs)
        BY LoadTypes DEF BootInv, CardInv, EndInv, Begun, Loads, Attempting, S
    <2> QED BY <2>1, LoadTypes DEF BootInv
<1>2. PICK v \in Int, sz \in Nat : v = S.vaddr /\ sz = S.memsz
    BY <1>1
<1>3. v >= 0 /\ v + sz <= Ram /\ pos < sz
    BY <1>1, <1>2 DEF InRam
<1>4. v + pos \in Nat /\ sz - pos \in Nat /\ sz - pos > 0 /\ (v + pos) + (sz - pos) <= Ram
    BY <1>1, <1>3, Layout
<1>5. AtPiece(v, sz, v + pos, sz - pos)
    BY <1>2 DEF AtPiece
<1>6. v + pos \in Int /\ sz - pos \in Int
    BY <1>4
<1> WITNESS v \in Int, sz \in Nat, v + pos \in Int, sz - pos \in Int
<1> QED BY <1>4, <1>5

\* A piece of less is no larger.
LEMMA PieceGrows ==
    ASSUME NEW addr \in Nat, NEW less \in Nat, NEW left \in Nat, less <= left
    PROVE  Piece(addr, less) <= Piece(addr, left) /\ Piece(addr, less) <= less
BY Layout DEF Piece, Min2


\* What the loop that reads does: it loads words that are in the file, or stops
\* the attempt with some of the piece written.
LEMMA LoadAdvances ==
    ASSUME BootInv, Load, NEW v \in Int, NEW sz \in Nat, NEW addr \in Nat, NEW left \in Nat,
           AtPiece(v, sz, addr, left), left > 0, addr + left <= Ram
    PROVE  \E m \in Nat :
              /\ m <= Piece(addr, left)
              /\ Advance(addr, m) \/ (pc' = "wait" /\ WritesOnly(Staged(addr), m))
<1>1. /\ pc = "load" /\ pos \in Nat /\ FileWords(S) \in Nat /\ FileWords(S) <= S.memsz
      /\ S.offset \in Nat /\ boot.len \in Nat /\ pos < FileWords(S)
      /\ live => card = boot /\ block = card.hc /\ block \in BOOLEAN
    <2>1. pc = "load" /\ pos < FileWords(S)
        BY DEF Load
    <2>2. boot.len \in Nat
        BY SegTypes DEF BootInv
    <2>3. live => card = boot /\ block = card.hc /\ block \in BOOLEAN
        BY <2>1 DEF BootInv, TypeOK, CardInv, Attempting
    <2> QED BY <2>1, <2>2, <2>3, LoadTypes DEF BootInv
<1>2. PICK fw \in Nat, off \in Nat, len \in Nat :
          fw = FileWords(S) /\ off = S.offset /\ len = boot.len
    BY <1>1
<1>3. PICK less \in Nat : less = fw - pos
    BY <1>1, <1>2
<1>4. less > 0 /\ less <= left
    BY <1>1, <1>2, <1>3 DEF AtPiece
<1>5. PICK size \in Nat : size = Piece(addr, less)
    BY <1>4, PieceFacts, Layout
<1>6. size > 0 /\ size <= less /\ size <= Piece(addr, left) /\ addr + less <= Ram
    BY <1>4, <1>5, PieceFacts, PieceGrows, Layout
<1>7. PICK rd \in Nat : rd = IF len - (off + pos) < 0 THEN 0 ELSE Min2(size, len - (off + pos))
    BY <1>1 DEF Min2
<1>8. rd <= size /\ (rd > 0 => off + pos + rd <= len) /\ pos + rd <= fw
    BY <1>1, <1>3, <1>6, <1>7 DEF Min2
<1>9. /\ alt_mem' = (alt_mem \/ addr < End)
      /\ UNCHANGED <<card, live, block>>
      /\ \/ /\ live /\ rd > 0
            /\ mem' = Transferred(Staged(addr), off + pos, rd)
            /\ pos' = pos + rd /\ UNCHANGED <<boot, i, load_end, pc>>
         \/ /\ ~ live /\ rd = 1
            /\ mem' = Buffered(Staged(addr), off + pos)
            /\ pos' = pos + 1 /\ UNCHANGED <<boot, i, load_end, pc>>
         \/ pc' = "wait" /\ UNCHANGED mem
         \/ /\ pc' = "wait"
            /\ \E n \in 0 .. rd : mem' = Transferred(Staged(addr), off + pos, n)
    BY <1>2, <1>3, <1>5, <1>7 DEF Load, AtPiece, slot
<1>10. /\ Staged(addr) \in Nat /\ Staged(addr) + size <= Ram /\ Ram <= Space
       /\ Ram \in Nat /\ Space \in Nat
    BY <1>4, <1>5, <1>6, PieceFacts, Layout
<1>11. \A n \in Nat : pos <= n /\ n < pos + rd =>
          Content(boot, S, n) = FileWord(boot, off + n) /\ off + n < len
    BY <1>1, <1>2, <1>8 DEF Content
<1>16. rd <= Piece(addr, left)
    BY <1>6, <1>8, PieceFacts
<1>12. CASE /\ live /\ rd > 0
            /\ mem' = Transferred(Staged(addr), off + pos, rd)
            /\ pos' = pos + rd /\ UNCHANGED <<boot, i, load_end, pc>>
    <2>1. WritesOnly(Staged(addr), rd)
        BY <1>10, <1>12 DEF Transferred, WritesOnly
    <2>2. ASSUME NEW n \in Nat, pos <= n, n < pos + rd
          PROVE  mem'[Staged(addr) + (n - pos)] = Content(boot, S, n)
        <3>1. PICK k \in Nat : k = n - pos
            BY <1>1, <2>2
        <3>6. k < rd
            BY <1>1, <2>2, <3>1
        <3>2. k < rd /\ Staged(addr) + k \in 0 .. Space - 1
            BY <1>8, <1>10, <3>6
        <3>3. mem'[Staged(addr) + k] = FileWord(card, Sector(off + pos, (Staged(addr) + k) - Staged(addr)))
            BY <1>10, <1>12, <3>2 DEF Transferred
        <3>4. (Staged(addr) + k) - Staged(addr) = k /\ off + pos \in Nat /\ (off + pos) + k = off + n
            BY <1>1, <1>10, <3>1
        <3>5. Sector(off + pos, k) = (off + pos) + k
            BY <1>1, <1>12, <3>4, SectorIsRight
        <3> QED BY <1>1, <1>11, <1>12, <2>2, <3>1, <3>3, <3>4, <3>5
    <2>3. Advance(addr, rd)
        BY <1>1, <1>2, <1>9, <1>11, <1>12, <2>1, <2>2 DEF Advance
    <2> QED BY <1>16, <2>3
<1>13. CASE /\ ~ live /\ rd = 1
            /\ mem' = Buffered(Staged(addr), off + pos)
            /\ pos' = pos + 1 /\ UNCHANGED <<boot, i, load_end, pc>>
    <2>1. WritesOnly(Staged(addr), rd)
        BY <1>10, <1>13 DEF Buffered, WritesOnly
    <2>2. ASSUME NEW n \in Nat, pos <= n, n < pos + rd
          PROVE  mem'[Staged(addr) + (n - pos)] = Content(boot, S, n)
        <3>1. n = pos /\ Staged(addr) + (n - pos) = Staged(addr)
            BY <1>1, <1>10, <1>13, <2>2
        <3>2. Staged(addr) \in 0 .. Space - 1
            BY <1>6, <1>10
        <3>3. mem'[Staged(addr)] = FileWord(boot, off + pos)
            BY <1>13, <3>2 DEF Buffered
        <3> QED BY <1>11, <2>2, <3>1, <3>3
    <2>3. Advance(addr, rd)
        BY <1>1, <1>2, <1>9, <1>11, <1>13, <2>1, <2>2 DEF Advance
    <2> QED BY <1>16, <2>3
<1>14. CASE pc' = "wait" /\ UNCHANGED mem
    BY <1>6, <1>14 DEF WritesOnly
<1>15. CASE /\ pc' = "wait"
            /\ \E n \in 0 .. rd : mem' = Transferred(Staged(addr), off + pos, n)
    <2>1. PICK n \in 0 .. rd : mem' = Transferred(Staged(addr), off + pos, n)
        BY <1>15
    <2>2. n \in Nat /\ n <= Piece(addr, left)
        BY <1>6, <1>8, <2>1, PieceFacts
    <2>3. WritesOnly(Staged(addr), n)
        BY <1>10, <2>1 DEF Transferred, WritesOnly
    <2> QED BY <1>15, <2>2, <2>3
<1> QED BY <1>9, <1>12, <1>13, <1>14, <1>15

\* What the loop that clears does.
LEMMA FillAdvances ==
    ASSUME BootInv, Fill, pos < S.memsz,
           NEW v \in Int, NEW sz \in Nat, NEW addr \in Nat, NEW left \in Nat,
           AtPiece(v, sz, addr, left), left > 0, addr + left <= Ram
    PROVE  \E m \in Nat : m <= Piece(addr, left) /\ Advance(addr, m)
<1>1. /\ pc = "load" /\ pos \in Nat /\ FileWords(S) \in Nat /\ FileWords(S) <= pos
      /\ S.memsz \in Nat
    <2>1. pc = "load" /\ pos >= FileWords(S)
        BY DEF Fill
    <2> QED BY <2>1, LoadTypes DEF BootInv
<1>2. PICK m \in Nat : m = Piece(addr, left)
    BY PieceFacts
<1>3. /\ Staged(addr) \in Nat /\ Staged(addr) + m <= Ram /\ Ram <= Space
      /\ Ram \in Nat /\ Space \in Nat
    BY <1>2, PieceFacts, Layout
<1>4. /\ pos' = pos + m /\ alt_mem' = (alt_mem \/ addr < End)
      /\ mem' = [a \in 0 .. Space - 1 |->
                    IF Staged(addr) <= a /\ a < Staged(addr) + m THEN Zero ELSE mem[a]]
      /\ UNCHANGED <<boot, i, load_end, card, live, block, pc>>
    BY <1>1, <1>2 DEF Fill, AtPiece, slot
<1>5. WritesOnly(Staged(addr), m)
    BY <1>3, <1>4 DEF WritesOnly
<1>6. ASSUME NEW n \in Nat, pos <= n, n < pos + m
      PROVE  /\ mem'[Staged(addr) + (n - pos)] = Content(boot, S, n)
             /\ ~ (n < FileWords(S))
    <2>1. ~ (n < FileWords(S))
        BY <1>1, <1>6
    <2>2. /\ Staged(addr) + (n - pos) \in 0 .. Space - 1
          /\ Staged(addr) <= Staged(addr) + (n - pos) /\ Staged(addr) + (n - pos) < Staged(addr) + m
        BY <1>1, <1>3, <1>6
    <2> QED BY <1>4, <2>1, <2>2 DEF Content
<1>7. pc' = "load"
    BY <1>1, <1>4
<1>8. Advance(addr, m)
    BY <1>4, <1>5, <1>6, <1>7, Zenon DEF Advance
<1> QED BY <1>2, <1>8
-----------------------------------------------------------------------------
AllInv == BootInv /\ MemInv /\ ImageInv

\* The initial states.
LEMMA InitAll == Init => AllInv
<1> SUFFICES ASSUME Init PROVE AllInv
    OBVIOUS
<1>1. TypeOK
    <2>1. i \in 1 .. Len(boot.segs) + 1
        BY CardAssumption DEF Init, Card
    <2>2. swaps \in 0 .. MaxSwaps /\ faults \in 0 .. MaxFaults /\ load_end \in Int /\ pos \in Nat
        BY Layout DEF Init, NoLoad
    <2>3. DOMAIN mem = 0 .. Space - 1
        BY DEF Init
    <2>4. /\ card \in Cards \union {NoCard} /\ boot \in Cards \union {NoCard}
          /\ live \in BOOLEAN /\ block \in BOOLEAN /\ alt_mem \in BOOLEAN /\ pc = "mount"
        BY Zenon DEF Init
    <2> QED BY <2>1, <2>2, <2>3, <2>4 DEF TypeOK
<1>2. CardInv /\ EndInv /\ FileInv /\ DataInv /\ AltInv /\ HandInv /\ ImageInPlace /\ DtbInPlace
    BY DEF Init, CardInv, EndInv, FileInv, DataInv, AltInv, HandInv, ImageInPlace, DtbInPlace,
           Attempting
<1>3. MemInv
    <2>1. mem = [a \in 0 .. Space - 1 |-> IF a < End THEN Rom ELSE Unused]
        BY DEF Init
    <2>2. \A a \in 0 .. End - 1 : a \in 0 .. Space - 1 /\ a < End
        BY Layout
    <2>3. \A a \in Ram .. Space - 1 : a \in 0 .. Space - 1 /\ ~ (a < End)
        BY Layout
    <2> QED BY <2>1, <2>2, <2>3, Zenon DEF MemInv, ScratchIntact, InsideRam
<1> QED BY <1>1, <1>2, <1>3 DEF AllInv, BootInv, ImageInv

\* An attempt that is given up leaves nothing to be kept but what is outside the
\* image.
LEMMA GivenUp ==
    ASSUME pc' \in {"mount", "open", "wait"}, TypeOK', MemInv',
           pc' = "open" /\ live' => block' = card'.hc
    PROVE  AllInv'
BY DEF AllInv, BootInv, ImageInv, CardInv, EndInv, FileInv, DataInv, AltInv, HandInv,
       ImageInPlace, DtbInPlace, Attempting

\* Loading more of a segment.
LEMMA AdvanceKeeps ==
    ASSUME AllInv, pc = "load",
           NEW v \in Int, NEW sz \in Nat, NEW addr \in Nat, NEW left \in Nat,
           AtPiece(v, sz, addr, left), left > 0, addr + left <= Ram,
           NEW m \in Nat, m <= Piece(addr, left), Advance(addr, m), TypeOK'
    PROVE  AllInv'
<1>0. BootInv /\ MemInv /\ ImageInv /\ TypeOK
    BY DEF AllInv, BootInv
<1>1. MemInv' /\ (load_end <= Dst =>
        \A j \in 1 .. Len(boot.segs), n \in Nat : Loaded(j, n) =>
            /\ Address(j, n) \in Nat /\ Address(j, n) < Dst
            /\ mem'[Staged(Address(j, n))] = mem[Staged(Address(j, n))])
    BY <1>0, WriteKeeps DEF Advance
<1>2. /\ UNCHANGED <<boot, i, load_end, card, live, block, pc>> /\ pos' = pos + m
      /\ alt_mem' = (alt_mem \/ addr < End)
    BY DEF Advance
<1>3. pos \in Nat /\ i \in 1 .. Len(boot.segs)
    BY <1>0 DEF TypeOK
<1>4. \A j \in 1 .. Len(boot.segs), n \in Nat :
          Loaded(j, n)' => Loaded(j, n) \/ (j = i /\ pos <= n /\ n < pos + m)
    BY <1>2, <1>3 DEF Loaded, Loads
<1>5. \A n \in Nat : pos <= n /\ n < pos + m =>
          /\ mem'[Staged(addr) + (n - pos)] = Content(boot, S, n)
          /\ n < FileWords(S) => S.offset + n < boot.len
    BY DEF Advance
<1>6. CardInv' /\ EndInv'
    <2>1. \A j \in 1 .. Len(boot.segs) : Begun(j)' = Begun(j)
        BY <1>2 DEF Begun, Loads
    <2> QED BY <1>0, <1>2, <2>1 DEF BootInv, CardInv, EndInv, Attempting, S
<1>7. FileInv'
    <2> SUFFICES ASSUME NEW j \in 1 .. Len(boot.segs), NEW n \in Nat, Loaded(j, n)',
                        n < FileWords(boot.segs[j])
                 PROVE  boot.segs[j].offset + n < boot.len
        BY <1>2 DEF FileInv
    <2>1. CASE Loaded(j, n)
        BY <1>0, <2>1 DEF BootInv, FileInv, Attempting
    <2>2. CASE j = i /\ pos <= n /\ n < pos + m
        BY <1>5, <2>2 DEF S
    <2> QED BY <1>4, <2>1, <2>2
<1>8. DataInv'
    <2> SUFFICES ASSUME load_end <= Dst, NEW j \in 1 .. Len(boot.segs), NEW n \in Nat,
                        Loaded(j, n)'
                 PROVE  mem'[Staged(Address(j, n))] = Content(boot, boot.segs[j], n)
        BY <1>2 DEF DataInv, Address
    <2>1. CASE Loaded(j, n)
        BY <1>0, <1>1, <2>1 DEF ImageInv, DataInv, Attempting
    <2>2. CASE j = i /\ pos <= n /\ n < pos + m
        <3>1. PICK k \in Nat : k = n - pos
            BY <1>3, <2>2
        <3>2. k < m /\ Address(j, n) = addr + k
            <4>1. Address(j, n) = v + n
                BY <2>2 DEF Address, AtPiece, S
            <4>2. addr = v + pos
                BY DEF AtPiece
            <4> QED BY <1>3, <2>2, <3>1, <4>1, <4>2
        <3>3. k < Piece(addr, left)
            BY <3>2, PieceFacts
        <3>4. Staged(addr + k) = Staged(addr) + k
            BY <3>3, PieceFacts
        <3> QED BY <1>5, <2>2, <3>1, <3>2, <3>4 DEF S
    <2> QED BY <1>4, <2>1, <2>2
<1>9. AltInv'
    <2> SUFFICES ASSUME NEW j \in 1 .. Len(boot.segs), NEW n \in Nat, Loaded(j, n)',
                        Address(j, n) < End
                 PROVE  alt_mem'
        BY <1>2 DEF AltInv, Address
    <2>1. CASE Loaded(j, n)
        BY <1>0, <1>2, <2>1, Zenon DEF ImageInv, AltInv, Attempting
    <2>2. CASE j = i /\ pos <= n /\ n < pos + m
        <3>1. Address(j, n) = v + n /\ addr = v + pos
            BY <2>2 DEF Address, AtPiece, S
        <3>2. addr < End
            BY <1>3, <2>2, <3>1, Layout
        <3> QED BY <1>2, <3>2, Zenon
    <2> QED BY <1>4, <2>1, <2>2
<1>10. HandInv' /\ ImageInPlace' /\ DtbInPlace'
    BY <1>2 DEF HandInv, ImageInPlace, DtbInPlace
<1> QED BY <1>1, <1>6, <1>7, <1>8, <1>9, <1>10 DEF AllInv, BootInv, ImageInv

\* Pulling or swapping the card.
LEMMA SwapAll == ASSUME AllInv, Swap PROVE AllInv'
<1>0. TypeOK /\ CardInv /\ EndInv /\ FileInv /\ MemInv /\ ImageInv
    BY DEF AllInv, BootInv
<1>1. /\ UNCHANGED <<block, pc, boot, i, pos, load_end, alt_mem, mem, faults>>
      /\ ~ live' /\ live' \in BOOLEAN /\ card' \in Cards \union {NoCard} /\ pc # "jump"
      /\ swaps' \in 0 .. MaxSwaps
    <2>1. swaps' \in 0 .. MaxSwaps
        BY <1>0, Layout DEF Swap, TypeOK
    <2>2. ~ live' /\ live' \in BOOLEAN
        BY Zenon DEF Swap
    <2> QED BY <2>1, <2>2 DEF Swap, attempt
<1>2. TypeOK'
    BY <1>0, <1>1 DEF TypeOK, S
<1>3. CardInv' /\ MemInv'
    BY <1>0, <1>1 DEF CardInv, MemInv, ScratchIntact, InsideRam, Attempting, S
<1>4. /\ \A j \in 1 .. Len(boot.segs) : Begun(j)' = Begun(j)
      /\ \A j \in 1 .. Len(boot.segs), n \in Nat : Loaded(j, n)' = Loaded(j, n)
    BY <1>1 DEF Begun, Loaded, Loads
<1>5. EndInv' /\ FileInv'
    BY <1>0, <1>1, <1>4 DEF EndInv, FileInv, Attempting
<1>6. DataInv' /\ AltInv'
    BY <1>0, <1>1, <1>4 DEF ImageInv, DataInv, AltInv, Attempting, Address
<1>7. HandInv' /\ ImageInPlace' /\ DtbInPlace'
    BY <1>0, <1>1 DEF ImageInv, HandInv, ImageInPlace, DtbInPlace, Loads, Address
<1> QED BY <1>2, <1>3, <1>5, <1>6, <1>7 DEF AllInv, BootInv, ImageInv

\* Mounting, and going round main's loop.
LEMMA MountAll == ASSUME AllInv, Mount \/ Retry PROVE AllInv'
<1>0. TypeOK /\ MemInv /\ card.hc \in BOOLEAN
    BY SegTypes DEF AllInv, BootInv
<1>1. /\ UNCHANGED <<card, swaps, boot, i, pos, load_end, alt_mem, mem>>
      /\ live' \in BOOLEAN /\ block' \in BOOLEAN /\ pc' \in {"mount", "open", "wait"}
      /\ faults' \in 0 .. MaxFaults /\ pc # "jump"
      /\ pc' = "open" => block' = card'.hc
    <2>1. faults' \in 0 .. MaxFaults
        <3>1. faults' = faults \/ (faults < MaxFaults /\ faults' = faults + 1)
            BY Zenon DEF Mount, Retry, Fault
        <3> QED BY <1>0, <3>1, Layout DEF TypeOK
    <2>2. live' \in BOOLEAN /\ block' \in BOOLEAN
        <3>1. live' = live \/ live' = TRUE \/ live' = FALSE
            BY Zenon DEF Mount, Retry
        <3>2. block' = block \/ block' = card.hc \/ block' = FALSE
            BY Zenon DEF Mount, Retry
        <3>3. live' \in BOOLEAN
            BY <1>0, <3>1, Zenon DEF TypeOK
        <3>4. block' \in BOOLEAN
            BY <1>0, <3>2, Zenon DEF TypeOK
        <3> QED BY <3>3, <3>4
    <2>3. pc' = "open" => block' = card'.hc
        BY DEF Mount, Retry, slot
    <2>4. pc' \in {"mount", "open", "wait"} /\ pc # "jump"
        BY Zenon DEF Mount, Retry
    <2> QED BY <2>1, <2>2, <2>3, <2>4, Zenon DEF Mount, Retry, slot, attempt
<1>2. TypeOK' /\ MemInv'
    BY <1>0, <1>1 DEF TypeOK, MemInv, ScratchIntact, InsideRam, S
<1> QED BY <1>1, <1>2, GivenUp

\* Opening the file: nothing is loaded yet.
LEMMA OpenAll == ASSUME AllInv, Open PROVE AllInv'
<1>0. TypeOK /\ MemInv /\ CardInv
    BY DEF AllInv, BootInv
<1>1. pc = "open" /\ UNCHANGED <<card, swaps, live, block, alt_mem, mem>>
    BY DEF Open, slot
<1>2. MemInv'
    BY <1>0, <1>1 DEF Open, MemInv, ScratchIntact, InsideRam
<1>3. CASE pc' = "wait" /\ UNCHANGED attempt /\ faults' \in 0 .. MaxFaults
    <2>1. TypeOK'
        BY <1>0, <1>1, <1>3 DEF TypeOK, attempt, S
    <2> QED BY <1>2, <1>3, <2>1, GivenUp
<1>4. CASE /\ live /\ card.elf /\ boot' = card /\ i' = 1 /\ pos' = 0 /\ load_end' = NoLoad
           /\ pc' = "phdr" /\ UNCHANGED faults
    <2>1. card \in Cards /\ Len(boot'.segs) \in Nat
        BY <1>0, <1>4, CardAssumption DEF TypeOK, Card
    <2>2. i' \in 1 .. Len(boot'.segs) + 1 /\ pos' \in Nat /\ load_end' \in Int
        BY <1>4, <2>1 DEF NoLoad
    <2>3. TypeOK'
        BY <1>0, <1>1, <1>4, <2>2 DEF TypeOK
    <2>4. CardInv'
        BY <1>0, <1>1, <1>4, <2>1 DEF CardInv, Attempting
    <2>5. \A j \in 1 .. Len(boot'.segs) : ~ Begun(j)' /\ \A n \in Nat : ~ Loaded(j, n)'
        BY <1>4, <2>1 DEF Begun, Loaded
    <2>6. EndInv' /\ FileInv' /\ DataInv' /\ AltInv'
        BY <1>4, <2>5 DEF EndInv, FileInv, DataInv, AltInv, NoLoad
    <2>7. HandInv' /\ ImageInPlace' /\ DtbInPlace'
        BY <1>4 DEF HandInv, ImageInPlace, DtbInPlace
    <2> QED BY <1>2, <2>3, <2>4, <2>6, <2>7 DEF AllInv, BootInv, ImageInv
<1>5. faults' \in 0 .. MaxFaults
    <2>1. faults' = faults \/ (faults < MaxFaults /\ faults' = faults + 1)
        BY Zenon DEF Open, Fault
    <2> QED BY <1>0, <2>1, Layout DEF TypeOK
<1> QED BY <1>3, <1>4, <1>5 DEF Open

\* A program header: one to skip, or a segment of which nothing is loaded yet.
LEMMA PhdrAll == ASSUME AllInv, Phdr PROVE AllInv'
<1>0. TypeOK /\ MemInv /\ CardInv /\ EndInv /\ FileInv /\ ImageInv
    BY DEF AllInv, BootInv
<1>1. /\ pc = "phdr" /\ i \in 1 .. Len(boot.segs)
      /\ UNCHANGED <<card, swaps, live, block, alt_mem, mem>>
    BY <1>0 DEF Phdr, TypeOK, slot
<1>2. MemInv' /\ pc' # "jump" /\ pc' # "copy"
    BY <1>0, <1>1 DEF Phdr, MemInv, ScratchIntact, InsideRam
<1>3. faults' \in 0 .. MaxFaults
    <2>1. faults' = faults \/ (faults < MaxFaults /\ faults' = faults + 1)
        BY Zenon DEF Phdr, Fault
    <2> QED BY <1>0, <2>1, Layout DEF TypeOK
<1>4. HandInv' /\ ImageInPlace' /\ DtbInPlace'
    BY <1>2 DEF HandInv, ImageInPlace, DtbInPlace
<1>5. CASE pc' = "wait" /\ UNCHANGED attempt
    <2>1. TypeOK'
        BY <1>0, <1>1, <1>3, <1>5 DEF TypeOK, attempt, S
    <2> QED BY <1>2, <1>5, <2>1, GivenUp
<1>6. CASE ~ S.load /\ i' = i + 1 /\ UNCHANGED <<boot, pos, load_end, pc>>
    <2>1. TypeOK'
        BY <1>0, <1>1, <1>3, <1>6, SegTypes DEF TypeOK
    <2>2. /\ \A j \in 1 .. Len(boot.segs) : Begun(j)' = Begun(j)
          /\ \A j \in 1 .. Len(boot.segs), n \in Nat : Loaded(j, n)' = Loaded(j, n)
        BY <1>1, <1>6 DEF Begun, Loaded, Loads, S
    <2>3. CardInv' /\ EndInv' /\ FileInv'
        BY <1>0, <1>1, <1>6, <2>2 DEF CardInv, EndInv, FileInv, Attempting
    <2>4. DataInv' /\ AltInv'
        BY <1>0, <1>1, <1>6, <2>2 DEF ImageInv, DataInv, AltInv, Attempting, Address
    <2> QED BY <1>2, <1>4, <2>1, <2>3, <2>4 DEF AllInv, BootInv, ImageInv
<1>7. CASE /\ S.load /\ InRam(S)
           /\ load_end' = IF S.vaddr + S.memsz > load_end THEN S.vaddr + S.memsz ELSE load_end
           /\ pos' = 0 /\ pc' = "load" /\ UNCHANGED <<boot, i>>
    <2>1. PICK v \in Int, sz \in Nat : v = S.vaddr /\ sz = S.memsz
        BY <1>0, <1>1, SegTypes DEF S
    <2>2. /\ load_end' \in Int /\ load_end' >= load_end /\ load_end' >= v + sz /\ v >= 0
          /\ load_end' >= 0 /\ load_end \in Int
        BY <1>0, <1>7, <2>1 DEF TypeOK, InRam
    <2>3. TypeOK'
        BY <1>0, <1>1, <1>3, <1>7, <2>1, <2>2 DEF TypeOK, S
    <2>4. /\ \A j \in 1 .. Len(boot.segs) : Begun(j)' = (Begun(j) \/ j = i)
          /\ \A j \in 1 .. Len(boot.segs), n \in Nat : Loaded(j, n)' = Loaded(j, n)
        <3>1. /\ Loads(i) /\ i \in Int /\ pos' = 0
              /\ pc = "phdr" /\ pc' = "load" /\ UNCHANGED <<boot, i>>
            BY <1>1, <1>7 DEF Loads, S
        <3> QED BY <3>1 DEF Begun, Loaded, Loads
    <2>5. CardInv' /\ FileInv'
        BY <1>0, <1>1, <1>7, <2>4 DEF CardInv, FileInv, Attempting, S
    <2>6. EndInv'
        <3>1. load_end' >= NoLoad /\ (load_end' # NoLoad => load_end' >= 0)
            BY <2>2 DEF NoLoad
        <3>2. \E j \in 1 .. Len(boot.segs) : Begun(j)'
            BY <1>1, <2>4, Zenon
        <3>3. ASSUME NEW j \in 1 .. Len(boot.segs), Begun(j)'
              PROVE  InRam(boot.segs[j]) /\ boot.segs[j].vaddr + boot.segs[j].memsz <= load_end'
            <4>1. CASE j = i
                BY <1>7, <2>1, <2>2, <4>1 DEF S
            <4>2. CASE Begun(j)
                <5>1. PICK w \in Int : w = boot.segs[j].vaddr + boot.segs[j].memsz
                    BY <1>0, SegTypes
                <5>2. InRam(boot.segs[j]) /\ w <= load_end
                    BY <1>0, <1>1, <4>2, <5>1 DEF EndInv, Attempting
                <5>3. w <= load_end'
                    BY <2>2, <5>2
                <5> QED BY <5>1, <5>2, <5>3
            <4> QED BY <2>4, <3>3, <4>1, <4>2, Zenon
        <3> QED BY <1>7, <3>1, <3>2, <3>3 DEF EndInv
    <2>7. DataInv'
        <3> SUFFICES ASSUME load_end' <= Dst, NEW j \in 1 .. Len(boot.segs), NEW n \in Nat,
                            Loaded(j, n)
                     PROVE  mem[Staged(Address(j, n))] = Content(boot, boot.segs[j], n)
            BY <1>1, <1>7, <2>4 DEF DataInv, Address
        <3>1. load_end <= Dst
            BY <2>2, Layout
        <3> QED BY <1>0, <1>1, <3>1 DEF ImageInv, DataInv, Attempting
    <2>8. AltInv'
        BY <1>0, <1>1, <1>7, <2>4 DEF ImageInv, AltInv, Attempting, Address
    <2> QED BY <1>2, <1>4, <2>3, <2>5, <2>6, <2>7, <2>8 DEF AllInv, BootInv, ImageInv
<1> QED BY <1>5, <1>6, <1>7 DEF Phdr

\* Reading a piece.
LEMMA LoadAll == ASSUME AllInv, Load PROVE AllInv'
<1>0. TypeOK /\ BootInv /\ MemInv
    BY DEF AllInv, BootInv
<1>1. pc = "load" /\ pos < S.memsz /\ i \in 1 .. Len(boot.segs) /\ pos \in Nat
    <2>1. pc = "load" /\ pos < FileWords(S)
        BY DEF Load
    <2> QED BY <1>0, <2>1, LoadTypes
<1>2. PICK v \in Int, sz \in Nat, addr \in Nat, left \in Nat :
          AtPiece(v, sz, addr, left) /\ left > 0 /\ addr + left <= Ram
    BY <1>0, <1>1, PieceExists
<1>3. PICK m \in Nat :
          /\ m <= Piece(addr, left)
          /\ Advance(addr, m) \/ (pc' = "wait" /\ WritesOnly(Staged(addr), m))
    BY <1>0, <1>2, LoadAdvances
<1>4. m <= left /\ left = sz - pos
    BY <1>2, <1>3, PieceFacts DEF AtPiece
<1>5. /\ UNCHANGED <<card, swaps, live, block>> /\ faults' \in 0 .. MaxFaults
      /\ DOMAIN mem' = 0 .. Space - 1
    <2>1. UNCHANGED <<card, swaps, live, block>>
        BY DEF Load, slot
    <2>2. faults' = faults \/ (faults < MaxFaults /\ faults' = faults + 1)
        BY Zenon DEF Load, Fault
    <2>3. faults' \in 0 .. MaxFaults
        BY <1>0, <2>2, Layout DEF TypeOK
    <2>4. \/ mem' = mem
          \/ \E to, from, n : mem' = Transferred(to, from, n) \/ mem' = Buffered(to, from)
        BY Zenon DEF Load
    <2>5. DOMAIN mem' = 0 .. Space - 1
        BY <1>0, <2>4, Zenon DEF TypeOK, Transferred, Buffered
    <2> QED BY <2>1, <2>3, <2>5
<1>6. alt_mem' \in BOOLEAN
    BY DEF Load
<1>7. CASE Advance(addr, m)
    <2>1. pos' \in Nat /\ pos' <= sz /\ pc' = "load" /\ UNCHANGED <<boot, i, load_end>>
        BY <1>1, <1>4, <1>7 DEF Advance
    <2>2. TypeOK'
        BY <1>0, <1>1, <1>2, <1>5, <1>6, <2>1 DEF TypeOK, AtPiece, S
    <2> QED BY <1>1, <1>2, <1>3, <1>7, <2>2, AdvanceKeeps
<1>8. CASE pc' = "wait" /\ WritesOnly(Staged(addr), m)
    <2>1. UNCHANGED attempt
        BY <1>1, <1>8 DEF Load
    <2>2. TypeOK'
        BY <1>0, <1>5, <1>6, <1>8, <2>1 DEF TypeOK, attempt
    <2>3. MemInv'
        BY <1>0, <1>1, <1>2, <1>3, <1>8, WriteKeeps
    <2> QED BY <1>8, <2>2, <2>3, GivenUp
<1> QED BY <1>3, <1>7, <1>8

\* Clearing a piece, or being done with a segment.
LEMMA FillAll == ASSUME AllInv, Fill PROVE AllInv'
<1>0. TypeOK /\ BootInv /\ MemInv /\ CardInv /\ EndInv /\ FileInv /\ ImageInv
    BY DEF AllInv, BootInv
<1>1. /\ pc = "load" /\ i \in 1 .. Len(boot.segs) /\ pos \in Nat /\ S.memsz \in Nat
      /\ pos <= S.memsz /\ UNCHANGED <<card, swaps, live, block, boot, load_end, faults>>
    <2>1. pc = "load" /\ UNCHANGED <<card, swaps, live, block, boot, load_end, faults>>
        BY DEF Fill, slot
    <2> QED BY <1>0, <2>1, LoadTypes
<1>2. CASE pos < S.memsz
    <2>2. PICK v \in Int, sz \in Nat, addr \in Nat, left \in Nat :
              AtPiece(v, sz, addr, left) /\ left > 0 /\ addr + left <= Ram
        BY <1>0, <1>1, <1>2, PieceExists
    <2>3. PICK m \in Nat : m <= Piece(addr, left) /\ Advance(addr, m)
        BY <1>0, <1>2, <2>2, FillAdvances
    <2>4. m <= left /\ left = sz - pos
        BY <2>2, <2>3, PieceFacts DEF AtPiece
    <2>5. pos' \in Nat /\ pos' <= sz /\ pc' = "load" /\ UNCHANGED <<boot, i, load_end>>
        BY <1>1, <2>3, <2>4 DEF Advance
    <2>6. alt_mem' \in BOOLEAN
        BY <2>3 DEF Advance
    <2>7. DOMAIN mem' = 0 .. Space - 1
        BY <1>1, <1>2 DEF Fill
    <2>8. TypeOK'
        BY <1>0, <1>1, <2>2, <2>5, <2>6, <2>7 DEF TypeOK, AtPiece, S
    <2> QED BY <1>1, <2>2, <2>3, <2>8, AdvanceKeeps
<1>3. CASE pos = S.memsz
    <2>1. i' = i + 1 /\ pc' = "phdr" /\ UNCHANGED <<pos, alt_mem, mem>>
        BY <1>1, <1>3 DEF Fill
    <2>2. TypeOK'
        BY <1>0, <1>1, <2>1, SegTypes DEF TypeOK
    <2>3. /\ \A j \in 1 .. Len(boot.segs) : Begun(j)' = Begun(j)
          /\ \A j \in 1 .. Len(boot.segs), n \in Nat : Loaded(j, n)' = Loaded(j, n)
        BY <1>1, <1>3, <2>1 DEF Begun, Loaded, Loads, S
    <2>4. CardInv' /\ EndInv' /\ FileInv'
        BY <1>0, <1>1, <2>1, <2>3, ZenonT(30) DEF CardInv, EndInv, FileInv, Attempting
    <2>5. DataInv' /\ AltInv'
        BY <1>0, <1>1, <2>1, <2>3 DEF ImageInv, DataInv, AltInv, Attempting, Address
    <2>6. MemInv' /\ HandInv' /\ ImageInPlace' /\ DtbInPlace'
        BY <1>0, <1>1, <2>1 DEF MemInv, ScratchIntact, InsideRam, HandInv, ImageInPlace, DtbInPlace
    <2> QED BY <2>2, <2>4, <2>5, <2>6 DEF AllInv, BootInv, ImageInv
<1> QED BY <1>1, <1>2, <1>3

\* The copy of the device tree leaves the image, the scratch memory and what is
\* beyond RAM alone.
LEMMA DtbAll == ASSUME AllInv, Dtb PROVE AllInv'
<1>0. /\ TypeOK /\ MemInv /\ CardInv /\ EndInv /\ FileInv /\ DataInv /\ AltInv
      /\ Attempting
    BY DEF AllInv, BootInv, ImageInv, Attempting, Dtb
<1>1. /\ pc = "phdr" /\ i > Len(boot.segs) /\ i \in Nat /\ Len(boot.segs) \in Nat
      /\ UNCHANGED <<card, swaps, live, block, boot, i, pos, load_end, alt_mem, faults>>
    BY <1>0, SegTypes DEF Dtb, TypeOK, slot, attempt
<1>2. CASE ~ ImageEnds /\ pc' = "wait" /\ UNCHANGED mem
    <2>1. TypeOK' /\ MemInv'
        BY <1>0, <1>1, <1>2 DEF TypeOK, MemInv, ScratchIntact, InsideRam, S
    <2> QED BY <1>2, <2>1, GivenUp
<1>3. CASE ImageEnds /\ mem' = WithDtb(mem) /\ pc' = IF alt_mem THEN "copy" ELSE "jump"
    <2>1. pc' \in {"copy", "jump"} /\ (pc' = "jump" => ~ alt_mem)
        BY <1>3
    <2>2. TypeOK'
        BY <1>0, <1>1, <1>3, <2>1 DEF TypeOK, WithDtb
    <2>3. /\ \A a \in 0 .. Space - 1 :
              a < Dst \/ a >= Dst + DtbSize + DtbSlack => mem'[a] = mem[a]
          /\ \A a \in 0 .. Space - 1 :
              /\ a = Dst => mem'[a] = DtbGrown
              /\ Dst < a /\ a < Dst + DtbSize => mem'[a] = DtbWord(a - Dst)
              /\ Dst + DtbSize <= a /\ a < Dst + DtbSize + DtbSlack => mem'[a] = Zero
        BY <1>3, Layout DEF WithDtb
    <2>4. MemInv'
        <3>1. \A a \in 0 .. End - 1 : a \in 0 .. Space - 1 /\ a < Dst
            BY Layout
        <3>2. \A a \in 0 .. End - 1 : mem[a] = Rom
            BY <1>0, <1>1 DEF MemInv, ScratchIntact
        <3>3. \A a \in 0 .. End - 1 : mem'[a] = Rom
            BY <2>3, <3>1, <3>2
        <3>4. \A a \in Ram .. Space - 1 : a \in 0 .. Space - 1 /\ a >= Dst + DtbSize + DtbSlack
            BY Layout
        <3>5. \A a \in Ram .. Space - 1 : mem'[a] = Unused
            BY <1>0, <2>3, <3>4 DEF MemInv, InsideRam
        <3> QED BY <3>3, <3>5 DEF MemInv, ScratchIntact, InsideRam
    <2>5. \A j \in 1 .. Len(boot.segs), n \in Nat :
             Loads(j) /\ n < boot.segs[j].memsz => Loaded(j, n)
        BY <1>0, <1>1, SegTypes DEF Loaded
    <2>6. \A j \in 1 .. Len(boot.segs) : Loads(j) => Begun(j)
        BY <1>1 DEF Begun
    <2>7. load_end <= Dst /\ load_end >= 0 /\ load_end \in Int /\ load_end # NoLoad
        BY <1>0, <1>3 DEF ImageEnds, TypeOK, NoLoad
    <2>8. ASSUME NEW j \in 1 .. Len(boot.segs), Loads(j)
          PROVE  boot.segs[j].vaddr >= 0 /\ boot.segs[j].vaddr + boot.segs[j].memsz <= Dst
        <3>1. PICK w \in Int, e \in Int :
                  w = boot.segs[j].vaddr /\ e = boot.segs[j].vaddr + boot.segs[j].memsz
            BY <1>0, SegTypes
        <3>2. w >= 0 /\ e <= load_end
            BY <1>0, <2>6, <2>8, <3>1 DEF EndInv, InRam
        <3>3. e <= Dst
            BY <2>7, <3>2, Layout
        <3> QED BY <3>1, <3>2, <3>3
    <2>9. ASSUME NEW j \in 1 .. Len(boot.segs), NEW n \in Nat, Loads(j), n < boot.segs[j].memsz
          PROVE  /\ mem'[Staged(Address(j, n))] = Content(boot, boot.segs[j], n)
                 /\ Address(j, n) < End => alt_mem
        <3>1. Loaded(j, n)
            BY <2>5, <2>9
        <3>2. mem[Staged(Address(j, n))] = Content(boot, boot.segs[j], n)
            BY <1>0, <2>7, <3>1 DEF DataInv
        <3>3. Address(j, n) \in Nat /\ Address(j, n) < Dst
            <4>1. PICK w \in Int, wz \in Nat : w = boot.segs[j].vaddr /\ wz = boot.segs[j].memsz
                BY <1>0, SegTypes
            <4>2. w >= 0 /\ w + wz <= Dst /\ n < wz /\ Address(j, n) = w + n
                BY <2>8, <2>9, <4>1 DEF Address
            <4> QED BY <4>2, Layout
        <3>4. mem'[Staged(Address(j, n))] = mem[Staged(Address(j, n))]
            BY <2>3, <3>3, StagedPlace
        <3> QED BY <1>0, <3>1, <3>2, <3>4 DEF AltInv
    <2>10. Bootable(boot)
        <3>1. boot.elf /\ \E j \in 1 .. Len(boot.segs) : boot.segs[j].load
            <4>1. boot.elf
                BY <1>0 DEF CardInv
            <4>2. \E j \in 1 .. Len(boot.segs) : Begun(j)
                BY <1>0, <2>7 DEF EndInv
            <4> QED BY <4>1, <4>2 DEF Begun, Loads
        <3>2. ASSUME NEW j \in 1 .. Len(boot.segs), Loads(j), FileWords(boot.segs[j]) > 0
              PROVE  boot.segs[j].offset + FileWords(boot.segs[j]) <= boot.len
            <4>1. PICK off \in Nat, fw \in Nat, wz \in Nat, len \in Nat :
                      /\ off = boot.segs[j].offset /\ fw = FileWords(boot.segs[j])
                      /\ wz = boot.segs[j].memsz /\ len = boot.len /\ fw <= wz
                BY <1>0, SegTypes
            <4>2. PICK n \in Nat : n = fw - 1
                BY <3>2, <4>1
            <4>3. n < wz /\ n < fw
                BY <4>1, <4>2
            <4>4. off + n < len
                BY <1>0, <2>5, <3>2, <4>1, <4>3 DEF FileInv
            <4>5. off + fw <= len
                BY <4>2, <4>4
            <4> QED BY <4>1, <4>5
        <3> QED BY <2>8, <3>1, <3>2 DEF Bootable, Loads
    <2>11. HandInv'
        <3>1. \A j \in 1 .. Len(boot.segs) : Loads(j)' = Loads(j) /\
                 \A n \in Nat : Address(j, n)' = Address(j, n)
            BY <1>1 DEF Loads, Address
        <3>2. Bootable(boot')
            BY <1>1, <2>10
        <3> QED BY <1>1, <2>3, <2>9, <3>1, <3>2, ZenonT(30) DEF HandInv
    <2>12. DtbInPlace'
        BY <2>3 DEF DtbInPlace
    <2>13. ImageInPlace'
        <3> SUFFICES ASSUME pc' = "jump", NEW j \in 1 .. Len(boot.segs), boot.segs[j].load,
                            NEW n \in 0 .. boot.segs[j].memsz - 1
                     PROVE  mem'[boot.segs[j].vaddr + n] = Content(boot, boot.segs[j], n)
            BY <1>1 DEF ImageInPlace
        <3>1. n \in Nat /\ n < boot.segs[j].memsz /\ Loads(j)
            BY <1>0, SegTypes DEF Loads
        <3>2. ~ (Address(j, n) < End)
            BY <2>1, <2>9, <3>1
        <3>3. Staged(Address(j, n)) = boot.segs[j].vaddr + n
            BY <3>2 DEF Staged, Address
        <3> QED BY <2>9, <3>1, <3>3
    <2>14. CardInv' /\ EndInv' /\ FileInv' /\ DataInv' /\ AltInv'
        BY <2>1 DEF CardInv, EndInv, FileInv, DataInv, AltInv, Attempting
    <2> QED BY <2>2, <2>4, <2>11, <2>12, <2>13, <2>14 DEF AllInv, BootInv, ImageInv
<1> QED BY <1>2, <1>3 DEF Dtb

\* Moving the staged words down puts the rest of the image in place.
LEMMA CopyAll == ASSUME AllInv, Copy PROVE AllInv'
<1>0. TypeOK /\ MemInv /\ HandInv
    BY DEF AllInv, BootInv, ImageInv
<1>1. /\ pc = "copy" /\ pc' = "jump"
      /\ UNCHANGED <<card, swaps, live, block, boot, i, pos, load_end, alt_mem, faults>>
      /\ mem' = [a \in 0 .. Space - 1 |-> IF a < End THEN mem[Alt + a] ELSE mem[a]]
    BY DEF Copy, slot, attempt
<1>2. TypeOK'
    BY <1>0, <1>1 DEF TypeOK
<1>3. MemInv'
    BY <1>0, <1>1, Layout DEF MemInv, ScratchIntact, InsideRam
<1>4. DtbInPlace'
    <2>1. \A a \in 0 .. Space - 1 : a >= Dst => mem'[a] = mem[a]
        BY <1>1, Layout
    <2>2. \A a \in 0 .. Space - 1 :
              /\ a = Dst => mem'[a] = DtbGrown
              /\ Dst < a /\ a < Dst + DtbSize => mem'[a] = DtbWord(a - Dst)
              /\ Dst + DtbSize <= a /\ a < Dst + DtbSize + DtbSlack => mem'[a] = Zero
        BY <1>0, <1>1, <2>1, Layout DEF HandInv
    <2> QED BY <2>2 DEF DtbInPlace
<1>5. ImageInPlace'
    <2> SUFFICES ASSUME NEW j \in 1 .. Len(boot.segs), boot.segs[j].load,
                        NEW n \in 0 .. boot.segs[j].memsz - 1
                 PROVE  mem'[boot.segs[j].vaddr + n] = Content(boot, boot.segs[j], n)
        BY <1>1 DEF ImageInPlace
    <2>1. n \in Nat /\ n < boot.segs[j].memsz /\ Loads(j)
        BY <1>0, SegTypes DEF Loads
    <2>2. mem[Staged(Address(j, n))] = Content(boot, boot.segs[j], n)
        BY <1>0, <1>1, <2>1, Zenon DEF HandInv
    <2>3. PICK w \in Int, wz \in Nat : w = boot.segs[j].vaddr /\ wz = boot.segs[j].memsz
        BY <1>0, SegTypes, Zenon
    <2>4. w >= 0 /\ w + wz <= Dst
        BY <1>0, <1>1, <2>3, Zenon DEF HandInv, Bootable
    <2>5. PICK x \in Nat : x = w + n
        BY <2>1, <2>4
    <2>6. x < Dst /\ Address(j, n) = x
        <3>1. Address(j, n) = x /\ n < wz
            BY <2>1, <2>3, <2>5 DEF Address
        <3>2. Dst \in Nat
            BY Layout
        <3>3. w \in Int /\ wz \in Nat /\ n \in Nat
            BY <2>1, <2>3
        <3>4. x < Dst
            BY <2>4, <2>5, <3>1, <3>2, <3>3
        <3> QED BY <3>1, <3>4
    <2>7. mem'[x] = mem[Staged(x)]
        BY <1>1, <2>6, Layout DEF Staged
    <2> QED BY <2>2, <2>3, <2>5, <2>6, <2>7
<1>6. HandInv' /\ CardInv' /\ EndInv' /\ FileInv' /\ DataInv' /\ AltInv'
    BY <1>0, <1>1, Zenon DEF HandInv, CardInv, EndInv, FileInv, DataInv, AltInv, Attempting
<1> QED BY <1>2, <1>3, <1>4, <1>5, <1>6 DEF AllInv, BootInv, ImageInv

\* Every step.
LEMMA NextAll == AllInv /\ [Next]_vars => AllInv'
<1> SUFFICES ASSUME AllInv, [Next]_vars PROVE AllInv'
    OBVIOUS
<1>1. CASE Swap
    BY <1>1, SwapAll
<1>2. CASE Mount \/ Retry
    BY <1>2, MountAll
<1>3. CASE Open
    BY <1>3, OpenAll
<1>4. CASE Phdr
    BY <1>4, PhdrAll
<1>5. CASE Load
    BY <1>5, LoadAll
<1>6. CASE Fill
    BY <1>6, FillAll
<1>7. CASE Dtb
    BY <1>7, DtbAll
<1>8. CASE Copy
    BY <1>8, CopyAll
<1>9. CASE UNCHANGED vars
    <2>1. UNCHANGED <<card, swaps, live, block, pc, boot, i, pos, load_end, alt_mem, mem, faults>>
        BY <1>9 DEF vars, slot, attempt
    <2>2. BootInv'
        <3>1. TypeOK' /\ CardInv'
            BY <2>1 DEF AllInv, BootInv, TypeOK, CardInv, Attempting, S
        <3>2. EndInv'
            BY <2>1 DEF AllInv, BootInv, EndInv, Attempting, Begun, Loads
        <3>3. FileInv'
            BY <2>1 DEF AllInv, BootInv, FileInv, Attempting, Loaded, Loads
        <3> QED BY <3>1, <3>2, <3>3 DEF BootInv
    <2>3. MemInv'
        BY <2>1 DEF AllInv, MemInv, ScratchIntact, InsideRam
    <2>4. ImageInv'
        BY <2>1, ZenonT(30) DEF AllInv, ImageInv, DataInv, AltInv, HandInv, ImageInPlace, DtbInPlace,
                    Attempting, Loaded, Loads, Address
    <2> QED BY <2>2, <2>3, <2>4 DEF AllInv
<1> QED BY <1>1, <1>2, <1>3, <1>4, <1>5, <1>6, <1>7, <1>8, <1>9 DEF Next, Main
-----------------------------------------------------------------------------
\* The inductive invariant.
THEOREM SdBootInvariant == Safety => []AllInv
BY InitAll, NextAll, PTL DEF Safety

\* The variables keep their types, and pos never passes p_memsz.
THEOREM SdBootTypeTheorem == Safety => []TypeOK
<1>1. AllInv => TypeOK
    BY DEF AllInv, BootInv
<1> QED BY <1>1, SdBootInvariant, PTL

\* The ROM's variables and stack are not written over before the jump, wherever
\* the segments of a BOOT.ELF are and however often the card is swapped.
THEOREM ScratchTheorem == Safety => []ScratchIntact
<1>1. AllInv => ScratchIntact
    BY DEF AllInv, MemInv
<1> QED BY <1>1, SdBootInvariant, PTL

\* Nothing outside RAM is written, wherever the segments are.
THEOREM InsideTheorem == Safety => []InsideRam
<1>1. AllInv => InsideRam
    BY DEF AllInv, MemInv
<1> QED BY <1>1, SdBootInvariant, PTL

\* At the jump every word of the image is where the ELF wants it, with what the
\* card in the slot when the file was opened has there.
THEOREM ImageTheorem == Safety => []ImageInPlace
<1>1. AllInv => ImageInPlace
    BY DEF AllInv, ImageInv
<1> QED BY <1>1, SdBootInvariant, PTL

\* At the jump the copy of the device tree is whole.
THEOREM DtbTheorem == Safety => []DtbInPlace
<1>1. AllInv => DtbInPlace
    BY DEF AllInv, ImageInv
<1> QED BY <1>1, SdBootInvariant, PTL

\* Only what can be started is.
THEOREM RefusesTheorem == Safety => []RefusesRest
<1>1. AllInv => RefusesRest
    BY Zenon DEF AllInv, ImageInv, HandInv, RefusesRest
<1> QED BY <1>1, SdBootInvariant, PTL
=============================================================================
