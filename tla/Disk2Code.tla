----------------------------- MODULE Disk2Code ------------------------------
(***************************************************************************)
(* A track of an Apple II disk image as the nibbles a drive sees, and back *)
(* (Disk2Image in plugins/machines/apple2/main/disk2.cpp): the 6-and-2     *)
(* code of a sector, address and data fields, and the search for them in a *)
(* track that starts anywhere.  A disk byte stands for its 6-bit value, or *)
(* is one of the marks, which no value's byte equals.                      *)
(***************************************************************************)
EXTENDS Integers, Sequences, SequencesExt, Bitwise

CONSTANTS CodeSectors,  \* sectors of a track (16)
          CodeTriples,  \* values of low bits in a sector (86)
          CodeStarts    \* where in the track the drive's buffer begins

ASSUME CodeAssumption == 
    CodeSectors \in Nat \ {0} /\ CodeTriples \in Nat \ {0, 1} /\ CodeStarts \subseteq Nat

\* Bytes of a sector (256: two short of a multiple of three), the 6-bit values
\* they become (342), and with the checksum (343).
SectorBytes == (3 * CodeTriples) - 2
Values == SectorBytes + CodeTriples
Chained == Values + 1

VARIABLE code           \* a track of an image on its way to nibbles and back

\* Disk bytes that are no value's: $FF in gaps, D5 AA 96 and D5 AA AD.
Gap == 64
Mark == 65
Second == 66
AddressMark == 67
DataMark == 68

\* A sector's bytes: enough patterns to tell bits and places apart.
Patterns == {<<1, 0>>, <<77, 3>>}
SectorOf(p) == [i \in 0 .. SectorBytes - 1 |-> (p[1] * i + p[2]) % 256]

CodeInit ==
    code \in {[sectors |-> [s \in 0 .. CodeSectors - 1 |-> SectorOf(IF s = 0 THEN a ELSE <<5, 1>>)],
               dos |-> order, start |-> k, at |-> "image", track |-> <<>>, bufs |-> <<>>, out |-> <<>>] :
              a \in Patterns, order \in BOOLEAN, k \in CodeStarts}
-----------------------------------------------------------------------------
\* The three bytes whose low bits are together; the last two triples wrap.
Triple(n) == <<((2 * CodeTriples) + n) % SectorBytes, CodeTriples + n, n>>
Bits2(a) == ((a % 2) * 2) + ((a \div 2) % 2)

\* Code62: the values of low bits, those of high bits, chained with XOR.
Six(sector) ==
    [i \in 1 .. Values |->
        IF i <= CodeTriples
        THEN LET t == Triple(i - 1)
                 v == (Bits2(sector[t[1]]) * 16) + (Bits2(sector[t[2]]) * 4) + Bits2(sector[t[3]])
             IN  IF i >= CodeTriples - 1 THEN v % 16 ELSE v
        ELSE sector[i - CodeTriples - 1] \div 4]

NibblizeSector(six) ==
    [i \in 1 .. Chained |->
        IF i = 1 THEN six[1] ELSE IF i = Chained THEN six[Values] ELSE six[i - 1] ^^ six[i]]

\* Decode62
Unchained(in) ==
    FoldLeft(LAMBDA acc, i : Append(acc, in[i] ^^ acc[Len(acc)]), <<in[1]>>, [i \in 1 .. Values - 1 |-> i + 1])

\* Faulty: the two bits of a byte are not swapped back.
LowBitsPlain(v, k) == (v \div 4 ^ (2 - k)) % 4

\* The bits of byte k of a low value, swapped back.
LowBits(v, k) == Bits2((v \div 4 ^ (2 - k)) % 4)

\* Which triple a byte is in, and its place there.
WalkOf(o) ==
    IF o >= 2 * CodeTriples THEN <<o - (2 * CodeTriples), 0>>
    ELSE IF o >= CodeTriples THEN <<o - CodeTriples, 1>> ELSE <<o, 2>>

DenibblizeSector(buf) ==
    [o \in 0 .. SectorBytes - 1 |->
        LET w == WalkOf(o) IN (buf[o + CodeTriples + 1] * 4) + LowBits(buf[w[1] + 1], w[2])]
-----------------------------------------------------------------------------
\* The image's sector that a sector of the track holds (SECTOR_NUMBER).
InImage(dos, s) == IF dos THEN CodeSectors - 1 - s ELSE s

\* Four-and-four pairs are one cell here, and gaps are shorter than the format's.
AddressField(s) == <<Mark, Second, AddressMark, s>>
FieldLen == 4 + 2 + 3 + Chained + 2

\* nibblize(): gap 1, then for each sector its address, gap 2, its data, gap 3.
NibblizeTrack(coded) ==
    [i \in 1 .. 3 + (CodeSectors * FieldLen) |->
        LET s == (i - 4) \div FieldLen
            j == ((i - 4) % FieldLen) + 1
        IN  IF i <= 3 THEN Gap
            ELSE IF j <= 4 THEN AddressField(s)[j]
            ELSE IF j <= 6 THEN Gap
            ELSE IF j <= 9 THEN <<Mark, Second, DataMark>>[j - 6]
            ELSE IF j <= 9 + Chained THEN coded[s][j - 9]
            ELSE Gap]

\* SkewTrack: the buffer starts k nibbles on.
Skewed(t, k) == [i \in 1 .. Len(t) |-> t[((i - 1 + k) % Len(t)) + 1]]

\* denibblize(): from where it is, to the next mark and its two bytes.
NextMark(t, at) ==
    LET n == Len(t)
        found == {i \in 0 .. n - 1 : t[((at + i) % n) + 1] = Mark}
    IN  IF found = {} THEN at ELSE (at + (CHOOSE i \in found : \A k \in found : i <= k)) % n

Cell(t, at) == t[(at % Len(t)) + 1]

\* Faulty: as many fields as the track has, none twice.
Fields == 2 * CodeSectors

FieldsAndOne == (2 * CodeSectors) + 1

\* One field: an address names the sector whose data comes next.
RECURSIVE Denibblized(_, _, _, _, _)
Denibblized(t, at, parts, sector, out) ==
    IF parts = 0 THEN out
    ELSE LET m == NextMark(t, at)
             after == (m + 3) % Len(t)
             kind == Cell(t, m + 2)
         IN  IF Cell(t, m + 1) # Second THEN Denibblized(t, after, parts - 1, sector, out)
             ELSE IF kind = AddressMark THEN Denibblized(t, after, parts - 1, Cell(t, after), out)
             ELSE Denibblized(t, after, parts - 1, 0,
                              IF sector < 0 THEN out ELSE [out EXCEPT ![sector] = after])

\* Where each sector's data field begins, as the search finds it; -1, not found.
FoundAt(t) == Denibblized(t, 0, FieldsAndOne, -1, [s \in 0 .. CodeSectors - 1 |-> -1])

\* A field's nibbles, unchained; a sector not found is zeroes.
Buffers(t, at) ==
    [s \in 0 .. CodeSectors - 1 |->
        IF at[s] < 0 THEN [i \in 1 .. Values |-> 0]
        ELSE Unchained([i \in 1 .. Chained |-> Cell(t, at[s] + i - 1)])]

\* readTrack() from the image, and writeTrack() back, as far as the nibbles and
\* then to the image's sectors.
ReadNibbles ==
    /\ code.at = "image"
    /\ code' = [code EXCEPT !.at = "nibbles", !.track =
            Skewed(NibblizeTrack([s \in 0 .. CodeSectors - 1 |->
                       NibblizeSector(Six(code.sectors[InImage(code.dos, s)]))]), code.start)]

FindSectors ==
    /\ code.at = "nibbles"
    /\ \E at \in {FoundAt(code.track)} :
          code' = [code EXCEPT !.at = "found", !.track = <<>>, !.bufs = Buffers(code.track, at)]

WriteSectors ==
    /\ code.at = "found"
    /\ code' = [code EXCEPT !.at = "done", !.bufs = <<>>, !.out =
            [s \in 0 .. CodeSectors - 1 |-> DenibblizeSector(code.bufs[InImage(code.dos, s)])]]

CodeNext == ReadNibbles \/ FindSectors \/ WriteSectors

(***************************************************************************)
(* A track written to the drive's buffer and back is the image's track,    *)
(* wherever in a field the buffer begins and in either sector order        *)
(* (nibblize, denibblize and the 6-and-2 code).                            *)
(***************************************************************************)
CodeRoundTrip == code.at = "done" => code.out = code.sectors
=============================================================================
