-------------------------------- MODULE Vera --------------------------------
(***************************************************************************)
(* VERA, the Commander X16's video and audio chip (plugins/devices/vera/   *)
(* main/vera.cpp, vera_pcm.cpp): the two address ports into video memory   *)
(* with the FX unit behind them, the raster with its interrupts, the PCM   *)
(* queue, and the lines of sprites and tiles it draws.                     *)
(*                                                                         *)
(* Sizes are reduced and their relations kept.  A byte has 4 bits, so a    *)
(* nibble has 2; video memory has 16 cells, addressed by three registers   *)
(* of 2, 1 and 1 bits; an FX position has one bit of fraction.             *)
(***************************************************************************)
EXTENDS Integers, Sequences, FiniteSets, SequencesExt

CONSTANTS VeraFx,       \* FX_CTRL settings a program uses
          VeraBytes,    \* bytes a program writes
          VeraAt,       \* addresses a program sets
          VeraIncs,     \* increments a program sets
          MaxVeraOps    \* bound: register accesses

VARIABLES vera,     \* the ports and the FX unit
          vram,     \* m_vram
          vshadow,  \* m_palette, m_spriteData and the PSG's registers, by cell
          vpast     \* history: ports whose byte another access has overtaken, cells
                    \* whose shadow was not written with them, and accesses so far

veraVars == <<vera, vram, vshadow, vpast>>

Cells == 0 .. 15
Byte == 0 .. 15
Hi(v) == v \div 4
Lo(v) == v % 4
Join(h, l) == (4 * h) + l
Special == 12 .. 15     \* PSG, palette and sprite attributes
HopLong == 8            \* 320
FxMod == 32             \* 2^32, of positions with one bit of fraction

VeraMode ==
    [mode : 0 .. 3, four : BOOLEAN, hop : BOOLEAN, cycle : BOOLEAN,
     fill : BOOLEAN, write : BOOLEAN, trans : BOOLEAN]
FxOff == [mode |-> 0, four |-> FALSE, hop |-> FALSE, cycle |-> FALSE,
          fill |-> FALSE, write |-> FALSE, trans |-> FALSE]

ASSUME VeraAssumption ==
    /\ VeraFx \subseteq VeraMode /\ VeraBytes \subseteq Byte /\ VeraAt \subseteq Cells
    /\ VeraIncs \subseteq [by : {0, 1, 2, 4, HopLong}, down : BOOLEAN] /\ MaxVeraOps \in Nat

NoInc == [by |-> 0, down |-> FALSE]
Both(x) == [s \in 0 .. 1 |-> x]

\* What videoReset() makes of the ports and the FX unit.
VeraReset ==
    [addr |-> Both(0), inc |-> Both(NoInc), rd |-> Both(0), nib |-> Both(FALSE),
     nibInc |-> Both(FALSE), sel |-> 0, ctrl |-> FxOff, poly2 |-> FALSE, poking |-> FALSE,
     clip |-> FALSE, tiles |-> 0, map |-> 0, size |-> 2, x |-> 1, y |-> 1, xi |-> 0, yi |-> 0,
     len |-> 0, cache |-> [k \in 0 .. 3 |-> 0], at |-> 0, low |-> FALSE, pair |-> FALSE,
     mult |-> FALSE, sub |-> FALSE, acc |-> 0, align |-> 0]

\* The pattern reset() leaves in memory; the shadows are zero.
VramReset == [c \in Cells |-> (c * 7 + 3) % 16]

\* The FX registers as a program has set them before it sets the ports.
VeraInit ==
    /\ \E c \in VeraFx, n \in {0, 3}, b \in BOOLEAN :
          vera = [VeraReset EXCEPT !.ctrl = c, !.xi = n, !.yi = 1, !.poly2 = b, !.mult = b, !.clip = b,
                                   !.tiles = 8, !.nibInc = Both(c.four), !.cache = [k \in 0 .. 3 |-> (5 * k) % 16]]
    /\ vram = VramReset
    /\ vshadow = [c \in Special |-> 0]
    /\ vpast = [stale |-> {0, 1}, apart |-> Special, ops |-> 0]
-----------------------------------------------------------------------------
\* getAndIncAddress(): the ports after an access through port s.
StepBy(i) == IF i.down THEN -i.by ELSE i.by
Moved(v, s, n) == [v EXCEPT !.addr = [@ EXCEPT ![s] = (@ + n) % 16]]

\* Half a byte on, in the direction of increment i.
NibbleOn(v, s, i) ==
    [Moved(v, s, IF v.nib[s] /\ ~i.down THEN 1 ELSE IF ~v.nib[s] /\ i.down THEN -1 ELSE 0)
        EXCEPT !.nib = [@ EXCEPT ![s] = ~@]]

Hopped(v, s) ==
    LET n == StepBy(v.inc[s]) IN
    IF s = 1 /\ v.ctrl.hop /\ n \in {4, HopLong}
    THEN IF v.align = v.addr[1] % 4 THEN 1 ELSE n - 1 ELSE n

\* Line draw: across in port 1's steps, and in port 0's when X passes a pixel.
LineOn(v) ==
    LET x == (v.x + v.xi) % FxMod IN
    IF (x \div 2) % 2 = 0 THEN [v EXCEPT !.x = x]
    ELSE LET w == [v EXCEPT !.x = x - 2]
         IN  Moved(IF v.ctrl.four /\ v.nibInc[0] THEN NibbleOn(w, 1, v.inc[0]) ELSE w, 1, StepBy(v.inc[0]))

Slid(v) == [v EXCEPT !.x = (@ + v.xi) % FxMod, !.y = (@ + v.yi) % FxMod]

\* Polygon fill: X and Y are the edges of a row, and port 1 goes to X.
PolyOn(v, s) ==
    LET w == [Slid(v) EXCEPT !.len = ((((v.y + v.yi) % FxMod) \div 2) - (((v.x + v.xi) % FxMod) \div 2)) % 16]
        u == IF s = 0 /\ v.ctrl.cycle /\ ~v.ctrl.fill THEN [w EXCEPT !.at = (@ + 1) % 4] ELSE w
        px == u.x \div 2
    IN  IF s = 0 THEN u
        ELSE IF u.ctrl.four
        THEN [u EXCEPT !.addr = [@ EXCEPT ![1] = (u.addr[0] + (px \div 2)) % 16],
                       !.nib = [@ EXCEPT ![1] = px % 2 = 1]]
        ELSE [u EXCEPT !.addr = [@ EXCEPT ![1] = (u.addr[0] + px) % 16]]

GetAndInc(v, s, write) ==
    LET n == Hopped(v, s)
        u == Moved(IF v.ctrl.four /\ v.nibInc[s] /\ v.inc[s].by = 0
                   THEN NibbleOn(v, s, v.inc[s]) ELSE v, s, n)
    IN  IF s = 1 /\ v.ctrl.mode = 1 THEN LineOn(u)
        ELSE IF v.ctrl.mode = 2 /\ ~write THEN PolyOn(u, s)
        ELSE IF s = 1 /\ v.ctrl.mode = 3 /\ ~write THEN Slid(u)
        ELSE u

\* fxAffinePrefetch(): the texel at X, Y (tiles of 2 by 2 pixels) in port 1.
AffineAt(v) ==
    LET px == v.x \div 2
        py == v.y \div 2
        f == IF v.ctrl.four THEN 2 ELSE 1
        tx == IF v.clip THEN px \div 2 ELSE (px \div 2) % v.size
        ty == IF v.clip THEN py \div 2 ELSE (py \div 2) % v.size
        in == v.tiles + ((py % 2) * (2 \div f)) + ((px % 2) \div f)
    IN  IF tx >= v.size \/ ty >= v.size THEN in % 16
        ELSE (in + (vram[(v.map + (ty * v.size) + tx) % 16] * (4 \div f))) % 16

Prefetched(v) ==
    IF v.ctrl.mode # 3 THEN v
    ELSE [v EXCEPT !.addr = [@ EXCEPT ![1] = AffineAt(v)],
                   !.nib = [@ EXCEPT ![1] = v.ctrl.four /\ (v.x \div 2) % 2 = 1],
                   !.rd = [@ EXCEPT ![1] = vram[AffineAt(v)]]]

\* What a read puts into the cache, and where the next one goes.
Filled(v, byte, nibble) ==
    LET k == v.at
        half == IF nibble THEN Lo(byte) ELSE Hi(byte)
    IN  IF ~v.ctrl.fill THEN v
        ELSE IF ~v.ctrl.four
        THEN [v EXCEPT !.cache = [@ EXCEPT ![k] = byte],
                       !.at = IF v.pair THEN (2 * (k \div 2)) + ((k + 1) % 2) ELSE (k + 1) % 4]
        ELSE IF v.low
        THEN [v EXCEPT !.cache = [@ EXCEPT ![k] = Join(Hi(@), half)], !.low = FALSE, !.at = (k + 1) % 4]
        ELSE [v EXCEPT !.cache = [@ EXCEPT ![k] = Join(half, Lo(@))], !.low = TRUE]
-----------------------------------------------------------------------------
Counted(stale, apart) ==
    /\ vpast.ops < MaxVeraOps
    /\ vpast' = [stale |-> stale, apart |-> apart, ops |-> vpast.ops + 1]

\* Faulty: the byte at the address before the step is prefetched.
ReadDataEarly(s) ==
    LET u == GetAndInc(vera, s, FALSE)
    IN  /\ vera' = Filled([u EXCEPT !.rd = [@ EXCEPT ![s] = vram[vera.addr[s]]]], vera.rd[s], vera.nib[s])
        /\ Counted(vpast.stale \ {s}, vpast.apart) /\ UNCHANGED <<vram, vshadow>>

\* DATA0 or DATA1 read: the prefetched byte; the next one is fetched.
ReadData(s) ==
    LET u == GetAndInc(vera, s, FALSE)
        w == IF s = 1 /\ u.ctrl.mode = 3 THEN Prefetched(u)
             ELSE [u EXCEPT !.rd = [@ EXCEPT ![s] = vram[u.addr[s]]]]
    IN  /\ vera' = Filled(w, vera.rd[s], vera.nib[s])
        /\ Counted(vpast.stale \ {s}, vpast.apart) /\ UNCHANGED <<vram, vshadow>>

Signed(lo, hi) == LET n == (16 * hi) + lo IN IF n >= 128 THEN n - 256 ELSE n
FxMultiply(v) == Signed(v.cache[0], v.cache[1]) * Signed(v.cache[2], v.cache[3])
Accumulated(v) == (IF v.sub THEN v.acc - FxMultiply(v) ELSE v.acc + FxMultiply(v)) % 65536

\* A cell after a cache write of byte b where the mask keeps nibbles.
Masked(old, b, mask) ==
    CASE mask = 0 -> b
      [] mask = 1 -> Join(Hi(b), Lo(old))
      [] mask = 2 -> Join(Hi(old), Lo(b))
      [] OTHER -> old

Truth(b) == IF b THEN 1 ELSE 0

\* A data write: the four cells of the cache, or one byte or nibble.
Written(v, s, b) ==
    LET c == v.ctrl
        byte == IF c.cycle THEN v.cache[v.at] ELSE b
        whole(k) == IF ~c.write \/ c.cycle THEN byte
                    ELSE IF v.mult THEN (Accumulated(v) \div 16 ^ k) % 16 ELSE v.cache[k]
        keep(k) == IF ~c.trans THEN IF k % 2 = 0 THEN Lo(b) ELSE Hi(b)
                   ELSE IF c.four THEN (2 * Truth(Hi(whole(k)) = 0)) + Truth(Lo(whole(k)) = 0)
                   ELSE IF whole(k) = 0 THEN 3 ELSE 0
        base == v.addr[s] - (v.addr[s] % 4)
        old == vram[v.addr[s]]
        one == IF ~c.four THEN IF c.trans /\ byte = 0 THEN old ELSE byte
               ELSE IF v.nib[s] THEN IF c.trans /\ Lo(byte) = 0 THEN old ELSE Join(Hi(old), Lo(byte))
               ELSE IF c.trans /\ Hi(byte) = 0 THEN old ELSE Join(Hi(byte), Lo(old))
    IN  IF c.write
        THEN [mem |-> [a \in Cells |-> IF a \in base .. base + 3 /\ ~(c.trans /\ whole(a - base) = 0)
                                       THEN Masked(vram[a], whole(a - base), keep(a - base)) ELSE vram[a]],
              shadow |-> vshadow]
        ELSE [mem |-> [vram EXCEPT ![v.addr[s]] = one],
              shadow |-> [a \in Special |-> IF a = v.addr[s] THEN byte ELSE vshadow[a]]]

Changed(mem) == {a \in Cells : mem[a] # vram[a]}

\* One pixel of the byte in port 1, from the cache (2-bit polygons).
PokePixel(k) ==
    LET bit(n, j) == (n \div 2 ^ j) % 2
        j == 3 - k
        old == vera.rd[1]
        new == old + ((bit(vera.cache[vera.at], j) - bit(old, j)) * (2 ^ j))
        mem == [vram EXCEPT ![vera.addr[1]] = new]
    IN  /\ vram' = mem /\ vera' = [vera EXCEPT !.poking = FALSE]
        /\ Counted(vpast.stale \cup {s \in 0 .. 1 : vera.addr[s] \in Changed(mem)},
                   vpast.apart \cup (Changed(mem) \cap Special))
        /\ UNCHANGED vshadow

\* DATA0 or DATA1 written with b.
WriteData(s, b) ==
    IF vera.poking /\ vera.ctrl.mode # 0 THEN PokePixel(b \div 4)
    ELSE LET u == GetAndInc(vera, s, TRUE)
             w == Written(vera, s, b)
         IN  /\ vram' = w.mem /\ vshadow' = w.shadow
             /\ vera' = [u EXCEPT !.rd = [@ EXCEPT ![s] = w.mem[u.addr[s]]]]
             /\ Counted({p \in {1 - s} : p \in vpast.stale \/ vera.addr[p] \in Changed(w.mem)},
                        IF vera.ctrl.write \/ vera.ctrl.four \/ vera.ctrl.trans
                        THEN vpast.apart \cup {a \in Special : a \in Changed(w.mem) \/ w.shadow[a] # vshadow[a]}
                        ELSE vpast.apart \ {vera.addr[s]})

\* ADDRx_L, ADDRx_M and ADDRx_H of the selected port: its byte is fetched.
PortAt(v, s, a) == [v EXCEPT !.addr = [@ EXCEPT ![s] = a], !.rd = [@ EXCEPT ![s] = vram[a]]]

WriteAddr(part, a, i, nib) ==
    LET s == vera.sel
        old == vera.addr[s]
        c == vera.ctrl
        poke == part = "L" /\ vera.poly2 /\ c.four /\ c.mode = 2 /\ s = 1
        v == PortAt(vera, s, CASE part = "L" -> old - (old % 4) + (a % 4)
                                [] part = "M" -> old - (old % 8) + (a % 8) - (a % 4) + (old % 4)
                                [] OTHER -> (old % 8) + a - (a % 8))
    IN  /\ vera' = IF part = "H" THEN [v EXCEPT !.inc = [@ EXCEPT ![s] = i], !.nib = [@ EXCEPT ![s] = nib]]
                   ELSE IF poke THEN [v EXCEPT !.poking = TRUE]
                   ELSE IF part = "L" /\ c.hop /\ s = 1 THEN [v EXCEPT !.align = a % 4] ELSE v
        /\ Counted(vpast.stale \ {s}, vpast.apart) /\ UNCHANGED <<vram, vshadow>>

\* CTRL: the selected port, and with bit 7 a reset, whose ports read as zero.
WriteCtrl(s, reset) ==
    /\ vera' = [(IF reset THEN VeraReset ELSE vera) EXCEPT !.sel = s]
    /\ IF reset THEN vram' = VramReset /\ vshadow' = [c \in Special |-> 0]
                     /\ Counted({0, 1}, Special)
       ELSE UNCHANGED <<vram, vshadow>> /\ Counted(vpast.stale, vpast.apart)

\* The FX registers: FX_CTRL, FX_MULT, the cache, and the positions, which in
\* affine mode fetch a texel.
FxOnly(v) == vera' = v /\ Counted(vpast.stale, vpast.apart) /\ UNCHANGED <<vram, vshadow>>

WriteFxCtrl(c) == FxOnly([vera EXCEPT !.ctrl = c])

WriteFxMult(k, low, add, clear) ==
    FxOnly([vera EXCEPT !.at = k, !.low = low, !.pair = low, !.sub = low,
                        !.acc = IF clear THEN 0 ELSE IF add THEN Accumulated([vera EXCEPT !.sub = low]) ELSE @])

WriteFxCache(k, b) == FxOnly([vera EXCEPT !.cache = [@ EXCEPT ![k] = b]])

\* Reading the cache registers: the first clears the accumulator, the second adds.
ReadFxCache(k) == k \in 0 .. 1 /\ FxOnly([vera EXCEPT !.acc = IF k = 0 THEN 0 ELSE Accumulated(vera)])

WriteFxPos(px, py) ==
    /\ vera' = Prefetched([vera EXCEPT !.x = (2 * px) + (@ % 2), !.y = (2 * py) + (@ % 2)])
    /\ Counted(IF vera.ctrl.mode = 3 THEN vpast.stale \ {1} ELSE vpast.stale, vpast.apart)
    /\ UNCHANGED <<vram, vshadow>>

\* The increments; the high byte sets the fraction to a half in line and
\* polygon mode.
WriteFxIncr(n, high) ==
    FxOnly([vera EXCEPT !.xi = n, !.x = IF high /\ vera.ctrl.mode \in {1, 2} THEN (2 * (@ \div 2)) + 1 ELSE @])

\* vramPoke(), from the debugger.
VramPoke(a, b) ==
    LET mem == [vram EXCEPT ![a] = b]
    IN  /\ vram' = mem /\ vshadow' = [c \in Special |-> IF c = a THEN b ELSE vshadow[c]]
        /\ UNCHANGED vera
        /\ Counted(vpast.stale \cup {s \in 0 .. 1 : vera.addr[s] \in Changed(mem)}, vpast.apart \ {a})

VeraNext ==
    \/ \E s \in 0 .. 1 : ReadData(s)
    \/ \E s \in 0 .. 1, b \in VeraBytes : WriteData(s, b)
    \/ \E part \in {"L", "M"}, a \in VeraAt : WriteAddr(part, a, NoInc, FALSE)
    \/ \E a \in VeraAt, i \in VeraIncs : WriteAddr("H", a, i, i.by = 0)
    \/ \E s \in 0 .. 1, reset \in BOOLEAN : WriteCtrl(s, reset)
    \/ \E c \in VeraFx : WriteFxCtrl(c)
    \/ \E add \in BOOLEAN : WriteFxMult(2, add, add, ~add)
    \/ \E b \in VeraBytes : WriteFxCache(1, b)
    \/ \E k \in 0 .. 1 : ReadFxCache(k)
    \/ \E px \in {1, 5} : WriteFxPos(px, 1)
    \/ \E n \in {1, 3}, high \in BOOLEAN : WriteFxIncr(n, high)
    \/ \E a \in VeraAt, b \in VeraBytes : VramPoke(a, b)

VeraSpec == VeraInit /\ [][VeraNext]_veraVars

VeraTypes ==
    /\ vera.addr \in [0 .. 1 -> Cells] /\ vera.rd \in [0 .. 1 -> Byte]
    /\ vera.cache \in [0 .. 3 -> Byte] /\ vera.at \in 0 .. 3 /\ vera.acc \in 0 .. 65535
    /\ vram \in [Cells -> Byte] /\ vshadow \in [Special -> Byte]

(***************************************************************************)
(* A data port gives the byte at its address: what it has prefetched is    *)
(* what video memory holds there, in every FX mode and after any mixture   *)
(* of accesses, unless the other port or the debugger has since written    *)
(* that cell or the chip was reset (readReg, writeReg, getAndIncAddress,   *)
(* fxAffinePrefetch).                                                      *)
(***************************************************************************)
VeraPortsFresh == \A s \in (0 .. 1) \ vpast.stale : vera.rd[s] = vram[vera.addr[s]]

(***************************************************************************)
(* The palette, sprites and voices are what memory shows of them, except   *)
(* where the FX unit wrote last (specialWrite and the ways around it).     *)
(***************************************************************************)
VeraShadowed == \A a \in Special \ vpast.apart : vshadow[a] = vram[a]
-----------------------------------------------------------------------------
(***************************************************************************)
(* The raster, its interrupts and the sound queues.  The VGA and the NTSC  *)
(* counter both run, and the mode says which of them draws.  VLines lines  *)
(* are a frame (525), VVisible of them are seen (480); an NTSC frame is    *)
(* two fields of VLines half lines with the visible part at NtscLow (42)   *)
(* and at NtscHigh (568).  A queue of VFifo places stands for the PCM FIFO *)
(* (4095) and for the output buffer.                                       *)
(***************************************************************************)

CONSTANTS VFifo,        \* places of the FIFO
          VAlmost,      \* AFLOW below this many bytes (1024)
          VCompares,    \* raster lines a program compares with
          MaxPcm        \* bound: bytes written to the FIFO

ASSUME VeraRasterAssumption == {VFifo, VAlmost} \subseteq Nat \ {0} /\ VCompares \subseteq Nat /\ MaxPcm \in Nat

VARIABLES vscan,    \* the raster, m_isr, m_ien, m_irqLine9, the collisions and m_irqOut
          vpcm,     \* the FIFO, the format and the sample that plays
          vout,     \* m_audioBuf
          vtold     \* history: what this field has signalled, and the queues' contents

rasterVars == <<vscan, vpcm, vout, vtold>>

VLines == 7
VVisible == 4
NtscLow == 1
NtscHigh == 9
VeraFlags == {"VSYNC", "LINE", "SPRCOL"}
Masks == {"a"}          \* collision groups

EmptyRing == [buf |-> [i \in 0 .. VFifo - 1 |-> 0], wr |-> 0, rd |-> 0, cnt |-> 0]
Push(q, x) == [q EXCEPT !.buf = [@ EXCEPT ![q.wr] = x], !.wr = (@ + 1) % VFifo, !.cnt = @ + 1]
RingAt(q, k) == q.buf[(q.rd + k) % VFifo]

\* A place that was read is not looked at again before it is written.
Pop(q, n) ==
    [q EXCEPT !.buf = [i \in 0 .. VFifo - 1 |-> IF (i - q.rd) % VFifo < n THEN 0 ELSE q.buf[i]],
              !.rd = (@ + n) % VFifo, !.cnt = @ - n]

ScanReset ==
    [y |-> 0, ny |-> 0, ntsc |-> FALSE, isr |-> {}, coll |-> {}, ien |-> {}, line |-> 0, out |-> FALSE]
NothingTold == [vsync |-> 0, line |-> 0, steady |-> TRUE, kept |-> FALSE, in |-> <<>>, ready |-> <<>>, wrote |-> 0]

RasterInit ==
    /\ vscan = ScanReset /\ vout = EmptyRing /\ vtold = NothingTold
    /\ vpcm = [q |-> EmptyRing, need |-> 1, cur |-> <<0>>]

\* isr() and updateIrq()
VeraIsr(c, pcm) == c.isr \cup (IF pcm.q.cnt < VAlmost THEN {"AFLOW"} ELSE {})
IrqUpdated(c, pcm) == [c EXCEPT !.out = VeraIsr(c, pcm) \cap c.ien # {}]

Even(n) == n - (n % 2)
NtscY(ny) == IF ny < VLines THEN ny - NtscLow ELSE ny - NtscHigh

\* Faulty: an odd line is compared with as it is, which NTSC lines never equal.
CompareLineFull(c) == c.line

CompareLine(c) == IF c.ntsc THEN Even(c.line) ELSE c.line
PosOf(c) == IF c.ntsc THEN NtscY(c.ny) ELSE c.y
AtStart(c) == IF c.ntsc THEN c.ny \in {0, VLines} ELSE c.y = 0

\* updateIsrAndColl(): what the raster raises at line y, and the flags then.
Raised(c, y) ==
    (IF y = VVisible THEN {"VSYNC"} \cup (IF c.coll = {} THEN {} ELSE {"SPRCOL"}) ELSE {})
        \cup (IF y = CompareLine(c) THEN {"LINE"} ELSE {})

Signalled(c, f) ==
    IF "VSYNC" \in f THEN [c EXCEPT !.isr = (@ \ Masks) \cup c.coll \cup f, !.coll = {}]
    ELSE [c EXCEPT !.isr = @ \cup f]

\* What the new line adds to this field's account.
Told(c, f) ==
    LET fresh == AtStart(c)
        n(b, was) == IF ~b THEN 0 ELSE was
        once(b) == IF b THEN 1 ELSE 0
        steady == vtold.steady \/ fresh
        kept == vtold.kept \/ fresh
    IN  [vtold EXCEPT !.steady = steady, !.kept = kept,
                      !.vsync = n(steady, (IF fresh THEN 0 ELSE @) + once("VSYNC" \in f)),
                      !.line = n(kept, (IF fresh THEN 0 ELSE @) + once("LINE" \in f))]

\* videoStep() as a line of either counter passes; drawing it may have found
\* collisions.
LineDrawn(hit) == [vscan EXCEPT !.coll = @ \cup hit]

VgaLine(hit) ==
    LET d == IF vscan.ntsc THEN vscan ELSE LineDrawn(hit)
        c == [d EXCEPT !.y = (@ + 1) % VLines]
        f == IF c.ntsc THEN {} ELSE Raised(c, c.y)
    IN  /\ vscan.ntsc => hit = {}
        /\ vscan' = IrqUpdated(Signalled(c, f), vpcm)
        /\ vtold' = IF c.ntsc THEN vtold ELSE Told(c, f)
        /\ UNCHANGED <<vpcm, vout>>

NtscLine(hit) ==
    LET d == IF vscan.ntsc THEN LineDrawn(hit) ELSE vscan
        c == [d EXCEPT !.ny = (@ + 1) % (2 * VLines)]
        f == IF c.ntsc THEN Raised(c, NtscY(c.ny)) ELSE {}
    IN  /\ ~vscan.ntsc => hit = {}
        /\ vscan' = IrqUpdated(Signalled(c, f), vpcm)
        /\ vtold' = IF c.ntsc THEN Told(c, f) ELSE vtold
        /\ UNCHANGED <<vpcm, vout>>

\* DC_VIDEO: the line so far is drawn, and the other counter takes over.
WriteDcVideo(ntsc, hit) ==
    /\ vscan' = IrqUpdated([LineDrawn(hit) EXCEPT !.ntsc = ntsc], vpcm)
    /\ vtold' = IF ntsc = vscan.ntsc THEN vtold
                ELSE [vtold EXCEPT !.steady = FALSE, !.kept = FALSE, !.vsync = 0, !.line = 0]
    /\ UNCHANGED <<vpcm, vout>>

\* IEN, IRQLINE_L and ISR.
WriteIen(on) == vscan' = IrqUpdated([vscan EXCEPT !.ien = on], vpcm) /\ UNCHANGED <<vpcm, vout, vtold>>

WriteIrqLine(n) ==
    /\ vscan' = IrqUpdated([vscan EXCEPT !.line = n], vpcm)
    /\ vtold' = IF n = vscan.line THEN vtold ELSE [vtold EXCEPT !.kept = FALSE, !.line = 0]
    /\ UNCHANGED <<vpcm, vout>>

WriteIsr(bits) == vscan' = IrqUpdated([vscan EXCEPT !.isr = @ \ bits], vpcm) /\ UNCHANGED <<vpcm, vout, vtold>>

\* CTRL with bit 7: videoReset().
RasterReset ==
    LET pcm == [q |-> EmptyRing, need |-> 1, cur |-> <<0>>]
    IN  /\ vpcm' = pcm /\ vscan' = IrqUpdated([ScanReset EXCEPT !.out = vscan.out], pcm)
        /\ vtold' = [NothingTold EXCEPT !.ready = vtold.ready, !.wrote = vtold.wrote] /\ UNCHANGED vout

\* AUDIO_CTRL: the format, and with bit 7 an empty FIFO.
WriteAudioCtrl(need, clear) ==
    LET pcm == [vpcm EXCEPT !.need = need, !.q = IF clear THEN EmptyRing ELSE @]
    IN  /\ vpcm' = pcm /\ vscan' = IrqUpdated(vscan, pcm)
        /\ vtold' = [vtold EXCEPT !.in = IF clear THEN <<>> ELSE @] /\ UNCHANGED vout

\* writeFifo(): one place stays free.
WriteFifo(b) ==
    LET room == vpcm.q.cnt < VFifo - 1
        pcm == IF room THEN [vpcm EXCEPT !.q = Push(@, b)] ELSE vpcm
    IN  /\ vtold.wrote < MaxPcm
        /\ vpcm' = pcm /\ vscan' = IrqUpdated(vscan, pcm)
        /\ vtold' = [vtold EXCEPT !.in = IF room THEN Append(@, b) ELSE @, !.wrote = @ + 1]
        /\ UNCHANGED vout

\* VeraPcm::render() when its phase asks for a sample: a whole frame of bytes,
\* silence from an empty FIFO, and a frame cut short empties it.
NextFrame(pcm) ==
    LET q == pcm.q IN
    IF q.cnt = 0 THEN [pcm EXCEPT !.cur = <<0>>]
    ELSE IF q.cnt < pcm.need THEN [pcm EXCEPT !.q = Pop(q, q.cnt)]
    ELSE [pcm EXCEPT !.q = Pop(q, pcm.need), !.cur = [k \in 1 .. pcm.need |-> RingAt(q, k - 1)]]

\* renderAudioSample(): dropped when the output buffer is full.
AudioSample(due) ==
    LET pcm == IF due THEN NextFrame(vpcm) ELSE vpcm
        room == vout.cnt < VFifo
    IN  /\ vpcm' = pcm /\ vscan' = IrqUpdated(vscan, pcm)
        /\ vout' = IF room THEN Push(vout, pcm.cur[1]) ELSE vout
        /\ vtold' = [vtold EXCEPT !.in = SubSeq(@, Len(@) - pcm.q.cnt + 1, Len(@)),
                                  !.ready = IF room THEN Append(@, pcm.cur[1]) ELSE @]

\* pullSamples()
PullSamples(n) ==
    LET k == IF n < vout.cnt THEN n ELSE vout.cnt
    IN  /\ vout' = Pop(vout, k)
        /\ vtold' = [vtold EXCEPT !.ready = SubSeq(@, k + 1, Len(@))]
        /\ UNCHANGED <<vscan, vpcm>>

ScanNext ==
    \/ \E hit \in {{}, {"a"}} : VgaLine(hit) \/ NtscLine(hit)
    \/ \E ntsc \in BOOLEAN, hit \in {{}, {"a"}} : WriteDcVideo(ntsc, hit)
    \/ \E n \in VCompares : WriteIrqLine(n)
    \/ \E bits \in {{"VSYNC", "LINE"}, VeraFlags \cup Masks} : WriteIsr(bits)
    \/ RasterReset

SoundNext ==
    \/ \E need \in {1, 2}, clear \in BOOLEAN : WriteAudioCtrl(need, clear)
    \/ \E b \in 1 .. 2 : WriteFifo(b)
    \/ \E due \in BOOLEAN : AudioSample(due)
    \/ PullSamples(2)

EnableNext == \E on \in {{}, {"VSYNC", "LINE"}, {"AFLOW", "SPRCOL"}} : WriteIen(on)

RasterNext == ScanNext \/ SoundNext \/ EnableNext
RasterSpec == RasterInit /\ [][RasterNext]_rasterVars

(***************************************************************************)
(* The interrupt output is up whenever an enabled flag is, and only then,  *)
(* also where the FIFO's level changes it between two register accesses    *)
(* (updateIrq and its callers).                                            *)
(***************************************************************************)
VeraIrqFollows == vscan.out = (VeraIsr(vscan, vpcm) \cap vscan.ien # {})

(***************************************************************************)
(* A field in one mode signals its VSYNC once, when the raster reaches the *)
(* end of the picture, and the line compared with once, when it reaches    *)
(* that line (videoStep, updateIsrAndColl).                                *)
(***************************************************************************)
VeraFieldTold ==
    LET n(b) == IF b THEN 1 ELSE 0 IN
    /\ vtold.steady => vtold.vsync = n(PosOf(vscan) >= VVisible)
    /\ vtold.steady /\ vtold.kept => vtold.line = n(PosOf(vscan) >= IF vscan.ntsc THEN Even(vscan.line) ELSE vscan.line)

(***************************************************************************)
(* Both sound queues hold exactly what went in and has not come out, in    *)
(* order, across the end of the buffer, full and empty (VeraPcm, m_audio). *)
(***************************************************************************)
RingHolds(q, s) == q.cnt = Len(s) /\ \A k \in 1 .. Len(s) : RingAt(q, k - 1) = s[k]
VeraQueues == RingHolds(vpcm.q, vtold.in) /\ RingHolds(vout, vtold.ready)
-----------------------------------------------------------------------------
(***************************************************************************)
(* A line of sprites and a line of tiles.  The code walks both pixel by    *)
(* pixel, sprites within a budget of clocks and tiles with a byte in hand  *)
(* that is fetched again at each boundary.  The screen is LineW wide; a    *)
(* sprite's pixels are its row of colours, zero is transparent.            *)
(***************************************************************************)

CONSTANTS LineW,        \* SCREEN_WIDTH
          SpriteSet,    \* sprites a program may define
          LineSprites,  \* how many there are (128)
          Budgets,      \* clocks for a line's sprites (801)
          FetchEvery    \* pixels of one fetch of 32 bits

ASSUME VeraLineAssumption == {LineW, LineSprites, FetchEvery} \subseteq Nat \ {0} /\ Budgets \subseteq Nat \ {0}

VARIABLE vline      \* a line: what is asked for, and what was drawn

Line == 0 .. LineW - 1
Dark == [x \in Line |-> 0]

TileW == 4      \* pixels of a tile
PerByte == 2    \* pixels of a byte

LineInit ==
    \/ \E sp \in [1 .. LineSprites -> SpriteSet], b \in Budgets :
          vline = [kind |-> "sprites", sprites |-> sp, budget |-> b, out |-> <<>>]
    \/ \E flip \in [0 .. 1 -> BOOLEAN], hs \in 0 .. 7, text \in BOOLEAN :
          /\ text => ~flip[0] /\ ~flip[1]
          /\ vline = [kind |-> "tiles", flip |-> flip, hscroll |-> hs, text |-> text, out |-> <<>>]
    \/ \E from, to \in 0 .. LineW, scale \in 1 .. 3, cuts \in SUBSET (0 .. LineW - 1) :
          vline = [kind |-> "pieces", hstart |-> from, hstop |-> to, scale |-> scale,
                   cuts |-> SetToSortSeq(cuts, <) \o <<LineW>>, out |-> <<>>]

\* renderSpriteLine(): one clock for each sprite, fetch and pixel.  The count
\* is a uint16_t that only ends the loop it reaches zero in.
Spent(b) == (b - 1) % 65536
NewLine(b) == [col |-> Dark, z |-> Dark, mask |-> [x \in Line |-> {}], coll |-> {}, left |-> b, over |-> FALSE]

Pixel(sp, d, x, c) ==
    IF c = 0 THEN d
    ELSE [d EXCEPT !.coll = @ \cup (d.mask[x] \cap sp.mask),
                   !.mask = [@ EXCEPT ![x] = @ \cup sp.mask],
                   !.col = IF sp.z > d.z[x] THEN [@ EXCEPT ![x] = c] ELSE @,
                   !.z = IF sp.z > d.z[x] THEN [@ EXCEPT ![x] = sp.z] ELSE @]

ColourAt(sp, sx) == sp.row[IF sp.flip THEN Len(sp.row) - sx ELSE sx + 1]

SpritePixel(sp, d, sx) ==
    LET x == sp.x + sx
        f == IF sx % FetchEvery = 0 THEN Spent(d.left) ELSE d.left
        n == IF f = 0 THEN 0 ELSE Spent(f)
    IN  IF d.over \/ x \notin Line THEN d
        ELSE IF n = 0 THEN [d EXCEPT !.left = 0, !.over = TRUE]
        ELSE Pixel(sp, [d EXCEPT !.left = n], x, ColourAt(sp, sx))

OneSprite(acc, sp) ==
    LET d == [acc EXCEPT !.left = Spent(@)] IN
    IF acc.done THEN acc
    ELSE IF d.left = 0 THEN [d EXCEPT !.done = TRUE]
    ELSE IF sp.z = 0 \/ ~sp.here THEN d
    ELSE [FoldLeft(LAMBDA e, sx : SpritePixel(sp, e, sx), [d EXCEPT !.over = FALSE],
                   [i \in 1 .. Len(sp.row) |-> i - 1]) EXCEPT !.over = FALSE]

SpriteLine(sprites, budget) ==
    FoldLeft(OneSprite, [k \in (DOMAIN NewLine(budget)) \cup {"done"} |->
                            IF k = "done" THEN FALSE ELSE NewLine(budget)[k]], sprites)

\* Faulty: the byte in hand is fetched at tile boundaries only.
BoundaryTile == TileW

Boundary == PerByte

\* renderLayerLineTile() and renderLayerLineText(): at a byte's first pixel the
\* byte is fetched, at a tile's the map entry; text mode also starts inside a
\* byte, tiles at the byte's first pixel.
MapAt(e) == e \div TileW
ByteAt(e, flip) == (IF flip[MapAt(e)] THEN TileW - 1 - (e % TileW) ELSE e % TileW) \div PerByte
TileColour(t, c) == (t * TileW) + c + 1

TileLine(l) ==
    LET eff(x) == (x + l.hscroll) % (2 * TileW)
        fetch(e, at) == [tile |-> MapAt(e), byte |-> ByteAt(e, l.flip), at |-> at]
        start(e) == IF l.flip[MapAt(e)] THEN PerByte - 1 ELSE 0
        first == fetch(eff(0), IF l.text THEN eff(0) % PerByte ELSE start(eff(0)))
        step(acc, x) ==
            LET e == eff(x)
                h == IF e % Boundary = 0 THEN fetch(e, start(e)) ELSE acc.hand
            IN  [hand |-> [h EXCEPT !.at = (@ + (IF l.flip[h.tile] THEN -1 ELSE 1)) % PerByte],
                 out |-> Append(acc.out, TileColour(h.tile, (h.byte * PerByte) + h.at))]
    IN  FoldLeft(step, [hand |-> first, out |-> <<>>], [i \in 1 .. LineW |-> i - 1]).out

\* calculateLineColIndex()
Composite(z, spr, l1, l2) ==
    LET or(a, b) == IF a # 0 THEN a ELSE b
    IN  CASE z = 3 -> or(spr, or(l2, l1))
          [] z = 2 -> or(l2, or(spr, l1))
          [] z = 1 -> or(l2, or(l1, spr))
          [] OTHER -> or(l2, l1)

\* A line of a sprite at each depth over two layers, with holes in all three.
SpriteZ(e) == e % 4
SpriteCol(e) == IF e % 3 = 0 THEN 0 ELSE 10 + e
Layer1(e) == IF e % 5 = 4 THEN 0 ELSE 20 + e
Layer2(e) == IF e % 2 = 1 THEN 0 ELSE 30 + e

\* Faulty: every piece of a line starts again at the picture's left edge.
PieceFromEdge(prev, fp) == 0

\* m_effXFp as a piece of a line starts.
PieceFrom(prev, fp) == IF prev = 0 THEN 0 ELSE fp

\* renderLine(): a line is drawn up to where the raster is whenever a register
\* is written (midline()), here with another border colour in each piece.
PieceLine(l) ==
    LET draw(acc, k) ==
            LET to == l.cuts[k]
                fp == PieceFrom(acc.at, acc.fp)
                from == IF l.hstart > acc.at THEN l.hstart ELSE acc.at
                end == IF l.hstop < to THEN l.hstop ELSE to
                eff(x) == (fp + (l.scale * (x - from))) \div 2
                shown(x) == IF x < l.hstart \/ x >= l.hstop THEN -k
                            ELSE IF eff(x) >= LineW THEN 0
                            ELSE Composite(SpriteZ(eff(x)), SpriteCol(eff(x)), Layer1(eff(x)), Layer2(eff(x)))
            IN  [at |-> to, fp |-> IF end > from THEN fp + (l.scale * (end - from)) ELSE fp,
                 out |-> [x \in Line |-> IF x \in acc.at .. to - 1 THEN shown(x) ELSE acc.out[x]]]
    IN  FoldLeft(draw, [at |-> 0, fp |-> 0, out |-> Dark], [k \in 1 .. Len(l.cuts) |-> k]).out

DrawLine ==
    /\ vline.out = <<>>
    /\ vline' = [vline EXCEPT !.out = CASE vline.kind = "tiles" -> TileLine(vline)
                                        [] vline.kind = "pieces" -> PieceLine(vline)
                                        [] OTHER -> SpriteLine(vline.sprites, vline.budget)]

\* The pixels <<sprite, place in it>> that light screen pixel x, of those kept.
Lit(sprites, kept, x) ==
    {p \in kept : LET sp == sprites[p[1]] IN sp.here /\ sp.z # 0 /\ sp.x + p[2] = x /\ ColourAt(sp, p[2]) # 0}

\* The line that pixels kept of the sprites make: in front the deepest Z, and
\* of those the first sprite; groups collide where two of their pixels meet.
Shown(sprites, kept, x) ==
    LET lit == Lit(sprites, kept, x)
        top == {p \in lit : \A q \in lit : LET a == sprites[p[1]].z
                                              b == sprites[q[1]].z
                                          IN  a > b \/ (a = b /\ p[1] <= q[1])}
    IN  IF top = {} THEN 0 ELSE LET p == CHOOSE p \in top : TRUE IN ColourAt(sprites[p[1]], p[2])

Collided(sprites, kept) ==
    UNION {sprites[p[1]].mask \cap sprites[q[1]].mask :
            <<p, q>> \in {r \in kept \X kept : r[1] # r[2] /\ \E x \in Line :
                              {r[1], r[2]} \subseteq Lit(sprites, kept, x)}}

AllPixels(sprites) == UNION {{<<i, k>> : k \in 0 .. Len(sprites[i].row) - 1} : i \in DOMAIN sprites}

(***************************************************************************)
(* A line of sprites is the picture its sprites make, and the collisions   *)
(* those of that picture, except for what the budget leaves out: the end   *)
(* of one sprite, or every sprite from one on (renderSpriteLine).          *)
(***************************************************************************)
VeraSpritesRight ==
    vline.kind = "sprites" /\ vline.out # <<>> =>
        LET all == AllPixels(vline.sprites)
            d == vline.out
        IN  \E i \in 1 .. LineSprites + 1, k \in 0 .. LineW :
                \E lost \in {{p \in all : p[1] = i /\ p[2] >= k}, {p \in all : p[1] >= i}} :
                    /\ d.coll = Collided(vline.sprites, all \ lost)
                    /\ \A x \in Line : d.col[x] = Shown(vline.sprites, all \ lost, x)

(***************************************************************************)
(* A line of tiles shows each tile's own pixels, in text mode from the     *)
(* first pixel on, otherwise from the first byte boundary, at any scroll   *)
(* position and with any tile mirrored (renderLayerLineTile, -Text).       *)
(***************************************************************************)
VeraTilesRight ==
    vline.kind = "tiles" /\ vline.out # <<>> =>
        \A x \in Line :
            LET e == (x + vline.hscroll) % (2 * TileW)
                c == e % TileW
            IN  x >= (IF vline.text THEN 0 ELSE (-vline.hscroll) % PerByte) =>
                    vline.out[x + 1] = TileColour(MapAt(e), IF vline.flip[MapAt(e)] THEN TileW - 1 - c ELSE c)

\* What is in front at e: sprites of depth 3, layer 2, depth 2, layer 1, depth 1.
InFront(e) ==
    LET rank == [c \in 1 .. 3 |-> CASE c = 1 -> (2 * SpriteZ(e)) - 1 [] c = 2 -> 2 [] OTHER -> 4]
        colour == <<SpriteCol(e), Layer1(e), Layer2(e)>>
        lit == {c \in 1 .. 3 : colour[c] # 0 /\ rank[c] > 0}
    IN  IF lit = {} THEN 0 ELSE colour[CHOOSE c \in lit : \A d \in lit : rank[d] <= rank[c]]

(***************************************************************************)
(* A line drawn in pieces is the line drawn at once, each pixel with the   *)
(* border its own piece was drawn with (renderLine, midline).              *)
(***************************************************************************)
VeraPiecesRight ==
    vline.kind = "pieces" /\ vline.out # <<>> =>
        \A x \in Line :
            LET e == (vline.scale * (x - vline.hstart)) \div 2
                piece == CHOOSE k \in DOMAIN vline.cuts :
                            x < vline.cuts[k] /\ \A j \in 1 .. k - 1 : vline.cuts[j] <= x
            IN  vline.out[x] = IF x < vline.hstart \/ x >= vline.hstop THEN -piece
                               ELSE IF e < LineW THEN InFront(e) ELSE 0
-----------------------------------------------------------------------------
(***************************************************************************)
(* The SPI port and the SD card on it (spiStep, spiRead, spiWrite,         *)
(* sdcard_spi.cpp).  A command is a command byte and a block number (6     *)
(* bytes), a block 2 bytes, and the frame that writes one a token, the     *)
(* block and a checksum (515).                                             *)
(***************************************************************************)

CONSTANTS SdBlocks,     \* blocks of a card
          SdCmds        \* commands a host sends

ASSUME VeraCardAssumption == SdBlocks \in Nat \ {0} /\ SdCmds \subseteq 0 .. 63

VARIABLES vspi,     \* the SPI port
          vcard,    \* SdCardSpi
          vasked    \* history: the last command, how much of its answer is taken, what
                    \* the card should hold, the byte due, and whether the host keeps the protocol

cardVars == <<vspi, vcard, vasked>>

SdIdle == 255
SdToken == 254
SdBad == 8
NoCmd == 256
Stored(lba) == lba < SdBlocks
FreshCard == [lba \in 0 .. SdBlocks - 1 |-> <<0, lba>>]

CardInit ==
    /\ vspi = [ss |-> FALSE, busy |-> FALSE, auto |-> FALSE, send |-> SdIdle, got |-> SdIdle]
    /\ vcard = [file |-> TRUE, locked |-> FALSE, sel |-> FALSE, rx |-> <<>>, lba |-> 0, last |-> 0, acmd |-> FALSE,
                idle |-> TRUE, ready |-> FALSE, multi |-> FALSE, resp |-> <<>>, pos |-> 0, image |-> FreshCard]
    /\ vasked = [cmd |-> NoCmd, lba |-> 0, taken |-> 1, idle |-> TRUE, ready |-> FALSE, app |-> FALSE,
                 image |-> FreshCard, due |-> SdIdle, keeps |-> TRUE]

\* attach() and detach(): m_multiRead, m_acmd and m_lastCmd stay.
CardAttach(locked) ==
    /\ vcard' = [vcard EXCEPT !.file = TRUE, !.locked = locked, !.ready = FALSE, !.idle = TRUE, !.resp = <<>>,
                              !.rx = <<>>, !.image = FreshCard]
    /\ vasked' = [vasked EXCEPT !.cmd = NoCmd, !.taken = 1, !.idle = TRUE, !.ready = FALSE, !.image = FreshCard,
                                !.keeps = @ /\ ~vcard.multi /\ vcard.last # 24]
    /\ UNCHANGED vspi

CardDetach ==
    /\ vcard' = [vcard EXCEPT !.file = FALSE, !.resp = <<>>]
    /\ vasked' = [vasked EXCEPT !.cmd = NoCmd, !.taken = 1] /\ UNCHANGED vspi

\* loadBlock()
LoadBlock(d, lba) == IF Stored(lba) THEN <<SdToken>> \o d.image[lba] \o <<SdIdle>> ELSE <<SdBad>>

\* Faulty: the block a read of several goes on with is the one it has sent.
NextLbaSame(lba) == lba

NextLba(lba) == lba + 1

\* handle() of an idle byte: the next byte of the answer.
CardAnswer(d) ==
    LET lba == NextLba(d.lba)
        next == LoadBlock(d, lba)
    IN  IF d.resp = <<>> \/ d.pos + 1 < Len(d.resp)
        THEN [d EXCEPT !.pos = IF d.resp = <<>> THEN @ ELSE @ + 1]
        ELSE IF d.multi THEN [d EXCEPT !.lba = lba, !.resp = next, !.pos = 0, !.multi = Len(next) > 1]
        ELSE [d EXCEPT !.resp = <<>>, !.pos = 0]

\* handle() of a whole command.
CardCommand(d, c, lba) ==
    LET cmd == IF d.acmd THEN 128 + c ELSE c
        e == [d EXCEPT !.rx = <<>>, !.acmd = cmd = 55, !.last = cmd, !.pos = 0]
        r1(i) == <<IF i THEN 1 ELSE 0>>
        read == <<0>> \o LoadBlock(d, lba)
    IN  CASE cmd = 0 -> [e EXCEPT !.idle = TRUE, !.resp = r1(TRUE)]
          [] cmd = 128 + 41 -> [e EXCEPT !.idle = FALSE, !.ready = TRUE, !.resp = r1(FALSE)]
          [] cmd = 12 -> [e EXCEPT !.multi = FALSE, !.resp = r1(d.idle)]
          [] cmd = 13 -> [e EXCEPT !.resp = IF d.ready THEN <<0, 0>> ELSE <<31, 255>>]
          [] cmd \in {17, 18} -> [e EXCEPT !.lba = lba, !.resp = read, !.multi = (cmd = 18 \/ @) /\ Len(read) > 2]
          [] cmd = 24 -> [e EXCEPT !.lba = lba, !.resp = IF Stored(lba) THEN r1(d.idle) ELSE <<0, SdBad>>]
          [] OTHER -> [e EXCEPT !.resp = r1(d.idle)]

IsCommand(b) == b \in 64 .. 127

CardTake(d, b) ==
    LET rx == Append(d.rx, b) IN
    IF IsCommand(rx[1]) /\ Len(rx) = 2 THEN CardCommand(d, rx[1] - 64, b)
    ELSE IF Len(rx) < 4 THEN [d EXCEPT !.rx = rx]
    ELSE [d EXCEPT !.rx = <<>>,
                   !.image = IF d.last = 24 /\ rx[1] = SdToken /\ ~d.locked /\ Stored(d.lba)
                             THEN [@ EXCEPT ![d.lba] = <<rx[2], rx[3]>>] ELSE @]

\* What a host may expect as byte n of the answer to its last command.
AnswerByte(h, n) ==
    LET r1 == <<IF h.idle THEN 1 ELSE 0>>
        block(lba) == IF Stored(lba) THEN <<SdToken>> \o h.image[lba] \o <<SdIdle>> ELSE <<SdBad>>
        at(s) == IF n <= Len(s) THEN s[n] ELSE SdIdle
    IN  CASE h.cmd = 18 -> IF n = 1 THEN 0
                           ELSE LET k == IF (n - 2) \div 4 < SdBlocks - h.lba THEN (n - 2) \div 4
                                         ELSE IF Stored(h.lba) THEN SdBlocks - h.lba ELSE 0
                                    s == block(h.lba + k)
                                    i == n - 1 - (4 * k)
                                IN  IF i <= Len(s) THEN s[i] ELSE SdIdle
          [] h.cmd = 17 -> at(<<0>> \o block(h.lba))
          [] h.cmd = 24 -> at(IF Stored(h.lba) THEN r1 ELSE <<0, SdBad>>)
          [] h.cmd = 13 -> at(IF h.ready THEN <<0, 0>> ELSE <<31, 255>>)
          [] h.cmd = NoCmd -> SdIdle
          [] OTHER -> at(r1)

\* The longest answer, after which only idle bytes come.
AnswerEnd == (4 * SdBlocks) + 3

\* The host's account of a byte b exchanged with card d.
AskedByte(h, d, b) ==
    LET n == IF h.taken < AnswerEnd THEN h.taken + 1 ELSE AnswerEnd
        c == d.rx[1] - 64
        e == CardTake(d, b)
        cmd == IF h.app THEN 128 + c ELSE c
    IN  IF ~d.sel \/ ~d.file THEN [h EXCEPT !.due = SdIdle]
        ELSE IF d.rx = <<>> /\ b = SdIdle
        THEN [h EXCEPT !.taken = n, !.due = AnswerByte(h, h.taken)]
        ELSE IF d.rx # <<>> /\ IsCommand(d.rx[1])
        THEN [h EXCEPT !.cmd = cmd, !.lba = b, !.taken = 1, !.app = cmd = 55, !.due = SdIdle,
                       !.idle = (@ \/ cmd = 0) /\ cmd # 128 + 41, !.ready = @ \/ cmd = 128 + 41,
                       !.keeps = ~e.multi \/ cmd = 18]
        ELSE IF Len(d.rx) = 3
        THEN [h EXCEPT !.due = SdIdle,
                       !.image = IF ~h.keeps THEN e.image
                                 ELSE IF h.cmd = 24 /\ d.rx[1] = SdToken /\ ~d.locked /\ Stored(h.lba)
                                 THEN [@ EXCEPT ![h.lba] = <<d.rx[2], d.rx[3]>>] ELSE @]
        ELSE [h EXCEPT !.due = SdIdle]

\* spiStep() when the byte is through: the card sees it and answers; the byte
\* sent is not looked at again.
SpiDone ==
    LET d == vcard
        b == vspi.send
        poll == d.rx = <<>> /\ b = SdIdle
    IN  /\ vspi.busy
        /\ vspi' = [vspi EXCEPT !.busy = FALSE, !.send = SdIdle,
                                !.got = IF d.file /\ d.sel /\ poll /\ d.resp # <<>> THEN d.resp[d.pos + 1] ELSE SdIdle]
        /\ vcard' = IF ~d.file \/ ~d.sel THEN d ELSE IF poll THEN CardAnswer(d) ELSE CardTake(d, b)
        /\ vasked' = AskedByte(vasked, d, b)

\* spiRead(0) and spiWrite(0): a byte starts unless one is on its way.
SpiStart(b) == vspi' = IF vspi.ss /\ ~vspi.busy THEN [vspi EXCEPT !.send = b, !.busy = TRUE] ELSE vspi
SpiRead == (IF vspi.auto THEN SpiStart(SdIdle) ELSE UNCHANGED vspi) /\ UNCHANGED <<vcard, vasked>>
SpiWrite(b) == SpiStart(b) /\ UNCHANGED <<vcard, vasked>>

\* spiWrite(1): the card is told of a selection only.
SpiCtrl(ss, auto) ==
    /\ vspi' = [vspi EXCEPT !.ss = ss, !.auto = auto]
    /\ vcard' = IF ss /\ ~vspi.ss THEN [vcard EXCEPT !.sel = TRUE, !.rx = <<>>] ELSE vcard
    /\ UNCHANGED vasked

\* The bytes a host sends: a command or a block's frame from its beginning on.
\* A host that broke the protocol only stops the read it left open.
HostBytes ==
    CASE vcard.rx = <<>> /\ vasked.keeps -> {SdIdle, SdToken} \cup {64 + c : c \in SdCmds}
      [] vcard.rx = <<>> /\ ~vasked.keeps -> {SdIdle, 64 + 12}
      [] vcard.rx[1] \in {64 + 17, 64 + 18, 64 + 24} -> 0 .. SdBlocks
      [] IsCommand(vcard.rx[1]) -> {0}   \* no block
      [] OTHER -> {64 + 17}      \* a byte that would be a command elsewhere

CardNext ==
    \/ SpiDone \/ CardDetach
    \/ vcard.rx = <<>> /\ SpiRead
    \/ \E b \in HostBytes : SpiWrite(b)
    \/ \E ss \in BOOLEAN : SpiCtrl(ss, ss)
    \/ CardAttach(TRUE)

CardSpec == CardInit /\ [][CardNext]_cardVars

(***************************************************************************)
(* Every byte that comes back is the next one of the answer to the last    *)
(* command, over any number of blocks, polls and frames cut short by a new *)
(* selection, and a block is written where its command said and only by a  *)
(* whole frame (SdCardSpi::handle), as long as the host ends a read of     *)
(* several blocks before it asks for anything else.                        *)
(***************************************************************************)
VeraCardRight == vasked.keeps => vspi.got = vasked.due /\ vcard.image = vasked.image
=============================================================================
