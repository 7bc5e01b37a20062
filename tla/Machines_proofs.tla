--------------------------- MODULE Machines_proofs ---------------------------
(***************************************************************************)
(* Proofs about the machines: the wired-OR invariant of machines all of    *)
(* whose chips release their line on reset and the absence of spurious     *)
(* NMIs, for every set of sources; and the C128's memory map, time,        *)
(* keyboard, flash, EEPROM and cartridges.                                 *)
(***************************************************************************)
EXTENDS Interrupts6502, IrqSources_proofs, C128, SequenceTheorems

\* The invariant of a machine without pulsed lines.
WiredInv == SourcesInv /\ PinsAreWiredOr

\* Every step of the machine keeps it.
LEMMA NextInv ==
  ASSUME SilentReset = {}, WiredInv, [Next]_vars
  PROVE  WiredInv'
<1> USE DEF WiredInv
<1>1. CASE UNCHANGED sourceVars
  BY <1>1 DEF sourceVars, SourcesInv, SourcesTypeOK, LinesMatchChips,
              PinsAreWiredOr, Asserts
<1>2. CASE ExecuteAccess
  BY <1>2, AccessInv DEF ExecuteAccess, PinsKept, PinsAreWiredOr
<1>3. CASE Tick
  BY <1>3, TickAllInv DEF Tick, PinsKept, PinsAreWiredOr
<1>4. CASE MachineReset
  BY <1>4, ResetInv DEF MachineReset
<1> QED
  BY <1>1, <1>2, <1>3, <1>4 DEF Next, CpuStep, StepIdle, TakeNmi, TakeIrq,
     ExecuteFlags, ExecuteWait, vars, sourceVars

\* In a machine all of whose chips release their line on reset (every machine
\* without a PIA), the CPU's pins are the OR of the device lines and every
\* device line follows its chip's flags, in every reachable state, for any
\* number of chips on either pin.
THEOREM WiredOrHolds ==
  ASSUME SilentReset = {}
  PROVE  Spec => [](LinesMatchChips /\ PinsAreWiredOr)
<1>1. Init => WiredInv
  BY InitInv DEF Init, WiredInv
<1>2. WiredInv /\ [Next]_vars => WiredInv'
  BY NextInv
<1>3. WiredInv => LinesMatchChips /\ PinsAreWiredOr
  BY DEF WiredInv, SourcesInv
<1> QED
  BY <1>1, <1>2, <1>3, PTL DEF Spec

-----------------------------------------------------------------------------
\* Every step keeps the types, whichever chips the machine has.
LEMMA NextType ==
  ASSUME TypeOK, [Next]_vars
  PROVE  TypeOK'
<1> USE DEF TypeOK, CpuState, ResetCpu, Fetched, TrackEdge
<1>1. CASE UNCHANGED sourceVars /\ (StepIdle \/ TakeNmi \/ TakeIrq \/ ExecuteFlags
                                    \/ ExecuteWait \/ UNCHANGED vars)
  <2>1. SourcesTypeOK'
    BY <1>1 DEF SourcesTypeOK, sourceVars
  <2>2. nmi.pin \in BOOLEAN
    BY DEF SourcesTypeOK, Manager
  <2> QED
    BY <1>1, <2>1, <2>2 DEF StepIdle, TakeNmi, TakeIrq, ExecuteFlags, ExecuteWait,
                            ExecutesInstruction, vars
<1>2. CASE ExecuteAccess
  <2>1. SourcesTypeOK'
    BY <1>2, AccessType DEF ExecuteAccess
  <2>2. nmi.pin \in BOOLEAN /\ nmi'.pin \in BOOLEAN
    BY <2>1 DEF SourcesTypeOK, Manager
  <2> QED
    BY <1>2, <2>1, <2>2 DEF ExecuteAccess, ExecutesInstruction
<1>3. CASE Tick
  <2>1. SourcesTypeOK'
    BY <1>3, TickAllType DEF Tick
  <2>2. nmi.pin \in BOOLEAN /\ nmi'.pin \in BOOLEAN
    BY <2>1 DEF SourcesTypeOK, Manager
  <2> QED
    BY <1>3, <2>1, <2>2 DEF Tick
<1>4. CASE MachineReset
  BY <1>4 DEF MachineReset, ResetSources, SourcesTypeOK, Manager
<1> QED
  BY <1>1, <1>2, <1>3, <1>4 DEF Next, CpuStep, StepIdle, TakeNmi, TakeIrq,
     ExecuteFlags, ExecuteWait, vars, sourceVars

\* Type correctness of the interrupt system for every machine.
THEOREM TypeCorrect == Spec => []TypeOK
<1>1. Init => TypeOK
  <2>1. Init => SourcesTypeOK
    BY InitInv DEF Init, SourcesInv
  <2>2. ResetCpu \in CpuState
    BY DEF CpuState, ResetCpu
  <2>3. Init => nmiEdge \in BOOLEAN /\ phase \in {"cpu", "tick"} /\ cpu \in CpuState
    BY <2>2 DEF Init
  <2> QED
    BY <2>1, <2>3 DEF TypeOK
<1>2. TypeOK /\ [Next]_vars => TypeOK'
  BY NextType
<1> QED
  BY <1>1, <1>2, PTL DEF Spec

\* The 6502 never takes an NMI twice for one rising edge of the pin, nor one
\* without an edge, in any machine: even where the PIA's silent reset makes
\* the managers disagree with the pins.
THEOREM NmiNotSpurious == Spec => []NmiOncePerEdge
<1>1. Init => NmiOncePerEdge
  BY DEF Init, SourcesInit, Idle, NmiOncePerEdge, NmiSeen
<1>2. ASSUME TypeOK, TypeOK', NmiOncePerEdge, [Next]_vars
      PROVE  NmiOncePerEdge'
  <2> USE <1>2 DEF NmiOncePerEdge, NmiSeen, Fetched, TrackEdge
  <2>0. /\ nmi.pin \in BOOLEAN /\ nmi'.pin \in BOOLEAN /\ cpu \in CpuState
        /\ nmiEdge \in BOOLEAN
    BY DEF TypeOK, SourcesTypeOK, Manager
  <2>1. CASE StepIdle \/ UNCHANGED vars
    BY <2>1 DEF StepIdle, sourceVars, vars
  <2>2. CASE TakeNmi
    BY <2>0, <2>2 DEF TakeNmi, CpuState
  <2>3. CASE TakeIrq \/ ExecuteFlags \/ ExecuteWait
    BY <2>0, <2>3 DEF TakeIrq, ExecuteFlags, ExecuteWait, sourceVars, CpuState
  <2>4. CASE ExecuteAccess
    BY <2>0, <2>4 DEF ExecuteAccess, CpuState
  <2>5. CASE Tick
    BY <2>0, <2>5 DEF Tick, CpuState
  <2>6. CASE MachineReset
    BY <2>6 DEF MachineReset, ResetSources
  <2> QED
    BY <2>1, <2>2, <2>3, <2>4, <2>5, <2>6 DEF Next, CpuStep
<1> QED
  BY <1>1, <1>2, TypeCorrect, PTL DEF Spec
-----------------------------------------------------------------------------
\* The page that page p of the C128 is at, while pages 0 and 1 have changed
\* places with two others.
SwappedPage(m, p) ==
    CASE p = 0 -> m.p0 [] p = 1 -> m.p1 [] p # 0 /\ p # 1 /\ p = m.p1 -> 1
      [] p # 0 /\ p # 1 /\ p # m.p1 /\ p = m.p0 -> 0 [] OTHER -> p

\* While the pages 0 and 1 are swapped with p0 and p1, a page of RAM is at the
\* place the swap gives it, whatever the RAM configuration register shares.
LEMMA RamAddrSwaps ==
  ASSUME NEW m, NEW p \in 0 .. 255,
         InPlace(m, m.p0, m.p0b, 0), InPlace(m, m.p1, m.p1b, 1), m.p0 # m.p1
  PROVE  RamAddr(m, p)[3] = SwappedPage(m, p)
<1> DEFINE moved == ~(m.p0 = 0 /\ m.p1 = 1 /\ m.p0b = 0 /\ m.p1b = 0)
<1>b. \A q : Banked(m, q)[3] = q
  BY Zenon DEF Banked, Ram
<1>1. CASE ~moved
  <2>1. RamAddr(m, p) = IF p < 2 THEN Ram(0, p) ELSE Banked(m, p)
    BY <1>1 DEF RamAddr
  <2>2. RamAddr(m, p)[3] = p
    BY <2>1, <1>b DEF Ram
  <2> QED
    BY <1>1, <2>2 DEF SwappedPage
<1>2. CASE moved /\ p = 0
  BY <1>2 DEF RamAddr, SwappedPage, Ram, InPlace
<1>3. CASE moved /\ p = 1
  BY <1>3 DEF RamAddr, SwappedPage, Ram
<1>4. CASE moved /\ p > 1 /\ p = m.p1
  <2>1. PageIsRam(m, m.p1, m.p1b)
    BY <1>4 DEF InPlace
  <2>2. RamAddr(m, p) = Ram(m.p1b, 1)
    BY <1>4, <2>1 DEF RamAddr
  <2> QED
    BY <1>4, <2>2 DEF SwappedPage, Ram
<1>5. CASE moved /\ p > 1 /\ p # m.p1 /\ p = m.p0
  <2>1. PageIsRam(m, m.p0, m.p0b)
    BY <1>5 DEF InPlace
  <2>2. RamAddr(m, p) = Ram(m.p0b, 0)
    BY <1>5, <2>1 DEF RamAddr
  <2> QED
    BY <1>5, <2>2 DEF SwappedPage, Ram
<1>6. CASE moved /\ p > 1 /\ p # m.p1 /\ p # m.p0
  <2>1. RamAddr(m, p) = Banked(m, p)
    BY <1>6 DEF RamAddr
  <2> QED
    BY <1>6, <2>1, <1>b DEF SwappedPage
<1> QED
  BY <1>1, <1>2, <1>3, <1>4, <1>5, <1>6

\* Two pages the 8502 reaches are at two places of the RAM.
LEMMA RamKeptApart == C128RamApart
<1> SUFFICES ASSUME InPlace(cmmu, cmmu.p0, cmmu.p0b, 0), InPlace(cmmu, cmmu.p1, cmmu.p1b, 1),
                    cmmu.p0 # cmmu.p1, NEW p \in C128Pages, NEW q \in C128Pages, p < q
             PROVE  RamAddr(cmmu, q) # RamAddr(cmmu, p)
  BY DEF C128RamApart
<1>1. p \in 0 .. 255 /\ q \in 0 .. 255
  BY C128Assumption
<1>2. RamAddr(cmmu, p)[3] = SwappedPage(cmmu, p) /\ RamAddr(cmmu, q)[3] = SwappedPage(cmmu, q)
  BY <1>1, RamAddrSwaps
<1>3. SwappedPage(cmmu, p) # SwappedPage(cmmu, q)
  BY <1>1 DEF SwappedPage, InPlace
<1> QED
  BY <1>2, <1>3

\* The I/O area is no RAM.
LEMMA IoNotRam ==
  ASSUME NEW m, NEW p \in 0 .. 255
  PROVE  ~IsRam(IoAt(m, p))
BY DEF IsRam, IoAt

\* A function ROM is no RAM.
LEMMA FuncRomNotRam ==
  ASSUME NEW s, NEW p
  PROVE  ~IsRam(FuncRom(s, p))
BY DEF IsRam, FuncRom

\* In C64 mode a store into RAM that reads as RAM goes to the place read.
LEMMA C64WritesRead ==
  ASSUME NEW m, NEW p \in 0 .. 255, IsRam(ReadC64(m, p))
  PROVE  WriteC64(m, p) = ReadC64(m, p)
BY IoNotRam DEF ReadC64, WriteC64, C64Io, IsRam

\* A page that the 8502 reads as RAM is written at the same place.
LEMMA Reads8502 ==
  ASSUME NEW m, NEW p \in 0 .. 255, IsRam(Read8502(m, p))
  PROVE  Write8502(m, p) = Read8502(m, p)
<1>1. CASE m.c64
  BY <1>1, C64WritesRead DEF Read8502, Write8502
<1>2. CASE ~m.c64 /\ p \in 208 .. 223 /\ m.cr.io
  BY <1>2, IoNotRam DEF Read8502
<1>3. CASE ~m.c64 /\ ~(p \in 208 .. 223 /\ m.cr.io)
  <2>1. Write8502(m, p) = RamAddr(m, p)
    BY <1>3 DEF Write8502
  <2>2. CASE p < 64
    BY <2>1, <2>2, <1>3 DEF Read8502
  <2>3. CASE p \in 64 .. 127
    BY <2>1, <2>3, <1>3 DEF Read8502, IsRam
  <2>4. CASE p \in 128 .. 191
    BY <2>1, <2>4, <1>3, FuncRomNotRam DEF Read8502, IsRam
  <2>5. CASE p \in 192 .. 255
    BY <2>1, <2>5, <1>3, FuncRomNotRam DEF Read8502, IsRam
  <2> QED
    BY <2>2, <2>3, <2>4, <2>5
<1> QED
  BY <1>1, <1>2, <1>3

\* So is a page the Z80 reads as RAM.
LEMMA ReadsZ80 ==
  ASSUME NEW m, m.cr.bank \in 0 .. 1, NEW p \in 0 .. 255, IsRam(ReadZ80(m, p))
  PROVE  WriteZ80(m, p) = ReadZ80(m, p)
<1>1. CASE m.c64
  BY <1>1, C64WritesRead DEF ReadZ80, WriteZ80
<1>2. CASE ~m.c64 /\ p < 16
  <2>1. m.cr.bank = 1 /\ ReadZ80(m, p) = RamAddr(m, p)
    BY <1>2 DEF ReadZ80, IsRam
  <2>2. WriteZ80(m, p) = Write8502(m, p)
    BY <1>2, <2>1 DEF WriteZ80
  <2> QED
    BY <1>2, <2>1, <2>2 DEF Write8502
<1>3. CASE ~m.c64 /\ p \in 208 .. 223
  <2>1. WriteZ80(m, p) = RamAddr(m, p)
    BY <1>3 DEF WriteZ80
  <2>2. ReadZ80(m, p) = IF m.cr.hi \in {1, 2} THEN FuncRom(m.cr.hi, p) ELSE RamAddr(m, p)
    BY <1>3 DEF ReadZ80
  <2> QED
    BY <2>1, <2>2, FuncRomNotRam
<1>4. CASE ~m.c64 /\ p \in 16 .. 19 /\ m.cr.io
  BY <1>4 DEF ReadZ80, Colours, IsRam
<1>5. CASE ~m.c64 /\ p >= 16 /\ p \notin 208 .. 223 /\ ~(p \in 16 .. 19 /\ m.cr.io)
  <2>1. ReadZ80(m, p) = Read8502(m, p) /\ WriteZ80(m, p) = Write8502(m, p)
    BY <1>5 DEF ReadZ80, WriteZ80
  <2> QED
    BY <2>1, Reads8502
<1> QED
  BY <1>1, <1>2, <1>3, <1>4, <1>5

\* And one it reaches by an I/O instruction.
LEMMA ReadsPortZ80 ==
  ASSUME NEW m, m.cr.bank \in 0 .. 1, NEW p \in 0 .. 255, IsRam(InZ80(m, p))
  PROVE  OutZ80(m, p) = InZ80(m, p)
<1>1. CASE p < 16
  <2>1. InZ80(m, p) = (IF m.cr.bank = 1 THEN ReadZ80(m, p) ELSE Ram(0, 208 + p))
    BY <1>1 DEF InZ80, PortZ80
  <2>2. OutZ80(m, p) = (IF m.cr.bank = 1 THEN WriteZ80(m, p) ELSE Ram(0, 208 + p))
    BY <1>1 DEF OutZ80, PortZ80
  <2> QED
    BY <2>1, <2>2, ReadsZ80
<1>2. CASE p \in 208 .. 223
  <2>1. CASE p = 213
    BY <2>1 DEF InZ80, PortZ80, IsRam
  <2>2. CASE p # 213
    BY <2>2, <1>2, IoNotRam DEF InZ80, PortZ80
  <2> QED
    BY <2>1, <2>2
<1>3. CASE p >= 16 /\ p \notin 208 .. 223
  <2>1. InZ80(m, p) = ReadZ80(m, p) /\ OutZ80(m, p) = WriteZ80(m, p)
    BY <1>3 DEF InZ80, OutZ80, PortZ80
  <2> QED
    BY <2>1, ReadsZ80
<1> QED
  BY <1>1, <1>2, <1>3

\* What is written where RAM shows is what is read there, for the 8502 and the
\* Z80, and no two pages share a place, in every state of the MMU (Mmu8722, C128Bus).
THEOREM C128MapCorrect == C128MapSpec => [](C128WritesRead /\ C128RamApart)
<1> DEFINE Banks == {"cr", "pcr"} \subseteq DOMAIN cmmu /\ cmmu.cr \in C128Cr /\ cmmu.pcr \in C128Cr
<1>1. {"cr", "pcr"} \subseteq DOMAIN MmuReset /\ MmuReset.cr \in C128Cr /\ MmuReset.pcr \in C128Cr
  <2> DEFINE none == 0
             r == [bank |-> none, io |-> TRUE, low |-> FALSE, mid |-> none, hi |-> none]
  <2>1. none \in 0 .. 1 /\ none \in 0 .. 3
    OBVIOUS
  <2>2. MmuReset.cr = r /\ MmuReset.pcr = r /\ {"cr", "pcr"} \subseteq DOMAIN MmuReset
    BY DEF MmuReset
  <2>3. r \in C128Cr
    <3> HIDE DEF none
    <3> QED
      BY <2>1 DEF C128Cr
  <2> HIDE DEF r
  <2> QED
    BY <2>2, <2>3
<1>2. Banks /\ [C128MapNext]_c128MapVars => Banks'
  <2> SUFFICES ASSUME Banks, [C128MapNext]_c128MapVars PROVE Banks'
    OBVIOUS
  <2>1. CASE UNCHANGED c128MapVars
    BY <2>1 DEF c128MapVars
  <2>2. ASSUME NEW c \in C128Crs, StoreCr(c) \/ StorePcr(c) PROVE Banks'
    <3>1. c \in C128Cr
      BY C128Assumption
    <3>2. CASE StoreCr(c)
      BY <3>1, <3>2 DEF StoreCr
    <3>3. CASE StorePcr(c)
      BY <3>1, <3>3 DEF StorePcr
    <3> QED
      BY <2>2, <3>2, <3>3
  <2>3. CASE LoadPcr
    BY <2>3 DEF LoadPcr, StoreCr
  <2>4. ASSUME NEW z80 \in BOOLEAN, NEW c64 \in BOOLEAN, StoreMcr(z80, c64) PROVE Banks'
    BY <2>4 DEF StoreMcr
  <2>5. ASSUME NEW r \in C128Rcrs, StoreRcr(r) PROVE Banks'
    BY <2>5, C128Assumption DEF StoreRcr
  <2>6. ASSUME NEW which \in 0 .. 1, NEW b \in 0 .. 1, StoreHigh(which, b) PROVE Banks'
    BY <2>6 DEF StoreHigh
  <2>7. ASSUME NEW which, NEW p, StoreLow(which, p) PROVE Banks'
    <3>1. CASE which = 0
      BY <2>7, <3>1 DEF StoreLow
    <3>2. CASE which # 0
      BY <2>7, <3>2 DEF StoreLow
    <3> QED
      BY <3>1, <3>2
  <2>8. ASSUME NEW pins, C128PortWrite(pins) PROVE Banks'
    BY <2>8 DEF C128PortWrite
  <2>9. CASE C128MmuReset
    BY <2>9, <1>1 DEF C128MmuReset
  <2> QED
    BY <2>1, <2>2, <2>3, <2>4, <2>5, <2>6, <2>7, <2>8, <2>9 DEF C128MapNext
<1>3. Banks => C128WritesRead /\ C128RamApart
  <2> SUFFICES ASSUME Banks PROVE C128WritesRead
    BY RamKeptApart
  <2>1. cmmu.cr.bank \in 0 .. 1
    BY DEF C128Cr
  <2> QED
    BY <2>1, Reads8502, ReadsZ80, ReadsPortZ80, C128Assumption, Zenon DEF C128WritesRead
<1> QED
  <2>1. C128MapInit => Banks
    BY <1>1 DEF C128MapInit
  <2> QED
    BY <2>1, <1>2, <1>3, PTL DEF C128MapSpec

-----------------------------------------------------------------------------
\* The types of the scheduler, with which the 8502 that has run took its vector.
C128RunState ==
    [z80 : BOOLEAN, fast : BOOLEAN, half : 0 .. 1, backlog : Nat, fresh : BOOLEAN, active : {"z80", "8502"},
     ticks : Nat, spent : Nat, ran : {"none", "z80", "8502"}, vector : BOOLEAN]

C128RunInv ==
    /\ crun \in C128RunState
    /\ (2 * crun.ticks) + crun.half = crun.spent
    /\ crun.ran # "none" => crun.active = crun.ran
    /\ crun.ran = "8502" => ~crun.fresh
    /\ crun.fresh \/ crun.vector

\* Every instruction of either processor keeps the time's invariant.
LEMMA C128RunSteps ==
  ASSUME C128RunInv, [C128RunNext]_crun
  PROVE  C128RunInv'
<1>1. CASE UNCHANGED crun
  BY <1>1 DEF C128RunInv
<1>2. CASE C128Wait
  <2> DEFINE who == Turn(crun)
             backlog == crun.backlog - 1
             ticks == crun.ticks + 1
             spent == crun.spent + 2
  <2>1. crun' = [crun EXCEPT !.active = who, !.backlog = backlog, !.ticks = ticks, !.spent = spent, !.ran = "none"]
    BY <1>2 DEF C128Wait
  <2>2. who \in {"z80", "8502"} /\ backlog \in Nat /\ ticks \in Nat /\ spent \in Nat
    BY <1>2 DEF C128Wait, C128Stalled, C128RunInv, C128RunState, Turn
  <2>3. (2 * ticks) + crun.half = spent
    BY DEF C128RunInv, C128RunState
  <2> HIDE DEF who, backlog, ticks, spent
  <2> QED
    BY <2>1, <2>2, <2>3 DEF C128RunInv, C128RunState
<1>3. CASE C128Reset
  <2>1. crun' = [[crun EXCEPT !.z80 = TRUE, !.fast = FALSE, !.fresh = TRUE]
                 EXCEPT !.active = "z80", !.ran = "none", !.vector = FALSE]
    BY <1>3 DEF C128Reset, C128RunInv, C128RunState
  <2> QED
    BY <2>1 DEF C128RunInv, C128RunState
<1>4. ASSUME NEW c \in 2 .. 3, NEW z80 \in BOOLEAN, NEW fast \in BOOLEAN, NEW stolen \in {0, 2},
             C128Instruction(c, z80, fast, stolen)
      PROVE  C128RunInv'
  <2> DEFINE n == crun.half + c
             double == crun.z80 \/ fast
             who == IF crun.z80 THEN "z80" ELSE "8502"
             half == IF double THEN n % 2 ELSE crun.half
             ticks == crun.ticks + (IF double THEN n \div 2 ELSE c)
             spent == crun.spent + (IF double THEN c ELSE 2 * c)
             fresh == crun.z80 /\ crun.fresh
             vector == crun.vector \/ (~crun.z80 /\ crun.fresh)
  <2>t. crun \in C128RunState /\ crun.half \in 0 .. 1 /\ crun.ticks \in Nat /\ crun.spent \in Nat
    BY DEF C128RunInv, C128RunState
  <2>1. crun' = [z80 |-> z80, fast |-> fast, backlog |-> stolen, active |-> who, ran |-> who, fresh |-> fresh,
                 vector |-> vector, half |-> half, ticks |-> ticks, spent |-> spent]
    BY <1>4 DEF C128Instruction, OddCycle, Turn
  <2>2. n = (2 * (n \div 2)) + (n % 2) /\ n % 2 \in 0 .. 1 /\ n \div 2 \in Nat /\ n \in Nat
    <3>1. n \in Nat
      BY <2>t
    <3> QED
      BY <3>1
  <2>3. half \in 0 .. 1 /\ ticks \in Nat /\ spent \in Nat /\ (2 * ticks) + half = spent
    <3>1. (2 * crun.ticks) + crun.half = crun.spent
      BY DEF C128RunInv
    <3>2. CASE double
      <4>1. half = n % 2 /\ ticks = crun.ticks + (n \div 2) /\ spent = crun.spent + c
        BY <3>2
      <4>2. /\ n % 2 \in 0 .. 1 /\ n \div 2 \in Nat /\ crun.half + c = (2 * (n \div 2)) + (n % 2)
        BY <2>2
      <4> HIDE DEF half, ticks, spent, n
      <4> QED
        BY <4>1, <4>2, <3>1, <2>t
    <3>3. CASE ~double
      <4>1. half = crun.half /\ ticks = crun.ticks + c /\ spent = crun.spent + (2 * c)
        BY <3>3
      <4> QED
        BY <4>1, <3>1, <2>t
    <3> QED
      BY <3>2, <3>3
  <2>4. who \in {"z80", "8502"}
    OBVIOUS
  <2>5. fresh \in BOOLEAN /\ vector \in BOOLEAN /\ (fresh \/ vector) /\ (who = "8502" => ~fresh)
    BY DEF C128RunInv
  <2> HIDE DEF half, ticks, spent, who, fresh, vector
  <2> QED
    BY <2>1, <2>3, <2>4, <2>5 DEF C128RunInv, C128RunState
<1> QED
  BY <1>1, <1>2, <1>3, <1>4 DEF C128RunNext

\* The chips are given the time the processors spend, at 1 and at 2 MHz, and the
\* processor the MMU names is the one that runs (C128Machine::step).
THEOREM C128RunCorrect == C128RunSpec => []C128TimeKept
<1>1. C128RunInit => C128RunInv
  <2> SUFFICES ASSUME C128RunInit PROVE C128RunInv
    OBVIOUS
  <2> DEFINE none == 0
  <2>1. crun = [z80 |-> TRUE, fast |-> FALSE, half |-> none, backlog |-> none, fresh |-> TRUE, active |-> "z80",
                ticks |-> none, spent |-> none, ran |-> "none", vector |-> FALSE]
    BY DEF C128RunInit
  <2>2. none \in 0 .. 1 /\ none \in Nat /\ (2 * none) + none = none
    OBVIOUS
  <2> HIDE DEF none
  <2> QED
    BY <2>1, <2>2 DEF C128RunInv, C128RunState
<1>2. C128RunInv /\ [C128RunNext]_crun => C128RunInv'
  BY C128RunSteps
<1>3. C128RunInv => C128TimeKept
  BY DEF C128RunInv, C128TimeKept
<1> QED
  BY <1>1, <1>2, <1>3, PTL DEF C128RunSpec
-----------------------------------------------------------------------------

-----------------------------------------------------------------------------
C128KeyNames ==
    {PlainKey(k) : k \in C128Keys \cup {"left_shift"}} \cup {ShiftedKey(k) : k \in C128Keys} \cup {NoKey}
C128Stroke == [name : C128KeyNames, down : BOOLEAN]
C128KeysState ==
    [down : SUBSET (C128Keys \cup {"left_shift"}), queue : Seq(C128Stroke), typed : SUBSET C128KeyNames,
     held : SUBSET (C128Keys \cup {"left_shift"})]

\* What is typed ends with the empty name, which releases the keys typed.
C128KeysInv ==
    /\ ckeys \in C128KeysState
    /\ ckeys.queue # <<>> => ckeys.queue[Len(ckeys.queue)].name = NoKey
    /\ ckeys.queue = <<>> => ckeys.typed = {}
    /\ ckeys.down \subseteq ckeys.held \cup UNION {KeysOf(n) : n \in ckeys.typed}

\* The keys of a name are the machine's keys.
LEMMA KeysOfType ==
  ASSUME NEW n \in C128KeyNames
  PROVE  KeysOf(n) \subseteq C128Keys \cup {"left_shift"}
<1>1. CASE n = NoKey
  BY <1>1 DEF NoKey, KeysOf
<1>2. ASSUME NEW k \in C128Keys \cup {"left_shift"}, n = PlainKey(k) PROVE KeysOf(n) = {k}
  BY <1>2 DEF PlainKey, KeysOf
<1>3. ASSUME NEW k \in C128Keys, n = ShiftedKey(k) PROVE KeysOf(n) = {"left_shift", k}
  BY <1>3 DEF ShiftedKey, KeysOf
<1> QED
  BY <1>1, <1>2, <1>3 DEF C128KeyNames

\* Holding a key down or letting it go keeps the keyboard's invariant.
LEMMA C128HoldInv ==
  ASSUME C128KeysInv, NEW n \in C128KeyNames, NEW down \in BOOLEAN, C128Hold(n, down)
  PROVE  C128KeysInv'
<1> DEFINE d == SetKeys(ckeys.down, n, down)
           h == SetKeys(ckeys.held, n, down)
<1>1. ckeys' = [ckeys EXCEPT !.down = d, !.held = h]
  BY DEF C128Hold
<1>2. d \subseteq C128Keys \cup {"left_shift"} /\ h \subseteq C128Keys \cup {"left_shift"}
  BY KeysOfType DEF SetKeys, C128KeysInv, C128KeysState
<1>3. d \subseteq h \cup UNION {KeysOf(k) : k \in ckeys.typed}
  BY DEF SetKeys, C128KeysInv
<1> HIDE DEF d, h
<1> QED
  BY <1>1, <1>2, <1>3 DEF C128KeysInv, C128KeysState

\* Queueing the strokes of a typed character keeps it.
LEMMA C128TypeInv ==
  ASSUME C128KeysInv, NEW n \in C128KeyNames, NEW small \in BOOLEAN, C128Type(n, small)
  PROVE  C128KeysInv'
<1> DEFINE press(k) == [name |-> k, down |-> TRUE]
           lift(k) == [name |-> k, down |-> FALSE]
           shift == PlainKey("left_shift")
           strokes == IF small THEN <<press(shift), press(n), lift(n), lift(shift)>> ELSE <<press(n), lift(n)>>
           q == ckeys.queue \o strokes \o <<lift(NoKey)>>
<1>1. ckeys' = [ckeys EXCEPT !.queue = q]
  BY DEF C128Type
<1>2. strokes \in Seq(C128Stroke)
  <2>1. shift \in C128KeyNames
    BY DEF C128KeyNames
  <2>2. press(shift) \in C128Stroke /\ press(n) \in C128Stroke /\ lift(n) \in C128Stroke /\ lift(shift) \in C128Stroke
    BY <2>1 DEF C128Stroke
  <2> HIDE DEF press, lift, shift
  <2> QED
    BY <2>2
<1>3. lift(NoKey) \in C128Stroke /\ lift(NoKey).name = NoKey
  BY DEF C128Stroke, C128KeyNames
<1>4. ckeys.queue \in Seq(C128Stroke)
  BY DEF C128KeysInv, C128KeysState
<1> HIDE DEF strokes, lift
<1>5. ckeys.queue \o strokes \in Seq(C128Stroke)
  BY <1>2, <1>4
<1>6. q \in Seq(C128Stroke) /\ q # <<>> /\ q[Len(q)] = lift(NoKey)
  BY <1>3, <1>5
<1> HIDE DEF q
<1> QED
  BY <1>1, <1>3, <1>6 DEF C128KeysInv, C128KeysState

\* Letting go of what was typed keeps it.
LEMMA C128ReleaseInv ==
  ASSUME NEW q \in Seq(C128Stroke), C128KeysInv,
         q # <<>> => q[Len(q)].name = NoKey,
         ckeys' = ReleaseTyped([ckeys EXCEPT !.queue = q])
  PROVE  C128KeysInv'
<1> DEFINE d == ckeys.down \ UNION {KeysOf(n) : n \in ckeys.typed}
<1>1. ckeys' = [ckeys EXCEPT !.queue = q, !.down = d, !.typed = {}]
  BY DEF ReleaseTyped, C128KeysInv, C128KeysState
<1>2. d \subseteq ckeys.held /\ d \subseteq C128Keys \cup {"left_shift"}
  BY DEF C128KeysInv, C128KeysState
<1> HIDE DEF d
<1> QED
  BY <1>1, <1>2 DEF C128KeysInv, C128KeysState

\* A sequence without a tail ends with its head.
LEMMA LastOne ==
  ASSUME NEW S, NEW q \in Seq(S), q # <<>>, Tail(q) = <<>>
  PROVE Len(q) = 1 /\ q[Len(q)] = Head(q)
<1>4. Len(Tail(q)) = Len(q) - 1 /\ Len(q) \in Nat
  OBVIOUS
<1>6. \A s \in Seq(S) : s = <<>> => Len(s) = 0
  OBVIOUS
<1>7. Tail(q) \in Seq(S)
  OBVIOUS
<1>8. Len(q) = 1 
  BY <1>4, <1>6, <1>7
<1>. QED BY <1>8

\* Playing one queued stroke keeps it.
LEMMA C128TypeStepInv ==
  ASSUME C128KeysInv, C128TypeStep
  PROVE  C128KeysInv'
<1> DEFINE q == Tail(ckeys.queue)
           e == Head(ckeys.queue)
<1>1. ckeys.queue \in Seq(C128Stroke) /\ ckeys.queue # <<>>
  BY DEF C128KeysInv, C128KeysState, C128TypeStep
<1>2. q \in Seq(C128Stroke) /\ e \in C128Stroke /\ (q # <<>> => q[Len(q)] = ckeys.queue[Len(ckeys.queue)])
  BY <1>1
<1>3. q # <<>> => q[Len(q)].name = NoKey
  BY <1>1, <1>2 DEF C128KeysInv
<1>4. CASE e.name = NoKey
  <2>1. ckeys' = ReleaseTyped([ckeys EXCEPT !.queue = q])
    BY <1>4 DEF C128TypeStep
  <2> HIDE DEF q
  <2> QED
    BY <1>2, <1>3, <2>1, C128ReleaseInv
<1>5. CASE e.name # NoKey
  <2>1. q # <<>>
    <3> SUFFICES ASSUME q = <<>> PROVE FALSE
      OBVIOUS
    <3>1. ckeys.queue[Len(ckeys.queue)] = e
      BY <1>1, LastOne
    <3> QED
      BY <1>1, <1>5, <3>1 DEF C128KeysInv
  <2> DEFINE d == SetKeys(ckeys.down, e.name, e.down)
             t == IF e.down THEN ckeys.typed \cup {e.name} ELSE ckeys.typed
  <2>2. ckeys' = [ckeys EXCEPT !.queue = q, !.down = d, !.typed = t]
    BY <1>5 DEF C128TypeStep, C128KeysInv, C128KeysState
  <2>3. e.name \in C128KeyNames /\ e.down \in BOOLEAN
    BY <1>2 DEF C128Stroke
  <2>4. d \subseteq C128Keys \cup {"left_shift"} /\ t \subseteq C128KeyNames
    BY <2>3, KeysOfType DEF SetKeys, C128KeysInv, C128KeysState
  <2>5. d \subseteq ckeys.held \cup UNION {KeysOf(n) : n \in t}
    BY DEF SetKeys, C128KeysInv
  <2> HIDE DEF d, t, q, e
  <2> QED
    BY <1>2, <1>3, <2>1, <2>2, <2>4, <2>5 DEF C128KeysInv, C128KeysState
<1> QED
  BY <1>4, <1>5

\* No key stays down that is neither held by the user nor still to be released by
\* the typing queue (the C128 keyboard's paste queue).
THEOREM C128KeysCorrect == C128KeysSpec => []C128NoKeyStuck
<1>1. C128KeysInit => C128KeysInv
  BY DEF C128KeysInit, C128KeysInv, C128KeysState
<1>2. C128KeysInv /\ [C128KeysNext]_ckeys => C128KeysInv'
  <2> SUFFICES ASSUME C128KeysInv, [C128KeysNext]_ckeys PROVE C128KeysInv'
    OBVIOUS
  <2>1. CASE UNCHANGED ckeys
    BY <2>1 DEF C128KeysInv
  <2>2. ASSUME NEW k \in C128Keys, NEW down \in BOOLEAN, C128Hold(PlainKey(k), down) \/ C128Hold(ShiftedKey(k), down)
        PROVE  C128KeysInv'
    <3>1. PlainKey(k) \in C128KeyNames /\ ShiftedKey(k) \in C128KeyNames
      BY DEF C128KeyNames
    <3> QED
      BY <2>2, <3>1, C128HoldInv, Zenon
  <2>3. ASSUME NEW k \in C128Keys,
               C128Type(PlainKey(k), TRUE) \/ C128Type(PlainKey(k), FALSE) \/ C128Type(ShiftedKey(k), FALSE)
        PROVE  C128KeysInv'
    <3>1. PlainKey(k) \in C128KeyNames /\ ShiftedKey(k) \in C128KeyNames
      BY DEF C128KeyNames
    <3> QED
      BY <2>3, <3>1, C128TypeInv, Zenon
  <2>4. CASE C128ClearKeys
    BY <2>4 DEF C128ClearKeys, C128KeysInv, C128KeysState
  <2>5. CASE C128TypeStep
    BY <2>5, C128TypeStepInv
  <2>6. CASE C128KeysReset
    <3>1. <<>> \in Seq(C128Stroke)
      OBVIOUS
    <3> QED
      BY <2>6, <3>1, C128ReleaseInv DEF C128KeysReset
  <2> QED
    BY <2>1, <2>2, <2>3, <2>4, <2>5, <2>6 DEF C128KeysNext
<1>3. C128KeysInv => C128NoKeyStuck
  BY DEF C128KeysInv, C128NoKeyStuck
<1> QED
  BY <1>1, <1>2, <1>3, PTL DEF C128KeysSpec

-----------------------------------------------------------------------------
UnlockA == <<"5555", 170>>
UnlockB == <<"2AAA", 85>>
ProgramC == <<"5555", 160>>
EraseC == <<"5555", 128>>

\* The stores that lead to a state of the flash.
FlashPath(state) ==
    CASE state = "magic1" -> <<UnlockA>>
      [] state = "magic2" -> <<UnlockA, UnlockB>>
      [] state = "program" -> <<UnlockA, UnlockB, ProgramC>>
      [] state = "erase1" -> <<UnlockA, UnlockB, EraseC>>
      [] state = "erase2" -> <<UnlockA, UnlockB, EraseC, UnlockA>>
      [] state = "select" -> <<UnlockA, UnlockB, EraseC, UnlockA, UnlockB>>
      [] state \in {"read", "autoselect", "error"} -> <<>>

Ends(s, t) == Len(t) <= Len(s) /\ \A i \in 1 .. Len(t) : s[(Len(s) - Len(t)) + i] = t[i]

\* The flash has seen all the stores of the state it is in.
C128FlashInv ==
    /\ DOMAIN cflash = {"data", "state", "base", "program", "last", "did", "ops"}
    /\ cflash.last \in Seq(CommandStores) /\ Len(cflash.last) <= 5
    /\ cflash.base \in {"read", "autoselect"}
    /\ cflash.state \in {"read", "magic1", "magic2", "program", "erase1", "erase2", "select", "autoselect", "error"}
    /\ Ends(cflash.last, FlashPath(cflash.state))
    /\ cflash.did = "program" => Ends(cflash.last, FlashPath("program"))
    /\ cflash.did \in {"chip", "sector"} => cflash.last = FlashPath("select")

\* Tuples one longer, and two after each other.
LEMMA TupleAppend ==
  /\ \A a, b : Append(<<a>>, b) = <<a, b>> 
  /\ \A a, b, c : Append(<<a, b>>, c) = <<a, b, c>>
  /\ \A a, b, c, d : Append(<<a, b, c>>, d) = <<a, b, c, d>>
  /\ \A a, b, c, d, e : Append(<<a, b, c, d>>, e) = <<a, b, c, d, e>>
<1>1. ASSUME NEW a, NEW b, NEW x, NEW y, x = <<a>>, y = <<a, b>> PROVE y = Append(x, b)
  BY <1>1
<1>2. ASSUME NEW a, NEW b, NEW c, NEW x, NEW y, x = <<a, b>>, y = <<a, b, c>> PROVE y = Append(x, c)
  BY <1>2
<1>3. ASSUME NEW a, NEW b, NEW c, NEW d, NEW x, NEW y, x = <<a, b, c>>, y = <<a, b, c, d>> PROVE y = Append(x, d)
  BY <1>3
<1>4. ASSUME NEW a, NEW b, NEW c, NEW d, NEW e, NEW x, NEW y, x = <<a, b, c, d>>, y = <<a, b, c, d, e>> PROVE y = Append(x, e)
  BY <1>4
<1>5. ASSUME NEW a, NEW b PROVE Append(<<a>>, b) = <<a, b>>
  <2> DEFINE x == <<a>>
             y == <<a, b>>
  <2>1. y = Append(x, b)
    <3>1. x = <<a>> /\ y = <<a, b>>
      OBVIOUS
    <3> HIDE DEF x, y
    <3> QED
      BY <1>1, <3>1
  <2> QED
    BY <2>1, Zenon
<1>6. ASSUME NEW a, NEW b, NEW c PROVE Append(<<a, b>>, c) = <<a, b, c>>
  <2> DEFINE x == <<a, b>>
             y == <<a, b, c>>
  <2>1. y = Append(x, c)
    <3>1. x = <<a, b>> /\ y = <<a, b, c>>
      OBVIOUS
    <3> HIDE DEF x, y
    <3> QED
      BY <1>2, <3>1
  <2> QED
    BY <2>1, Zenon
<1>7. ASSUME NEW a, NEW b, NEW c, NEW d PROVE Append(<<a, b, c>>, d) = <<a, b, c, d>>
  <2> DEFINE x == <<a, b, c>>
             y == <<a, b, c, d>>
  <2>1. y = Append(x, d)
    <3>1. x = <<a, b, c>> /\ y = <<a, b, c, d>>
      OBVIOUS
    <3> HIDE DEF x, y
    <3> QED
      BY <1>3, <3>1
  <2> QED
    BY <2>1, Zenon
<1>8. ASSUME NEW a, NEW b, NEW c, NEW d, NEW e PROVE Append(<<a, b, c, d>>, e) = <<a, b, c, d, e>>
  <2> DEFINE x == <<a, b, c, d>>
             y == <<a, b, c, d, e>>
  <2>1. y = Append(x, e)
    <3>1. x = <<a, b, c, d>> /\ y = <<a, b, c, d, e>>
      OBVIOUS
    <3> HIDE DEF x, y
    <3> QED
      BY <1>4, <3>1
  <2> QED
    BY <2>1, Zenon
<1> QED
  BY <1>5, <1>6, <1>7, <1>8, Zenon

\* Two tuples one after the other.
LEMMA TupleConcat ==
  /\ \A a, b, c : <<a, b>> \o <<c>> = <<a, b, c>> 
  /\ \A a, b, c, d, e : <<a, b, c>> \o <<d, e>> = <<a, b, c, d, e>>
<1>1. ASSUME NEW a, NEW b, NEW c, NEW x, NEW y, NEW z, x = <<a, b>>, y = <<c>>, z = <<a, b, c>> PROVE z = x \o y
  BY <1>1
<1>2. ASSUME NEW a, NEW b, NEW c, NEW d, NEW e, NEW x, NEW y, NEW z, x = <<a, b, c>>, y = <<d, e>>, z = <<a, b, c, d, e>> PROVE z = x \o y
  BY <1>2
<1>3. ASSUME NEW a, NEW b, NEW c PROVE <<a, b>> \o <<c>> = <<a, b, c>>
  <2> DEFINE x == <<a, b>>
             y == <<c>>
             z == <<a, b, c>>
  <2>1. z = x \o y
    <3>1. x = <<a, b>> /\ y = <<c>> /\ z = <<a, b, c>>
      OBVIOUS
    <3> HIDE DEF x, y, z
    <3> QED
      BY <1>1, <3>1
  <2> QED
    BY <2>1, Zenon
<1>4. ASSUME NEW a, NEW b, NEW c, NEW d, NEW e PROVE <<a, b, c>> \o <<d, e>> = <<a, b, c, d, e>>
  <2> DEFINE x == <<a, b, c>>
             y == <<d, e>>
             z == <<a, b, c, d, e>>
  <2>1. z = x \o y
    <3>1. x = <<a, b, c>> /\ y = <<d, e>> /\ z = <<a, b, c, d, e>>
      OBVIOUS
    <3> HIDE DEF x, y, z
    <3> QED
      BY <1>2, <3>1
  <2> QED
    BY <2>1, Zenon
<1> QED
  BY <1>3, <1>4, Zenon

\* The last three of a sequence.
LEMMA LastThree ==
  ASSUME NEW S, NEW s \in Seq(S), Len(s) >= 3
  PROVE  /\ SubSeq(s, (Len(s) - 3) + 1, Len(s)) \in Seq(S) /\ Len(SubSeq(s, (Len(s) - 3) + 1, Len(s))) = 3
         /\ \A i \in 1 .. 3 : SubSeq(s, (Len(s) - 3) + 1, Len(s))[i] = s[(Len(s) - 3) + i]
<1> DEFINE n == (Len(s) - 3) + 1
           u == SubSeq(s, n, Len(s))
<1>0. Len(s) \in Nat
  OBVIOUS
<1>1. n \in Nat /\ n >= 1 /\ n <= Len(s) /\ Len(s) = n + 2
  BY <1>0
<1> HIDE DEF n
<1>2. u \in Seq(S) /\ Len(u) = 3 /\ \A i \in 1 .. 3 : u[i] = s[(n + i) - 1]
  BY <1>0, <1>1
<1>3. \A i \in 1 .. 3 : (n + i) - 1 = (Len(s) - 3) + i
  BY <1>0 DEF n
<1> HIDE DEF u
<1>4. \A i \in 1 .. 3 : u[i] = s[(Len(s) - 3) + i]
  BY <1>2, <1>3
<1> QED
  BY <1>2, <1>4 DEF u, n

\* Where an ending begins.
LEMMA EndsFirst ==
  ASSUME NEW s \in Seq(CommandStores), NEW t \in Seq(CommandStores), Len(t) >= 1, Len(t) <= 5, Ends(s, t)
  PROVE  /\ (Len(s) - Len(t)) + 1 \in 1 .. Len(s) /\ Len(s) - ((Len(s) - Len(t)) + 1) < 5
         /\ s[(Len(s) - Len(t)) + 1] = t[1]
<1>1. 1 \in 1 .. Len(t) /\ Len(t) \in Nat /\ Len(s) \in Nat
  OBVIOUS
<1>2. Len(t) <= Len(s)
  BY Zenon DEF Ends
<1>3. s[(Len(s) - Len(t)) + 1] = t[1]
  BY <1>1, Zenon DEF Ends
<1> QED
  BY <1>1, <1>2, <1>3

\* What is kept of the history still has the command sequences it ended with.
LEMMA RecentEnds ==
  ASSUME NEW s \in Seq(CommandStores)
  PROVE  /\ Recent(s) \in Seq(CommandStores) /\ Len(Recent(s)) <= 5
         /\ \A t \in Seq(CommandStores) : Len(t) >= 1 /\ Len(t) <= 5 /\ t[1] = UnlockA /\ Ends(s, t) => Ends(Recent(s), t)
<1> DEFINE from == {i \in DOMAIN s : s[i] = <<"5555", 170>> /\ Len(s) - i < 5}
           first == CHOOSE i \in from : \A j \in from : i <= j
<1>d. DOMAIN s = 1 .. Len(s) /\ Len(s) \in Nat
  OBVIOUS
<1>1. CASE from = {}
  <2>1. Recent(s) = <<>>
    BY <1>1 DEF Recent
  <2>2. ASSUME NEW t \in Seq(CommandStores), Len(t) >= 1, Len(t) <= 5, t[1] = UnlockA, Ends(s, t) PROVE FALSE
    <3>1. ((Len(s) - Len(t)) + 1) \in from
      BY <1>d, <2>2, EndsFirst DEF UnlockA
    <3> QED
      BY <1>1, <3>1
  <2> HIDE DEF from
  <2> QED
    BY <2>1, <2>2
<1>2. CASE from # {}
  <2>1. from \subseteq Nat
    BY <1>d
  <2>2. \E i \in from : \A j \in from : i <= j
    <3>1. \A i \in from : i \in Nat /\ Len(s) - 4 <= i /\ i <= Len(s)
      BY <1>d
    <3> HIDE DEF from
    <3>2. CASE Len(s) - 4 \in from
      BY <3>1, <3>2
    <3>3. CASE Len(s) - 4 \notin from /\ Len(s) - 3 \in from
      <4>1. \A j \in from : Len(s) - 3 <= j
        BY <1>d, <3>1, <3>3
      <4> QED
        BY <3>3, <4>1
    <3>4. CASE Len(s) - 4 \notin from /\ Len(s) - 3 \notin from /\ Len(s) - 2 \in from
      <4>1. \A j \in from : Len(s) - 2 <= j
        BY <1>d, <3>1, <3>4
      <4> QED
        BY <3>4, <4>1
    <3>5. CASE /\ Len(s) - 4 \notin from /\ Len(s) - 3 \notin from /\ Len(s) - 2 \notin from
               /\ Len(s) - 1 \in from
      <4>1. \A j \in from : Len(s) - 1 <= j
        BY <1>d, <3>1, <3>5
      <4> QED
        BY <3>5, <4>1
    <3>6. CASE /\ Len(s) - 4 \notin from /\ Len(s) - 3 \notin from /\ Len(s) - 2 \notin from
               /\ Len(s) - 1 \notin from
      <4>1. \A j \in from : j = Len(s)
        BY <1>d, <3>1, <3>6
      <4> QED
        BY <1>2, <1>d, <4>1
    <3> QED
      BY <3>2, <3>3, <3>4, <3>5, <3>6
  <2>3. first \in from /\ \A j \in from : first <= j
    <3> HIDE DEF from
    <3> QED
      BY <2>2
  <2>4. Recent(s) = SubSeq(s, first, Len(s))
    BY <1>2, Zenon DEF Recent
  <2>5. first \in 1 .. Len(s) /\ Len(s) - first < 5
    BY <2>3, <1>d
  <2> HIDE DEF first
  <2>6. /\ Recent(s) \in Seq(CommandStores) /\ Len(Recent(s)) = (Len(s) - first) + 1
        /\ \A i \in 1 .. (Len(s) - first) + 1 : Recent(s)[i] = s[(first + i) - 1]
    BY <2>4, <2>5, <1>d
  <2>7. ASSUME NEW t \in Seq(CommandStores), Len(t) >= 1, Len(t) <= 5, t[1] = UnlockA, Ends(s, t)
        PROVE  Ends(Recent(s), t)
    <3>1. ((Len(s) - Len(t)) + 1) \in from
      BY <1>d, <2>7, EndsFirst DEF UnlockA
    <3>2. first <= (Len(s) - Len(t)) + 1
      BY <2>3, <3>1
    <3> HIDE DEF from
    <3>3. Len(t) <= Len(Recent(s))
      BY <2>5, <2>6, <2>7, <3>2, <1>d
    <3>4. ASSUME NEW i \in 1 .. Len(t) PROVE Recent(s)[(Len(Recent(s)) - Len(t)) + i] = t[i]
      <4> DEFINE k == (Len(Recent(s)) - Len(t)) + i
      <4>1. k \in 1 .. (Len(s) - first) + 1 /\ (first + k) - 1 = (Len(s) - Len(t)) + i
        BY <2>5, <2>6, <2>7, <3>2, <1>d
      <4>2. Recent(s)[k] = s[(first + k) - 1]
        BY <2>6, <4>1
      <4> QED
        BY <4>1, <4>2, <2>7 DEF Ends
    <3> QED
      BY <3>3, <3>4 DEF Ends
  <2> QED
    BY <2>5, <2>6, <2>7, <1>d
<1> QED
  BY <1>1, <1>2

\* One more element after an ending.
LEMMA AppendEnds ==
  ASSUME NEW s \in Seq(CommandStores), NEW t \in Seq(CommandStores), NEW x \in CommandStores, Ends(s, t)
  PROVE  Ends(Append(s, x), Append(t, x))
<1>1. Len(Append(s, x)) = Len(s) + 1 /\ Len(Append(t, x)) = Len(t) + 1 /\ Len(s) \in Nat /\ Len(t) \in Nat
  OBVIOUS
<1>2. ASSUME NEW i \in 1 .. Len(t) + 1
      PROVE  Append(s, x)[(Len(s) - Len(t)) + i] = Append(t, x)[i]
  <2>e. Len(t) <= Len(s) /\ (i <= Len(t) => s[(Len(s) - Len(t)) + i] = t[i])
    BY <1>1 DEF Ends
  <2>a. /\ Append(s, x)[Len(s) + 1] = x /\ Append(t, x)[Len(t) + 1] = x
        /\ \A j \in 1 .. Len(s) : Append(s, x)[j] = s[j]
        /\ \A j \in 1 .. Len(t) : Append(t, x)[j] = t[j]
    OBVIOUS
  <2>1. CASE i = Len(t) + 1
    <3>1. (Len(s) - Len(t)) + i = Len(s) + 1
      BY <1>1, <2>1
    <3> QED
      BY <3>1, <2>1, <2>a
  <2>2. CASE i <= Len(t)
    <3>1. (Len(s) - Len(t)) + i \in 1 .. Len(s) /\ i \in 1 .. Len(t)
      BY <1>1, <2>2, <2>e
    <3> QED
      BY <3>1, <2>2, <2>a, <2>e
  <2>3. i = Len(t) + 1 \/ i <= Len(t)
    BY <1>1
  <2> QED
    BY <2>1, <2>2, <2>3, Zenon
<1>3. Len(t) + 1 <= Len(s) + 1 /\ (Len(s) + 1) - (Len(t) + 1) = Len(s) - Len(t)
  BY <1>1 DEF Ends
<1>4. \A i \in 1 .. Len(t) + 1 : Append(s, x)[((Len(s) + 1) - (Len(t) + 1)) + i] = Append(t, x)[i]
  BY <1>2, <1>3
<1> QED
  BY <1>1, <1>3, <1>4 DEF Ends

\* A whole history of at most five stores that ends with the erase's stores is them.
LEMMA EndsWhole ==
  ASSUME NEW s \in Seq(CommandStores), Len(s) <= 5, Ends(s, FlashPath("select"))
  PROVE  s = FlashPath("select")
BY DEF Ends, FlashPath

\* What the history of stores becomes with one more.
FlashLast(s, did, c) ==
    IF did = "none" /\ c \in CommandStores THEN Recent(Append(s, c)) ELSE IF did = "none" THEN <<>> ELSE s

\* The stores that lead to each state of the flash's state machine.
LEMMA PathSeq ==
  ASSUME NEW st
  PROVE  /\ st \in {"read", "autoselect", "error"} => FlashPath(st) = <<>>
         /\ FlashPath("magic1") = <<UnlockA>>
         /\ FlashPath("magic2") = <<UnlockA, UnlockB>>
         /\ FlashPath("program") = <<UnlockA, UnlockB, ProgramC>>
         /\ FlashPath("erase1") = <<UnlockA, UnlockB, EraseC>>
         /\ FlashPath("erase2") = <<UnlockA, UnlockB, EraseC, UnlockA>>
         /\ FlashPath("select") = <<UnlockA, UnlockB, EraseC, UnlockA, UnlockB>>
BY DEF FlashPath

\* The step along a path: the store that leads to the next state.
LEMMA FlashAlong ==
  ASSUME NEW s \in Seq(CommandStores), NEW t \in Seq(CommandStores), NEW c \in CommandStores, Ends(s, t),
         Len(t) <= 4, Len(t) = 0 => c = UnlockA, Len(t) > 0 => t[1] = UnlockA
  PROVE  Ends(Recent(Append(s, c)), Append(t, c))
<1>1. Append(s, c) \in Seq(CommandStores) /\ Append(t, c) \in Seq(CommandStores)
  OBVIOUS
<1>2. Len(Append(t, c)) >= 1 /\ Len(Append(t, c)) <= 5 /\ Append(t, c)[1] = UnlockA
  <2>1. Len(Append(t, c)) = Len(t) + 1 /\ Len(t) \in Nat
    OBVIOUS
  <2>2. CASE Len(t) = 0
    BY <2>1, <2>2
  <2>3. CASE Len(t) > 0
    <3>1. 1 \in 1 .. Len(t)
      BY <2>1, <2>3
    <3> QED
      BY <2>1, <2>3, <3>1
  <2> QED
    BY <2>1, <2>2, <2>3
<1>3. Ends(Append(s, c), Append(t, c))
  BY AppendEnds
<1> QED
  BY <1>1, <1>2, <1>3, RecentEnds, Zenon

\* A state and the store that leads to the next one.
FlashStep(st, c, to) ==
    \/ st \in {"read", "error", "autoselect"} /\ c = UnlockA /\ to = "magic1"
    \/ st = "magic1" /\ c = UnlockB /\ to = "magic2"
    \/ st = "magic2" /\ c = ProgramC /\ to = "program"
    \/ st = "magic2" /\ c = EraseC /\ to = "erase1"
    \/ st = "erase1" /\ c = UnlockA /\ to = "erase2"
    \/ st = "erase2" /\ c = UnlockB /\ to = "select"

\* A store the state machine follows is one step along the path to the next state.
LEMMA FlashStepEnds ==
  ASSUME NEW s \in Seq(CommandStores), NEW st, NEW c, NEW to, Ends(s, FlashPath(st)), FlashStep(st, c, to)
  PROVE  c \in CommandStores /\ Ends(Recent(Append(s, c)), FlashPath(to))
<1>1. c \in CommandStores
  BY DEF FlashStep, CommandStores, UnlockA, UnlockB, ProgramC, EraseC
<1>2. UnlockA \in CommandStores /\ UnlockB \in CommandStores /\ ProgramC \in CommandStores /\ EraseC \in CommandStores
  BY DEF CommandStores, UnlockA, UnlockB, ProgramC, EraseC
<1> DEFINE Fits == /\ FlashPath(to) = Append(FlashPath(st), c)
                   /\ FlashPath(st) \in Seq(CommandStores) /\ Len(FlashPath(st)) <= 4
                   /\ Len(FlashPath(st)) = 0 => c = UnlockA
                   /\ Len(FlashPath(st)) > 0 => FlashPath(st)[1] = UnlockA
<1>3. ASSUME st \in {"read", "error", "autoselect"} /\ c = UnlockA /\ to = "magic1" PROVE Fits
  <2>1. FlashPath(st) = <<>> /\ FlashPath(to) = <<UnlockA>>
    BY <1>3, PathSeq
  <2> QED
    BY <1>2, <1>3, <2>1
<1>4. ASSUME st = "magic1" /\ c = UnlockB /\ to = "magic2" PROVE Fits
  <2>1. FlashPath(st) = <<UnlockA>> /\ FlashPath(to) = <<UnlockA, UnlockB>>
    BY <1>4, PathSeq
  <2>2. FlashPath(to) = Append(FlashPath(st), c)
    BY <1>4, <2>1, TupleAppend, Zenon
  <2>3. FlashPath(st) \in Seq(CommandStores)
    BY <1>2, <2>1
  <2>4. Len(FlashPath(st)) <= 4 /\ Len(FlashPath(st)) > 0 /\ FlashPath(st)[1] = UnlockA
    BY <2>1
  <2> QED
    BY <2>2, <2>3, <2>4
<1>5. ASSUME st = "magic2" /\ c = ProgramC /\ to = "program" PROVE Fits
  <2>1. FlashPath(st) = <<UnlockA, UnlockB>> /\ FlashPath(to) = <<UnlockA, UnlockB, ProgramC>>
    BY <1>5, PathSeq
  <2>2. FlashPath(to) = Append(FlashPath(st), c)
    BY <1>5, <2>1, TupleAppend, Zenon
  <2>3. FlashPath(st) \in Seq(CommandStores)
    BY <1>2, <2>1
  <2>4. Len(FlashPath(st)) <= 4 /\ Len(FlashPath(st)) > 0 /\ FlashPath(st)[1] = UnlockA
    BY <2>1
  <2> QED
    BY <2>2, <2>3, <2>4
<1>6. ASSUME st = "magic2" /\ c = EraseC /\ to = "erase1" PROVE Fits
  <2>1. FlashPath(st) = <<UnlockA, UnlockB>> /\ FlashPath(to) = <<UnlockA, UnlockB, EraseC>>
    BY <1>6, PathSeq
  <2>2. FlashPath(to) = Append(FlashPath(st), c)
    BY <1>6, <2>1, TupleAppend, Zenon
  <2>3. FlashPath(st) \in Seq(CommandStores)
    BY <1>2, <2>1
  <2>4. Len(FlashPath(st)) <= 4 /\ Len(FlashPath(st)) > 0 /\ FlashPath(st)[1] = UnlockA
    BY <2>1
  <2> QED
    BY <2>2, <2>3, <2>4
<1>7. ASSUME st = "erase1" /\ c = UnlockA /\ to = "erase2" PROVE Fits
  <2>1. FlashPath(st) = <<UnlockA, UnlockB, EraseC>> /\ FlashPath(to) = <<UnlockA, UnlockB, EraseC, UnlockA>>
    BY <1>7, PathSeq
  <2>2. FlashPath(to) = Append(FlashPath(st), c)
    <3>1. Append(<<UnlockA, UnlockB, EraseC>>, UnlockA) = <<UnlockA, UnlockB, EraseC, UnlockA>>
      BY TupleAppend, Zenon
    <3> QED
      BY <1>7, <2>1, <3>1, Zenon
  <2>3. FlashPath(st) \in Seq(CommandStores)
    BY <1>2, <2>1
  <2>4. Len(FlashPath(st)) <= 4 /\ Len(FlashPath(st)) > 0 /\ FlashPath(st)[1] = UnlockA
    BY <2>1
  <2> QED
    BY <2>2, <2>3, <2>4
<1>8. ASSUME st = "erase2" /\ c = UnlockB /\ to = "select" PROVE Fits
  <2>1. /\ FlashPath(st) = <<UnlockA, UnlockB, EraseC, UnlockA>>
        /\ FlashPath(to) = <<UnlockA, UnlockB, EraseC, UnlockA, UnlockB>>
    BY <1>8, PathSeq
  <2>2. FlashPath(to) = Append(FlashPath(st), c)
    <3>1. Append(<<UnlockA, UnlockB, EraseC, UnlockA>>, UnlockB) = <<UnlockA, UnlockB, EraseC, UnlockA, UnlockB>>
      <4>1. \A i, j, k, l, m : Append(<<i, j, k, l>>, m) = <<i, j, k, l, m>>
        BY TupleAppend, Zenon
      <4> QED
        BY <4>1, Zenon
    <3> QED
      BY <1>8, <2>1, <3>1, Zenon
  <2>3. FlashPath(st) \in Seq(CommandStores)
    BY <1>2, <2>1
  <2>4. Len(FlashPath(st)) <= 4 /\ Len(FlashPath(st)) > 0 /\ FlashPath(st)[1] = UnlockA
    BY <2>1
  <2> QED
    BY <2>2, <2>3, <2>4
<1>9. Fits
  BY <1>3, <1>4, <1>5, <1>6, <1>7, <1>8 DEF FlashStep
<1> QED
  BY <1>1, <1>9, FlashAlong

\* Every store of the flash takes a step along a path, or goes to where there is none;
\* it commands something only at the end of a path.
LEMMA FlashStoredSteps ==
  ASSUME NEW g, DOMAIN g = {"data", "state", "base", "program", "last", "did", "ops"},
         g.did = "none", g.base \in {"read", "autoselect"}, NEW a \in FlashAt, NEW b,
         g.state \in {"read", "magic1", "magic2", "program", "erase1", "erase2", "select", "autoselect", "error"},
         NEW f, f = FlashStored(g, a, b)
  PROVE  /\ DOMAIN f = DOMAIN g /\ f.last = g.last /\ f.base \in {"read", "autoselect"}
         /\ f.state \in {"read", "autoselect", "error"} \/ (f.did = "none" /\ FlashStep(g.state, <<a[2], b>>, f.state))
         /\ f.did \in {"none", "program", "chip", "sector"}
         /\ f.did = "program" => g.state = "program"
         /\ f.did \in {"chip", "sector"} => g.state = "select"
<1>1. CASE g.state = "read"
  <2>1. f = IF Unlocking(TRUE, a, b) THEN [g EXCEPT !.state = "magic1"] ELSE g
    BY <1>1 DEF FlashStored
  <2> QED
    BY <1>1, <2>1 DEF Unlocking, FlashStep, UnlockA
<1>2. CASE g.state = "magic1"
  <2>1. f = IF Unlocking(FALSE, a, b) THEN [g EXCEPT !.state = "magic2"] ELSE [g EXCEPT !.state = g.base]
    BY <1>2 DEF FlashStored
  <2> QED
    BY <1>2, <2>1 DEF Unlocking, FlashStep, UnlockB
<1>3. CASE g.state = "magic2"
  <2>1. \/ a[2] = "5555" /\ b = 144 /\ f = [g EXCEPT !.state = "autoselect", !.base = "autoselect"]
        \/ a[2] = "5555" /\ b = 240 /\ f = [g EXCEPT !.state = "read", !.base = "read"]
        \/ a[2] = "5555" /\ b = 160 /\ f = [g EXCEPT !.state = "program"]
        \/ a[2] = "5555" /\ b = 128 /\ f = [g EXCEPT !.state = "erase1"]
        \/ f = [g EXCEPT !.state = g.base]
    BY <1>3 DEF FlashStored
  <2> QED
    <3>1. CASE a[2] = "5555" /\ b = 144 /\ f = [g EXCEPT !.state = "autoselect", !.base = "autoselect"]
      BY <3>1
    <3>2. CASE a[2] = "5555" /\ b = 240 /\ f = [g EXCEPT !.state = "read", !.base = "read"]
      BY <3>2
    <3>3. CASE a[2] = "5555" /\ b = 160 /\ f = [g EXCEPT !.state = "program"]
      BY <1>3, <3>3 DEF FlashStep, ProgramC
    <3>4. CASE a[2] = "5555" /\ b = 128 /\ f = [g EXCEPT !.state = "erase1"]
      BY <1>3, <3>4 DEF FlashStep, EraseC
    <3>5. CASE f = [g EXCEPT !.state = g.base]
      BY <3>5
    <3> QED
      BY <2>1, <3>1, <3>2, <3>3, <3>4, <3>5
<1>4. CASE g.state = "program"
  <2> DEFINE left == g.data[a] \cap BitsOf(b)
  <2>1. f = [g EXCEPT !.program = b, !.data[a] = left, !.state = IF left = BitsOf(b) THEN g.base ELSE "error",
                      !.did = IF left = g.data[a] THEN "none" ELSE "program"]
    BY <1>4 DEF FlashStored
  <2> HIDE DEF left
  <2> QED
    BY <1>4, <2>1
<1>5. CASE g.state = "erase1"
  <2>1. f = IF Unlocking(TRUE, a, b) THEN [g EXCEPT !.state = "erase2"] ELSE [g EXCEPT !.state = g.base]
    BY <1>5 DEF FlashStored
  <2> QED
    BY <1>5, <2>1 DEF Unlocking, FlashStep, UnlockA
<1>6. CASE g.state = "erase2"
  <2>1. f = IF Unlocking(FALSE, a, b) THEN [g EXCEPT !.state = "select"] ELSE [g EXCEPT !.state = g.base]
    BY <1>6 DEF FlashStored
  <2> QED
    BY <1>6, <2>1 DEF Unlocking, FlashStep, UnlockB
<1>7. CASE g.state = "select"
  <2> DEFINE m1 == a[2] = "5555"
             d == [c \in FlashAt |-> IF (m1 /\ b = 16) \/ (b = 48 /\ c[1] = a[1]) THEN Erased ELSE g.data[c]]
             w == CASE m1 /\ b = 16 -> "chip" [] b = 48 -> "sector" [] OTHER -> "none"
  <2>1. f = [[g EXCEPT !.state = g.base] EXCEPT !.data = d, !.did = w]
    BY <1>7 DEF FlashStored
  <2>2. w \in {"chip", "sector", "none"}
    OBVIOUS
  <2> HIDE DEF d, w
  <2> QED
    BY <1>7, <2>1, <2>2
<1>8. CASE g.state \in {"error", "autoselect"}
  <2>1. \/ f = [g EXCEPT !.state = "read", !.base = "read"]
        \/ Unlocking(TRUE, a, b) /\ f = [g EXCEPT !.state = "magic1"]
        \/ f = g
    <3>1. \/ f = [g EXCEPT !.state = "read", !.base = "read"]
          \/ Unlocking(TRUE, a, b) /\ f = [g EXCEPT !.state = "magic1"]
          \/ f = g
      <4>1. CASE b = 240
        BY <1>8, <4>1 DEF FlashStored, Unlocking
      <4>2. CASE b # 240 /\ Unlocking(TRUE, a, b)
        BY <1>8, <4>2 DEF FlashStored
      <4>3. CASE b # 240 /\ ~Unlocking(TRUE, a, b)
        BY <1>8, <4>3 DEF FlashStored
      <4> QED
        BY <4>1, <4>2, <4>3
    <3> QED
      BY <3>1
  <2> QED
    BY <1>8, <2>1 DEF Unlocking, FlashStep, UnlockA
<1> QED
  BY <1>1, <1>2, <1>3, <1>4, <1>5, <1>6, <1>7, <1>8

\* A store keeps the flash's invariant.
LEMMA C128FlashStoreInv ==
  ASSUME C128FlashInv, NEW a \in FlashAt, NEW b, C128FlashStore(a, b)
  PROVE  C128FlashInv'
<1> DEFINE g == [cflash EXCEPT !.did = "none"]
           f == FlashStored(g, a, b)
           c == <<a[2], b>>
<1>1. /\ DOMAIN g = {"data", "state", "base", "program", "last", "did", "ops"}
      /\ g.did = "none" /\ g.base = cflash.base /\ g.state = cflash.state /\ g.last = cflash.last
  BY DEF C128FlashInv
<1>2. cflash' = [f EXCEPT !.last = FlashLast(f.last, f.did, c), !.ops = IF f.did = "none" THEN f.ops ELSE f.ops + 1]
  BY DEF C128FlashStore, FlashLast
<1>t. /\ g.base \in {"read", "autoselect"}
      /\ g.state \in {"read", "magic1", "magic2", "program", "erase1", "erase2", "select", "autoselect", "error"}
  BY <1>1 DEF C128FlashInv
<1> HIDE DEF g
<1>3. /\ DOMAIN f = DOMAIN g /\ f.last = g.last /\ f.base \in {"read", "autoselect"}
      /\ f.state \in {"read", "autoselect", "error"} \/ (f.did = "none" /\ FlashStep(g.state, c, f.state))
      /\ f.did \in {"none", "program", "chip", "sector"}
      /\ f.did = "program" => g.state = "program"
      /\ f.did \in {"chip", "sector"} => g.state = "select"
  BY <1>1, <1>t, FlashStoredSteps
<1> HIDE DEF f
<1>4. /\ DOMAIN cflash' = {"data", "state", "base", "program", "last", "did", "ops"}
      /\ cflash'.last = FlashLast(cflash.last, f.did, c) /\ cflash'.base = f.base /\ cflash'.state = f.state
      /\ cflash'.did = f.did
  BY <1>1, <1>2, <1>3
<1>s. cflash.last \in Seq(CommandStores) /\ Len(cflash.last) <= 5 /\ Ends(cflash.last, FlashPath(cflash.state))
  BY DEF C128FlashInv
<1>5. cflash'.last \in Seq(CommandStores) /\ Len(cflash'.last) <= 5
  <2>1. CASE f.did = "none" /\ c \in CommandStores
    <3>1. Append(cflash.last, c) \in Seq(CommandStores)
      BY <1>s, <2>1
    <3> QED
      BY <1>4, <2>1, <3>1, RecentEnds DEF FlashLast
  <2>2. CASE ~(f.did = "none" /\ c \in CommandStores)
    BY <1>4, <1>s, <2>2 DEF FlashLast
  <2> QED
    BY <2>1, <2>2
<1>6. Ends(cflash'.last, FlashPath(cflash'.state))
  <2>1. CASE f.state \in {"read", "autoselect", "error"}
    <3>1. FlashPath(f.state) = <<>>
      BY <2>1, PathSeq
    <3> QED
      BY <1>4, <1>5, <3>1 DEF Ends
  <2>2. CASE f.did = "none" /\ FlashStep(g.state, c, f.state)
    <3>1. c \in CommandStores /\ Ends(Recent(Append(cflash.last, c)), FlashPath(f.state))
      BY <1>1, <1>s, <2>2, FlashStepEnds
    <3> QED
      BY <1>4, <2>2, <3>1 DEF FlashLast
  <2> QED
    BY <1>3, <2>1, <2>2
<1>7. cflash'.did = "program" => Ends(cflash'.last, FlashPath("program"))
  BY <1>1, <1>3, <1>4, <1>s DEF FlashLast
<1>8. cflash'.did \in {"chip", "sector"} => cflash'.last = FlashPath("select")
  BY <1>1, <1>3, <1>4, <1>s, EndsWhole DEF FlashLast
<1>9. cflash'.state \in {"read", "magic1", "magic2", "program", "erase1", "erase2", "select", "autoselect", "error"}
  BY <1>3, <1>4 DEF FlashStep
<1> QED
  BY <1>3, <1>4, <1>5, <1>6, <1>7, <1>8, <1>9 DEF C128FlashInv

\* The flash is only changed at the end of the whole command, and a byte that
\* could not be programmed shows an inverted bit 7 (Flash040).
THEOREM C128FlashCorrect == C128FlashSpec => []C128FlashSafe
<1>e. FlashPath("read") = <<>>
  BY PathSeq
<1>1. C128FlashInit => C128FlashInv
  BY <1>e DEF C128FlashInit, C128FlashInv, Ends
<1>2. C128FlashInv /\ [C128FlashNext]_cflash => C128FlashInv'
  <2> SUFFICES ASSUME C128FlashInv, [C128FlashNext]_cflash PROVE C128FlashInv'
    OBVIOUS
  <2>1. CASE UNCHANGED cflash
    BY <2>1 DEF C128FlashInv
  <2>2. CASE C128FlashReset
    BY <2>2, <1>e DEF C128FlashReset, C128FlashInv, Ends
  <2> QED
    BY <2>1, <2>2, C128FlashStoreInv DEF C128FlashNext
<1>3. C128FlashInv => C128FlashSafe
  <2> SUFFICES ASSUME C128FlashInv PROVE C128FlashSafe
    OBVIOUS
  <2>1. cflash.did = "program" => EndsWith(cflash.last, Unlock \o <<<<"5555", 160>>>>)
    <3> SUFFICES ASSUME cflash.did = "program" PROVE EndsWith(cflash.last, Unlock \o <<<<"5555", 160>>>>)
      OBVIOUS
    <3> DEFINE s == cflash.last
               t == <<UnlockA, UnlockB, ProgramC>>
    <3>1. s \in Seq(CommandStores) /\ Ends(s, t)
      BY PathSeq DEF C128FlashInv
    <3>2. Unlock \o <<<<"5555", 160>>>> = t
      <4> DEFINE a == UnlockA
                 b == UnlockB
                 c == ProgramC
      <4>1. <<a, b>> \o <<c>> = t
        BY TupleConcat, Zenon
      <4> QED
        BY <4>1 DEF Unlock, UnlockA, UnlockB, ProgramC
    <3>3. Len(t) = 3 /\ t[1] = UnlockA /\ t[2] = UnlockB /\ t[3] = ProgramC
      OBVIOUS
    <3>4. Len(s) \in Nat /\ Len(s) >= 3 /\ \A i \in 1 .. 3 : s[(Len(s) - 3) + i] = t[i]
      BY <3>1, <3>3 DEF Ends
    <3> HIDE DEF s
    <3>5. SubSeq(s, (Len(s) - 3) + 1, Len(s)) = t
      <4> DEFINE u == SubSeq(s, (Len(s) - 3) + 1, Len(s))
      <4>1. u \in Seq(CommandStores) /\ Len(u) = 3 /\ \A i \in 1 .. 3 : u[i] = s[(Len(s) - 3) + i]
        BY <3>1, <3>4, LastThree
      <4> HIDE DEF u
      <4>2. u[1] = UnlockA /\ u[2] = UnlockB /\ u[3] = ProgramC
        <5>1. \A i \in 1 .. 3 : u[i] = t[i]
          BY <3>4, <4>1
        <5>2. u[1] = t[1] /\ u[2] = t[2] /\ u[3] = t[3]
          BY <5>1
        <5> QED
          BY <3>3, <5>2, Zenon
      <4>3. u = t
        BY <4>1, <4>2
      <4> QED
        BY <4>3 DEF u
    <3> QED
      BY <3>2, <3>3, <3>4, <3>5 DEF EndsWith, s
  <2>2. cflash.did \in {"chip", "sector"} => cflash.last = Unlock \o <<<<"5555", 128>>>> \o Unlock
    <3>1. FlashPath("select") = Unlock \o <<<<"5555", 128>>>> \o Unlock
      <4> DEFINE a == UnlockA
                 b == UnlockB
                 c == EraseC
      <4>1. (<<a, b>> \o <<c>>) \o <<a, b>> = FlashPath("select")
        <5>1. <<a, b>> \o <<c>> = <<a, b, c>> /\ <<a, b, c>> \o <<a, b>> = <<a, b, c, a, b>>
          BY TupleConcat, Zenon
        <5> QED
          BY <5>1, PathSeq, Zenon
      <4> QED
        BY <4>1 DEF Unlock, UnlockA, UnlockB, EraseC
    <3> QED
      BY <3>1 DEF C128FlashInv
  <2>3. cflash.state = "error" => \A a \in FlashAt : (7 \in FlashShown(cflash, a)) # (7 \in BitsOf(cflash.program))
    BY DEF FlashShown
  <2> QED
    BY <2>1, <2>2, <2>3 DEF C128FlashSafe
<1> QED
  BY <1>1, <1>2, <1>3, PTL DEF C128FlashSpec

\* What Mirrored has shown after some of its doublings: the first len bytes at
\* base repeated up to some length, and the rest as it was.
MirroredTo(m, out, base, len, span, to) ==
    /\ DOMAIN m = 0 .. 31
    /\ \A a \in 0 .. span - 1 : m[base + a] = IF a < to THEN out[base + (a % len)] ELSE out[base + a]
    /\ \A a \in 0 .. 31 : ~(a \in base .. base + span - 1) => m[a] = out[a]

\* One doubling shows twice as much of the image.
LEMMA DoubledOnce ==
  ASSUME NEW len \in {1, 2, 4, 8, 16, 32}, NEW f \in {1, 2, 4, 8, 16}, NEW span \in {16, 32}, NEW base \in {0, 16},
         base + span <= 32, NEW m, NEW out, MirroredTo(m, out, base, len, span, f * len)
  PROVE  MirroredTo(Doubled(m, base, f * len, span), out, base, len, span, (2 * f) * len)
<1> DEFINE l == f * len
           d == Doubled(m, base, l, span)
<1>0. DOMAIN m = 0 .. 31
  BY DEF MirroredTo
<1>1. DOMAIN d = 0 .. 31
  BY <1>0 DEF Doubled
<1>2. \A a \in 0 .. 31 : d[a] = IF l < span /\ a \in base + l .. base + (2 * l) - 1 THEN m[a - l] ELSE m[a]
  BY <1>0 DEF Doubled
<1>l. l \in {1, 2, 4, 8, 16, 32, 64, 128, 256, 512} 
  OBVIOUS
<1>s. l < span => 2 * l <= span
  BY <1>l
<1>m. \A a \in 0 .. 31 : a >= l => (a - l) % len = a % len
  OBVIOUS
<1> HIDE DEF l, d
<1>3. ASSUME NEW a \in 0 .. 31, ~(a \in base .. base + span - 1) PROVE d[a] = out[a]
  BY <1>2, <1>3, <1>l, <1>s DEF MirroredTo
<1>4. ASSUME NEW a \in 0 .. span - 1
      PROVE  d[base + a] = IF a < 2 * l THEN out[base + (a % len)] ELSE out[base + a]
  <2>0. /\ base + a \in 0 .. 31 /\ base \in Nat /\ a \in Nat /\ span \in Nat /\ l \in Nat
        /\ (base + a \in base + l .. base + (2 * l) - 1 <=> (l <= a /\ a < 2 * l))
    BY <1>l
  <2>1. CASE a < l
    <3>1. d[base + a] = m[base + a]
      BY <1>2, <2>0, <2>1
    <3>2. m[base + a] = out[base + (a % len)]
      BY <2>0, <2>1 DEF MirroredTo, l
    <3> QED
      BY <2>0, <2>1, <3>1, <3>2
  <2>2. CASE l <= a /\ a < 2 * l
    <3>1. l < span
      BY <2>0, <2>2
    <3>2. d[base + a] = m[(base + a) - l]
      BY <1>2, <2>0, <2>2, <3>1
    <3>3. (base + a) - l = base + (a - l) /\ a - l \in 0 .. span - 1 /\ a - l < l
      BY <2>0, <2>2
    <3>4. m[base + (a - l)] = out[base + ((a - l) % len)]
      BY <3>3 DEF MirroredTo, l
    <3>5. (a - l) % len = a % len
      BY <1>m, <2>0, <2>2
    <3> QED
      BY <2>2, <3>2, <3>3, <3>4, <3>5
  <2>3. CASE 2 * l <= a
    <3>1. d[base + a] = m[base + a]
      BY <1>2, <2>0, <2>3
    <3>2. m[base + a] = out[base + a]
      <4>1. ~(a < l)
        BY <2>0, <2>3
      <4> QED
        BY <4>1 DEF MirroredTo, l
    <3> QED
      BY <2>0, <2>3, <3>1, <3>2
  <2> QED
    BY <2>0, <2>1, <2>2, <2>3
<1>5. 2 * l = (2 * f) * len
  BY DEF l
<1> QED
  BY <1>1, <1>3, <1>4, <1>5 DEF MirroredTo, d, l

\* After the five doublings the whole span shows it.
LEMMA MirroredShows ==
  ASSUME NEW len \in {1, 2, 4, 8, 16, 32}, NEW span \in {16, 32}, NEW base \in {0, 16}, base + span <= 32,
         NEW out, DOMAIN out = 0 .. 31
  PROVE  MirroredTo(Mirrored(out, base, len, span), out, base, len, span, 32)
<1> DEFINE d1 == Doubled(out, base, len, span)
           d2 == Doubled(d1, base, 2 * len, span)
           d3 == Doubled(d2, base, 4 * len, span)
           d4 == Doubled(d3, base, 8 * len, span)
           d5 == Doubled(d4, base, 16 * len, span)
<1>0. MirroredTo(out, out, base, len, span, 1 * len)
  BY DEF MirroredTo
<1>a. d1 = Doubled(out, base, 1 * len, span)
  OBVIOUS
<1>b. Mirrored(out, base, len, span) = d5
  BY Zenon DEF Mirrored
<1>1. MirroredTo(d1, out, base, len, span, 2 * len)
  BY <1>0, <1>a, DoubledOnce
<1> HIDE DEF d1
<1>2. MirroredTo(d2, out, base, len, span, 4 * len)
  BY <1>1, DoubledOnce
<1> HIDE DEF d2
<1>3. MirroredTo(d3, out, base, len, span, 8 * len)
  BY <1>2, DoubledOnce
<1> HIDE DEF d3
<1>4. MirroredTo(d4, out, base, len, span, 16 * len)
  BY <1>3, DoubledOnce
<1> HIDE DEF d4
<1>5. MirroredTo(d5, out, base, len, span, 32 * len)
  BY <1>4, DoubledOnce
<1> HIDE DEF d5
<1>6. \A a \in 0 .. span - 1 : a < 32 * len /\ a < 32
  OBVIOUS
<1> QED
  BY <1>5, <1>6, <1>b DEF MirroredTo

\* A chip's span is a power of two that holds it.
LEMMA SpanOf ==
  ASSUME NEW size \in 1 .. 16
  PROVE  ChipSpan(size) \in {1, 2, 4, 8, 16} /\ ChipSpan(size) >= size
<1>1. \E p \in {1, 2, 4, 8, 16} : p >= size /\ p < 2 * size
  OBVIOUS
<1> QED
  BY <1>1 DEF ChipSpan

\* The bytes of a chip where it has them, in its 16 KB, and the rest kept.
LEMMA ChipShows ==
  ASSUME NEW out, DOMAIN out = 0 .. 31, NEW base \in {0, 16}, NEW size \in 1 .. 16,
         \A a \in 0 .. 15 : out[base + a] = -1
  PROVE  LET c == ChipCopied(out, base, size)
             p == ChipSpan(size)
         IN  /\ DOMAIN c = 0 .. 31
             /\ \A a \in 0 .. 15 : c[base + a] = IF a % p < size THEN a % p ELSE -1
             /\ \A a \in 0 .. 31 : ~(a \in base .. base + 15) => c[a] = out[a]
<1> DEFINE p == ChipSpan(size)
           o == [a \in 0 .. 31 |-> IF a \in base .. base + size - 1 THEN a - base ELSE out[a]]
           c == ChipCopied(out, base, size)
<1>1. c = Mirrored(o, base, p, 16)
  BY Zenon DEF ChipCopied
<1>2. p \in {1, 2, 4, 8, 16} /\ p >= size
  BY SpanOf
<1>3. DOMAIN o = 0 .. 31
  OBVIOUS
<1>o. \A a \in 0 .. 31 : o[a] = IF a \in base .. base + size - 1 THEN a - base ELSE out[a]
  OBVIOUS
<1> HIDE DEF o, p
<1>4. MirroredTo(Mirrored(o, base, p, 16), o, base, p, 16, 32)
  BY <1>2, <1>3, MirroredShows
<1>5. MirroredTo(c, o, base, p, 16, 32)
  BY <1>1, <1>4
<1> HIDE DEF c
<1>6. ASSUME NEW a \in 0 .. 15 PROVE c[base + a] = IF a % p < size THEN a % p ELSE -1
  <2>1. a < 32 /\ a \in 0 .. 16 - 1 /\ a % p \in 0 .. 15
    BY <1>2
  <2>2. c[base + a] = o[base + (a % p)]
    BY <1>5, <2>1 DEF MirroredTo
  <2>3. o[base + (a % p)] = IF a % p < size THEN a % p ELSE -1
    <3> DEFINE r == a % p
    <3>1. r \in 0 .. 15
      BY <2>1
    <3> HIDE DEF r
    <3>2. base + r \in 0 .. 31 /\ (base + r \in base .. base + size - 1 <=> r < size) /\ (base + r) - base = r
      BY <3>1
    <3>3. out[base + r] = -1
      BY <3>1
    <3>4. o[base + r] = IF r < size THEN r ELSE -1
      BY <1>o, <3>1, <3>2, <3>3
    <3> QED
      BY <3>4 DEF r
  <2> QED
    BY <2>2, <2>3
<1>7. ASSUME NEW a \in 0 .. 31, ~(a \in base .. base + 15) PROVE c[a] = out[a]
  <2>1. ~(a \in base .. base + 16 - 1) /\ ~(a \in base .. base + size - 1)
    BY <1>7
  <2>2. c[a] = o[a]
    BY <1>5, <2>1 DEF MirroredTo
  <2> QED
    BY <1>o, <2>1, <2>2
<1>8. DOMAIN c = 0 .. 31
  BY <1>5 DEF MirroredTo
<1> QED
  BY <1>6, <1>7, <1>8, Zenon DEF c, p

\* What a function ROM shows, as C128CartRight has it.
ImageRight ==
    /\ cimage.len > 0 => \A a \in 0 .. 31 : cimage.out[a] = a % cimage.len
    /\ \A h \in DOMAIN cimage.chips : \A a \in 0 .. 15 :
          LET p == ChipSpan(cimage.chips[h])
          IN  cimage.out[(16 * (h - 1)) + a] = IF a % p < cimage.chips[h] THEN a % p ELSE -1

\* An image without a header shows all over the 32 KB.
LEMMA RawImage ==
  ASSUME NEW len \in {1, 2, 4, 8, 16, 32},
         cimage = [len |-> len, chips |-> <<>>, out |-> Mirrored([a \in 0 .. 31 |-> IF a < len THEN a ELSE -1], 0, len, 32)]
  PROVE  ImageRight
<1> DEFINE o == [a \in 0 .. 31 |-> IF a < len THEN a ELSE -1]
           c == Mirrored(o, 0, len, 32)
<1>1. MirroredTo(c, o, 0, len, 32, 32)
  <2>1. DOMAIN o = 0 .. 31
    OBVIOUS
  <2>2. 0 \in {0, 16} /\ 32 \in {16, 32} /\ 0 + 32 <= 32
    OBVIOUS
  <2> HIDE DEF o
  <2> QED
    BY <2>1, <2>2, MirroredShows
<1>2. cimage.len = len /\ cimage.chips = <<>> /\ cimage.out = c
  OBVIOUS
<1> HIDE DEF c
<1>3. ASSUME NEW a \in 0 .. 31 PROVE c[a] = a % len
  <2>1. a % len \in 0 .. 31 /\ a % len < len
    <3>1. CASE len = 1
      BY <3>1
    <3>2. CASE len = 2
      BY <3>2
    <3>3. CASE len = 4
      BY <3>3
    <3>4. CASE len = 8
      BY <3>4
    <3>5. CASE len = 16
      BY <3>5
    <3>6. CASE len = 32
      BY <3>6
    <3> QED
      BY <3>1, <3>2, <3>3, <3>4, <3>5, <3>6
  <2>3. a \in 0 .. 32 - 1 /\ a < 32 /\ 0 + a = a
    OBVIOUS
  <2>4. 0 + (a % len) = a % len
    BY <2>1
  <2>2. c[a] = o[a % len]
    <3> HIDE DEF o
    <3>1. c[0 + a] = o[0 + (a % len)]
      BY <1>1, <2>3 DEF MirroredTo
    <3> QED
      BY <2>3, <2>4, <3>1
  <2> QED
    BY <2>1, <2>2
<1>4. DOMAIN cimage.chips = {}
  BY <1>2
<1> QED
  BY <1>2, <1>3, <1>4 DEF ImageRight

\* So does every chip of an image with headers in its half.
LEMMA ChipImage ==
  ASSUME NEW low \in 1 .. 16, NEW high \in 1 .. 16,
         cimage = [len |-> 0, chips |-> <<low, high>>,
                   out |-> ChipCopied(ChipCopied([a \in 0 .. 31 |-> -1], 0, low), 16, high)]
  PROVE  ImageRight
<1> DEFINE blank == [a \in 0 .. 31 |-> -1]
           c == ChipCopied(blank, 0, low)
           d == ChipCopied(c, 16, high)
           pl == ChipSpan(low)
           ph == ChipSpan(high)
<1>1. cimage.len = 0 /\ cimage.chips = <<low, high>> /\ cimage.out = d
  OBVIOUS
<1>2. DOMAIN blank = 0 .. 31 /\ \A a \in 0 .. 31 : blank[a] = -1
  OBVIOUS
<1> HIDE DEF blank
<1>3. /\ DOMAIN c = 0 .. 31
      /\ \A a \in 0 .. 15 : c[0 + a] = IF a % pl < low THEN a % pl ELSE -1
      /\ \A a \in 0 .. 31 : ~(a \in 0 .. 0 + 15) => c[a] = blank[a]
  <2>1. 0 \in {0, 16} /\ \A a \in 0 .. 15 : blank[0 + a] = -1
    BY <1>2
  <2> QED
    BY <1>2, <2>1, ChipShows
<1> HIDE DEF c
<1>4. \A a \in 0 .. 15 : c[16 + a] = -1
  BY <1>2, <1>3
<1>5. /\ DOMAIN d = 0 .. 31
      /\ \A a \in 0 .. 15 : d[16 + a] = IF a % ph < high THEN a % ph ELSE -1
      /\ \A a \in 0 .. 31 : ~(a \in 16 .. 16 + 15) => d[a] = c[a]
  BY <1>3, <1>4, ChipShows
<1> HIDE DEF d, pl, ph
<1>6. ASSUME NEW a \in 0 .. 15 PROVE d[0 + a] = IF a % pl < low THEN a % pl ELSE -1
  <2>1. 0 + a = a /\ a \in 0 .. 31 /\ ~(a \in 16 .. 16 + 15)
    OBVIOUS
  <2> QED
    BY <1>3, <1>5, <2>1
<1>7. DOMAIN cimage.chips = {1, 2} /\ cimage.chips[1] = low /\ cimage.chips[2] = high
  BY <1>1
<1>8. 16 * (1 - 1) = 0 /\ 16 * (2 - 1) = 16 /\ ~(0 > 0)
  OBVIOUS
<1> QED
  BY <1>1, <1>5, <1>6, <1>7, <1>8 DEF ImageRight, pl, ph

-----------------------------------------------------------------------------
C128CartInv ==
    /\ ccart \in [kind : {"comal", "magic", "partner", "gmod2"}, chips : 1 .. 64, bank : Nat, forced : BOOLEAN, frozen : BOOLEAN]
    /\ ccart.bank < CartRoom[ccart.kind] /\ ccart.forced = ccart.frozen
    /\ ccart.kind # "partner" => ~ccart.forced

\* The size of a Magic Formel or Magic Desk cartridge holds the banks that are there.
LEMMA MagicSizeFits ==
  ASSUME NEW n \in 1 .. 64
  PROVE  MagicSize(n) \in {1, 2, 4, 8, 16, 32, 64}
<1>1. \E p \in {1, 2, 4, 8, 16, 32, 64} : p >= n /\ p < 2 * n
  OBVIOUS
<1> QED
  BY <1>1 DEF MagicSize

\* A bank taken modulo the cartridge's banks is one of them.
LEMMA BankFits ==
  ASSUME NEW kind \in {"comal", "magic", "partner", "gmod2"}, NEW chips \in 1 .. 64, NEW v \in 0 .. 255
  PROVE  CartBank(kind, chips, v) \in Nat /\ CartBank(kind, chips, v) < CartRoom[kind]
<1>1. CASE kind = "comal"
  <2> DEFINE i == (v \div 32) % 4
             j == (v \div 16) % 2
  <2>1. i \in {0, 1, 2, 3} /\ j \in {0, 1}
    OBVIOUS
  <2>2. CartBank(kind, chips, v) = <<0, 0, 2, 4>>[1 + i] + j
    BY <1>1 DEF CartBank
  <2> HIDE DEF i, j
  <2>3. <<0, 0, 2, 4>>[1 + i] \in {0, 2, 4}
    BY <2>1
  <2>4. CartRoom[kind] = 6
    BY <1>1 DEF CartRoom
  <2> QED
    BY <2>1, <2>2, <2>3, <2>4
<1>2. CASE kind = "magic"
  <2>1. CartBank(kind, chips, v) = (v % 64) % MagicSize(chips) /\ CartRoom[kind] = 64
    BY <1>2 DEF CartBank, CartRoom
  <2> QED
    BY <2>1, MagicSizeFits
<1>3. CASE kind = "partner"
  BY <1>3 DEF CartBank, CartRoom
<1>4. CASE kind = "gmod2"
  BY <1>4 DEF CartBank, CartRoom
<1> QED
  BY <1>1, <1>2, <1>3, <1>4

\* Every store, freeze, reset and change of cartridge keeps the invariant.
LEMMA C128CartSteps ==
  ASSUME C128CartInv, [C128CartNext]_ccart
  PROVE  C128CartInv'
<1>1. CASE UNCHANGED ccart
  BY <1>1 DEF C128CartInv
<1>2. ASSUME NEW v \in CartBytes, CartStore(v) PROVE C128CartInv'
  <2> DEFINE b == CartBank(ccart.kind, ccart.chips, v)
             f == ccart.forced /\ ~(ccart.kind = "partner" /\ (v \div 64) % 2 = 1)
             z == ccart.frozen /\ (v \div 64) % 2 = 0
  <2>1. ccart' = [ccart EXCEPT !.bank = b, !.forced = f, !.frozen = z]
    BY <1>2 DEF CartStore, C128CartInv
  <2>2. v \in 0 .. 255
    BY C128CartAssumption
  <2>3. b \in Nat /\ b < CartRoom[ccart.kind]
    BY <2>2, BankFits DEF C128CartInv
  <2>4. f = z /\ f \in BOOLEAN /\ (ccart.kind # "partner" => ~f)
    <3>1. (v \div 64) % 2 = 0 \/ (v \div 64) % 2 = 1
      BY <2>2
    <3> QED
      BY <3>1 DEF C128CartInv
  <2> HIDE DEF b, f, z
  <2> QED
    BY <2>1, <2>3, <2>4 DEF C128CartInv
<1>3. CASE CartLatch
  <2> DEFINE b == IF ccart.kind = "magic" THEN 255 % MagicSize(ccart.chips) ELSE ccart.bank
  <2>1. ccart' = [ccart EXCEPT !.bank = b]
    BY <1>3 DEF CartLatch
  <2>2. b \in Nat /\ b < CartRoom[ccart.kind]
    <3>1. CASE ccart.kind = "magic"
      <4>1. MagicSize(ccart.chips) \in {1, 2, 4, 8, 16, 32, 64}
        BY MagicSizeFits DEF C128CartInv
      <4> QED
        BY <3>1, <4>1 DEF CartRoom
    <3>2. CASE ccart.kind # "magic"
      BY <3>2 DEF C128CartInv
    <3> QED
      BY <3>1, <3>2
  <2> HIDE DEF b
  <2> QED
    BY <2>1, <2>2 DEF C128CartInv
<1>4. CASE CartReset
  <2> DEFINE b == IF ccart.kind = "gmod2" THEN ccart.bank ELSE 0
  <2>1. ccart' = [ccart EXCEPT !.bank = b, !.forced = FALSE, !.frozen = FALSE]
    BY <1>4 DEF CartReset
  <2>2. b \in Nat /\ b < CartRoom[ccart.kind]
    BY DEF C128CartInv, CartRoom
  <2> HIDE DEF b
  <2> QED
    BY <2>1, <2>2 DEF C128CartInv
<1>5. CASE CartFreeze
  <2> DEFINE f == ccart.forced \/ ccart.kind = "partner"
             z == ccart.kind = "partner"
  <2>1. ccart' = [ccart EXCEPT !.forced = f, !.frozen = z]
    BY <1>5 DEF CartFreeze
  <2>2. f = z /\ f \in BOOLEAN /\ (ccart.kind # "partner" => ~f)
    BY DEF C128CartInv
  <2> HIDE DEF f, z
  <2> QED
    BY <2>1, <2>2 DEF C128CartInv
<1> QED
  BY <1>1, <1>2, <1>3, <1>4, <1>5 DEF C128CartNext

\* The bank chosen is one the cartridge has, the frozen NMI vector lasts until it
\* is released, and an image shows all over its ROM (c128_carts.cpp).
THEOREM C128CartCorrect == C128CartSpec => []C128CartRight
<1>1. C128CartInit => C128CartInv
  <2> SUFFICES ASSUME C128CartInit PROVE C128CartInv
    OBVIOUS
  <2> DEFINE none == 0
             one == 1
  <2>1. \E kind \in {"comal", "magic", "partner", "gmod2"}, n \in 1 .. 64 :
          ccart = [kind |-> kind, chips |-> n, bank |-> none, forced |-> FALSE, frozen |-> FALSE]
    BY C128CartAssumption DEF C128CartInit
  <2>2. none \in Nat /\ \A kind \in {"comal", "magic", "partner", "gmod2"} : none < CartRoom[kind]
    BY DEF CartRoom
  <2> HIDE DEF none
  <2> QED
    BY <2>1, <2>2 DEF C128CartInv
<1>2. C128ImageInit \/ cimage = NoImage => ImageRight
  <2>1. cimage = NoImage => ImageRight
    BY DEF NoImage, ImageRight
  <2> QED
    BY <2>1, RawImage, ChipImage DEF C128ImageInit
<1>3. C128CartInv /\ ImageRight /\ [C128CartNext /\ UNCHANGED cimage]_<<ccart, cimage>> => C128CartInv' /\ ImageRight'
  BY C128CartSteps DEF ImageRight
<1>4. C128CartInv /\ ImageRight => C128CartRight
  BY DEF C128CartInv, ImageRight, C128CartRight
<1> QED
  BY <1>1, <1>2, <1>3, <1>4, PTL DEF C128CartSpec

EepCommands == {"read", "write", "erase", "wen", "wds", "wral", "eral"}
EepLen(cmd) == IF cmd \in {"write", "wral"} THEN 10 ELSE 6

\* Bit i of a command.
EepStream(op, at, w, i) == IF i <= 5 THEN op[i] ELSE IF i = 6 THEN at ELSE w[i - 6]

\* The first n bits, and the bits after them.
EepBitsIn(r, op, at, w, n) ==
    r \in Seq(EepBit) /\ Len(r) = n /\ \A i \in 1 .. n : r[i] = EepStream(op, at, w, i)
EepBitsLeft(l, len, op, at, w, n) ==
    l \in Seq(EepBit) /\ Len(l) = len - n /\ \A i \in 1 .. len - n : l[i] = EepStream(op, at, w, n + i)

\* What the chip takes the command for after n bits.
EepTaken(cmd, n, taken) ==
    IF n < 3 THEN taken \notin {"dummy", "data"}
    ELSE IF n < 5 /\ cmd \in {"wen", "wds", "wral", "eral"} THEN taken = "cmd00"
    ELSE taken = cmd

\* n bits of a command are sent.
EepSending(op, w, n) ==
    /\ EepBitsIn(ceep.reg, op, chost.at, w, n) /\ EepBitsLeft(chost.left, EepLen(chost.cmd), op, chost.at, w, n)
    /\ chost.got = <<>> /\ EepTaken(chost.cmd, n, ceep.cmd) /\ (chost.cmd = "wen" /\ n >= 5 => ceep.wen)

\* The bits that wait to come out after the m-th.
EepOut(m, first, second, reg) ==
    /\ m = 1 => reg = <<first[2]>>
    /\ m = 2 => reg = <<first[3], first[4]>>
    /\ m = 3 => reg = <<first[4]>>
    /\ m = 4 => reg = <<second[1], second[2]>>
    /\ m = 5 => reg = <<second[2]>>
    /\ m = 6 => reg = <<second[3], second[4]>>
    /\ m = 7 => reg = <<second[4]>>

\* The bits read come from two words, half a word at a time.
EepReadBits ==
    LET m == Len(chost.got)
        first == chost.words[chost.at]
        second == chost.words[1 - chost.at]
    IN  /\ chost.cmd = "read" /\ chost.left = <<>> /\ m <= 8
        /\ \A i \in 1 .. m : chost.got[i] = IF i <= 4 THEN first[i] ELSE second[i - 4]
        /\ m = 0 => ceep.cmd = "dummy" /\ ceep.addr = chost.at
        /\ m > 0 => ceep.cmd = "data" /\ ceep.count = m % 4 /\ ceep.addr = IF m \in 4 .. 7 THEN 1 - chost.at ELSE chost.at
        /\ EepOut(m, first, second, ceep.outReg)

EepTypes ==
    /\ DOMAIN ceep = {"cs", "clock", "in", "out", "reg", "outReg", "count", "cmd", "addr", "wen", "data"}
    /\ DOMAIN chost = {"left", "cmd", "words", "wen", "at", "got"}
    /\ ceep.cs \in BOOLEAN /\ ceep.clock \in BOOLEAN /\ ceep.reg \in Seq(EepBit) /\ ceep.wen \in BOOLEAN
    /\ chost.left \in Seq(EepBit) /\ chost.got \in Seq(EepBit) /\ chost.at \in EepWords
    /\ chost.words \in [EepWords -> EepWord]
    /\ chost.cmd \in EepCommands \cup {"none"}

\* Between commands, while one is sent, while its words are read, or when it is through.
EepInv ==
    /\ EepTypes
    /\ ceep.data = chost.words /\ ceep.wen = chost.wen
    /\ IF chost.cmd = "none" THEN ~ceep.clock /\ chost.left = <<>> /\ chost.got = <<>>
       ELSE /\ ceep.cs
            /\ \/ \E op \in Opcodes[chost.cmd], w \in EepWord, n \in 0 .. 9 : n < EepLen(chost.cmd) /\ EepSending(op, w, n)
               \/ EepReadBits
               \/ chost.cmd # "read" /\ chost.left = <<>> /\ chost.got = <<>>

\* Two words of four bits one after the other.
LEMMA JoinedBits ==
  ASSUME NEW S, NEW a \in Seq(S), NEW b \in Seq(S), Len(a) = 4, Len(b) = 4
  PROVE  /\ Len(a \o b) = 8
         /\ \A i \in 1 .. 4 : (a \o b)[i] = a[i] /\ (a \o b)[i + 4] = b[i]
<1> DEFINE c == a \o b
<1>1. Len(c) = Len(a) + Len(b) /\ \A i \in 1 .. Len(a) + Len(b) : c[i] = IF i <= Len(a) THEN a[i] ELSE b[i - Len(a)]
  BY ConcatProperties, Zenon
<1> HIDE DEF c
<1>2. \A i \in 1 .. 8 : c[i] = IF i <= 4 THEN a[i] ELSE b[i - 4]
  BY <1>1
<1>3. ASSUME NEW i \in 1 .. 4 PROVE c[i] = a[i] /\ c[i + 4] = b[i]
  <2>1. i \in 1 .. 8 /\ i + 4 \in 1 .. 8 /\ i <= 4 /\ ~(i + 4 <= 4) /\ (i + 4) - 4 = i
    OBVIOUS
  <2>2. c[i] = a[i]
    BY <1>2, <2>1
  <2>3. c[i + 4] = b[i]
    BY <1>2, <2>1
  <2> QED
    BY <2>2, <2>3
<1>4. Len(c) = 8
  BY <1>1
<1> QED
  BY <1>3, <1>4 DEF c

\* The bits of two words read one after the other.
LEMMA WordBits ==
  ASSUME NEW a \in EepWord, NEW b \in EepWord
  PROVE  /\ a \in Seq(EepBit) /\ Len(a) = 4 /\ b \in Seq(EepBit) /\ Len(b) = 4
         /\ \A i \in 1 .. 4 : (a \o b)[i] = a[i] /\ (a \o b)[i + 4] = b[i]
         /\ Len(a \o b) = 8
<1>1. ASSUME NEW w \in EepWord PROVE w \in Seq(EepBit) /\ Len(w) = 4
  <2>1. w = <<w[1], w[2], w[3], w[4]>> /\ w[1] \in EepBit /\ w[2] \in EepBit /\ w[3] \in EepBit /\ w[4] \in EepBit
    BY DEF EepWord
  <2>2. \A p, q, t, u \in EepBit : <<p, q, t, u>> \in Seq(EepBit) /\ Len(<<p, q, t, u>>) = 4
    OBVIOUS
  <2>3. <<w[1], w[2], w[3], w[4]>> \in Seq(EepBit) /\ Len(<<w[1], w[2], w[3], w[4]>>) = 4
    BY <2>1, <2>2, Zenon
  <2> QED
    BY <2>1, <2>3, Zenon
<1>2. a \in Seq(EepBit) /\ Len(a) = 4 /\ b \in Seq(EepBit) /\ Len(b) = 4
  BY <1>1
<1>3. Len(a \o b) = 8 /\ \A i \in 1 .. 4 : (a \o b)[i] = a[i] /\ (a \o b)[i + 4] = b[i]
  BY <1>2, JoinedBits
<1> QED
  BY <1>2, <1>3

\* The bits of the commands' codes.
LEMMA OpBits ==
  ASSUME NEW cmd \in EepCommands, NEW op \in Opcodes[cmd]
  PROVE  /\ op \in Seq(EepBit) /\ Len(op) = 5 /\ op[1] = 1
         /\ cmd = "read" => op[2] = 1 /\ op[3] = 0
         /\ cmd = "write" => op[2] = 0 /\ op[3] = 1
         /\ cmd = "erase" => op[2] = 1 /\ op[3] = 1
         /\ cmd \in {"wen", "wds", "wral", "eral"} => op[2] = 0 /\ op[3] = 0
         /\ cmd = "wen" => op[4] = 1 /\ op[5] = 1
         /\ cmd = "wds" => op[4] = 0 /\ op[5] = 0
         /\ cmd = "wral" => op[4] = 0 /\ op[5] = 1
         /\ cmd = "eral" => op[4] = 1 /\ op[5] = 0
<1>b. 0 \in EepBit /\ 1 \in EepBit
  BY DEF EepBit
<1>1. CASE cmd = "read"
  <2>1. PICK b \in {0, 1} : op = <<1, 1, 0, b, 0>>
    BY <1>1 DEF Opcodes
  <2> QED
    BY <1>1, <1>b, <2>1
<1>2. CASE cmd = "write"
  <2>1. op = <<1, 0, 1, 1, 0>>
    BY <1>2 DEF Opcodes
  <2> QED
    BY <1>2, <1>b, <2>1
<1>3. CASE cmd = "erase"
  <2>1. op = <<1, 1, 1, 0, 0>>
    BY <1>3 DEF Opcodes
  <2> QED
    BY <1>3, <1>b, <2>1
<1>4. CASE cmd = "wen"
  <2>1. op = <<1, 0, 0, 1, 1>>
    BY <1>4 DEF Opcodes
  <2> QED
    BY <1>4, <1>b, <2>1
<1>5. CASE cmd = "wds"
  <2>1. op = <<1, 0, 0, 0, 0>>
    BY <1>5 DEF Opcodes
  <2> QED
    BY <1>5, <1>b, <2>1
<1>6. CASE cmd = "wral"
  <2>1. op = <<1, 0, 0, 0, 1>>
    BY <1>6 DEF Opcodes
  <2> QED
    BY <1>6, <1>b, <2>1
<1>7. CASE cmd = "eral"
  <2>1. op = <<1, 0, 0, 1, 0>>
    BY <1>7 DEF Opcodes
  <2> QED
    BY <1>7, <1>b, <2>1
<1> QED
  BY <1>1, <1>2, <1>3, <1>4, <1>5, <1>6, <1>7 DEF EepCommands

EepFields == {"cs", "clock", "in", "out", "reg", "outReg", "count", "cmd", "addr", "wen", "data"}

\* A chip that differs in its inputs alone.
EepLike(f, e) ==
    /\ DOMAIN f = EepFields
    /\ f.reg = e.reg /\ f.out = e.out /\ f.outReg = e.outReg /\ f.count = e.count /\ f.cmd = e.cmd
    /\ f.addr = e.addr /\ f.wen = e.wen /\ f.data = e.data

\* Clock low and then high while the chip is selected: one rising edge.
LEMMA OneEdge ==
  ASSUME NEW e, DOMAIN e = EepFields, e.cs = TRUE, NEW b
  PROVE  \E f : /\ EepLike(f, e) /\ f.cs = TRUE /\ f.in = b
                /\ EepIo(EepIo(e, TRUE, FALSE, b), TRUE, TRUE, b) = [ClockRises(f) EXCEPT !.clock = TRUE]
<1> USE DEF EepFields
<1>1. ASSUME NEW x, DOMAIN x = EepFields, x.cs = TRUE
      PROVE  Select(x, TRUE) = [x EXCEPT !.cs = TRUE, !.cmd = x.cmd]
  BY <1>1 DEF Select
<1> DEFINE e1 == EepIo(e, TRUE, FALSE, b)
<1>2. e1 = [[[e EXCEPT !.cs = TRUE, !.cmd = e.cmd] EXCEPT !.in = b] EXCEPT !.clock = FALSE]
  BY <1>1 DEF EepIo
<1>3. EepLike(e1, e) /\ e1.cs = TRUE /\ e1.clock = FALSE
  BY <1>2 DEF EepLike
<1> HIDE DEF e1
<1> DEFINE f == [[e1 EXCEPT !.cs = TRUE, !.cmd = e1.cmd] EXCEPT !.in = b]
<1>4. Select(e1, TRUE) = [e1 EXCEPT !.cs = TRUE, !.cmd = e1.cmd]
  BY <1>1, <1>3 DEF EepLike
<1>5. EepLike(f, e) /\ f.cs = TRUE /\ f.in = b /\ f.clock = FALSE
  BY <1>3 DEF EepLike
<1>6. EepIo(e1, TRUE, TRUE, b) = [(IF ~f.clock THEN ClockRises(f) ELSE f) EXCEPT !.clock = TRUE]
  <2> HIDE DEF f
  <2>1. [Select(e1, TRUE) EXCEPT !.in = b] = f
    BY <1>4 DEF f
  <2> QED
    BY <2>1 DEF EepIo
<1> HIDE DEF f
<1> QED
  BY <1>5, <1>6 DEF e1

\* A bit shifted in while nothing is read.
LEMMA Pushed ==
  ASSUME NEW f, NEW e, EepLike(f, e), f.cmd \notin {"dummy", "data"}, e.reg \in Seq(EepBit), f.in \in EepBit
  PROVE  \E h : /\ DOMAIN h = EepFields /\ h.reg = Append(e.reg, f.in) /\ h.cs = f.cs /\ h.cmd = e.cmd
                /\ h.wen = e.wen /\ h.data = e.data /\ ClockRises(f) = ShiftedIn(h)
<1> USE DEF EepFields
<1> DEFINE h == [f EXCEPT !.reg = Append(f.reg, f.in)]
<1>1. ClockRises(f) = ShiftedIn(h)
  BY DEF ClockRises
<1>2. DOMAIN h = EepFields /\ h.reg = Append(e.reg, f.in) /\ h.cs = f.cs /\ h.cmd = e.cmd /\ h.wen = e.wen /\ h.data = e.data
  BY DEF EepLike
<1> HIDE DEF h
<1> QED
  BY <1>1, <1>2

\* The words once a command is through.
EepDone(cmd, at, word, wen, data) ==
    IF ~wen THEN data
    ELSE IF cmd = "write" THEN [data EXCEPT ![at] = word]
    ELSE IF cmd = "wral" THEN EepAll(word)
    ELSE IF cmd = "erase" THEN [data EXCEPT ![at] = <<1, 1, 1, 1>>]
    ELSE IF cmd = "eral" THEN EepAll(<<1, 1, 1, 1>>)
    ELSE data

\* One more bit of a command, not its last: the chip takes it for what it is.
EepTook(h, x, cmd, n) ==
    /\ DOMAIN x = EepFields /\ x.cs = h.cs /\ x.reg = h.reg /\ x.data = h.data
    /\ EepTaken(cmd, n, x.cmd) /\ x.wen = IF cmd = "wen" /\ n >= 5 THEN TRUE ELSE h.wen

\* The last bit: the chip does what the command says.
EepDid(h, x, cmd, at, word) ==
    /\ DOMAIN x = EepFields /\ x.cs = h.cs /\ x.reg = <<>>
    /\ cmd = "read" => x.cmd = "dummy" /\ x.addr = at
    /\ x.wen = IF cmd = "wen" THEN TRUE ELSE IF cmd = "wds" THEN FALSE ELSE h.wen
    /\ x.data = EepDone(cmd, at, word, h.wen, h.data)

\* The first bit is the start bit.
LEMMA ShiftsFirst ==
  ASSUME NEW cmd \in EepCommands, NEW op \in Opcodes[cmd], NEW at, NEW w,
         NEW h, DOMAIN h = EepFields, EepBitsIn(h.reg, op, at, w, 1),
         EepTaken(cmd, 0, h.cmd)
  PROVE  EepTook(h, ShiftedIn(h), cmd, 1)
<1>1. Len(h.reg) = 1 /\ h.reg[1] = 1
  BY OpBits DEF EepBitsIn, EepStream
<1>2. ShiftedIn(h) = h
  BY <1>1 DEF ShiftedIn
<1>3. EepTaken(cmd, 1, h.cmd)
  BY DEF EepTaken
<1> QED
  BY <1>2, <1>3 DEF EepTook

\* Bits after which the chip waits for more.
LEMMA ShiftsBetween ==
  ASSUME NEW cmd \in EepCommands, NEW n \in {2, 4, 7, 8, 9},
         NEW h, DOMAIN h = EepFields, Len(h.reg) = n,
         EepTaken(cmd, n - 1, h.cmd), h.wen \in BOOLEAN, cmd = "wen" /\ n >= 6 => h.wen
  PROVE  n < EepLen(cmd) => EepTook(h, ShiftedIn(h), cmd, n)
<1>1. ShiftedIn(h) = h
  BY DEF ShiftedIn
<1>2. CASE n \in {2, 4}
  <2>1. EepTaken(cmd, n, h.cmd)
    BY <1>2 DEF EepTaken
  <2>2. ~(n >= 5)
    BY <1>2
  <2> QED
    BY <1>1, <2>1, <2>2 DEF EepTook
<1>3. CASE n \in {7, 8, 9}
  <2>1. EepTaken(cmd, n, h.cmd)
    BY <1>3 DEF EepTaken
  <2>2. n < EepLen(cmd) => cmd # "wen"
    BY <1>3 DEF EepLen
  <2> QED
    BY <1>1, <2>1, <2>2 DEF EepTook
<1> QED
  BY <1>2, <1>3

\* The third bit tells reads, writes and erases from the rest.
LEMMA ShiftsThird ==
  ASSUME NEW cmd \in EepCommands, NEW op \in Opcodes[cmd], NEW at, NEW w,
         NEW h, DOMAIN h = EepFields, EepBitsIn(h.reg, op, at, w, 3)
  PROVE  EepTook(h, ShiftedIn(h), cmd, 3)
<1> DEFINE r == h.reg
           t == IF r[2] = 0 THEN (IF r[3] = 0 THEN "cmd00" ELSE "write") ELSE IF r[3] = 0 THEN "read" ELSE "erase"
           x == ShiftedIn(h)
<1>1. Len(r) = 3 /\ r[2] = op[2] /\ r[3] = op[3]
  BY DEF EepBitsIn, EepStream
<1>2. x = [h EXCEPT !.cmd = t]
  BY <1>1 DEF ShiftedIn
<1>3. EepTaken(cmd, 3, t)
  <2>1. CASE cmd \in {"wen", "wds", "wral", "eral"}
    BY <1>1, <2>1, OpBits DEF EepTaken
  <2>2. CASE cmd \in {"read", "write", "erase"}
    BY <1>1, <2>2, OpBits DEF EepTaken
  <2> QED
    BY <2>1, <2>2 DEF EepCommands
<1> HIDE DEF x, t
<1>4. DOMAIN x = EepFields /\ x.cs = h.cs /\ x.reg = h.reg /\ x.data = h.data /\ x.cmd = t /\ x.wen = h.wen
  BY <1>2 DEF EepFields
<1> QED
  BY <1>3, <1>4 DEF EepTook, x

\* The fifth tells the rest from one another, and enables writes.
LEMMA ShiftsFifth ==
  ASSUME NEW cmd \in EepCommands, NEW op \in Opcodes[cmd], NEW at, NEW w,
         NEW h, DOMAIN h = EepFields, EepBitsIn(h.reg, op, at, w, 5),
         EepTaken(cmd, 4, h.cmd), h.wen \in BOOLEAN
  PROVE  EepTook(h, ShiftedIn(h), cmd, 5)
<1> DEFINE r == h.reg
           x == ShiftedIn(h)
<1>1. Len(r) = 5 /\ r[4] = op[4] /\ r[5] = op[5]
  BY DEF EepBitsIn, EepStream
<1>2. CASE cmd \in {"read", "write", "erase"}
  <2>1. h.cmd = cmd
    BY <1>2 DEF EepTaken
  <2>2. x = h
    BY <1>1, <1>2, <2>1 DEF ShiftedIn
  <2>3. EepTaken(cmd, 5, h.cmd) /\ cmd # "wen"
    BY <1>2, <2>1 DEF EepTaken
  <2>4. EepTook(h, h, cmd, 5)
    BY <2>3 DEF EepTook
  <2>5. ShiftedIn(h) = h
    BY <2>2
  <2> QED
    BY <2>4, <2>5, Zenon
<1>3. CASE cmd = "wen"
  <2>1. h.cmd = "cmd00" /\ r[4] = 1 /\ r[5] = 1
    BY <1>1, <1>3, OpBits DEF EepTaken
  <2>2. x = [h EXCEPT !.cmd = "wen", !.wen = TRUE]
    BY <1>1, <2>1 DEF ShiftedIn
  <2> HIDE DEF x
  <2>3. DOMAIN x = EepFields /\ x.cs = h.cs /\ x.reg = h.reg /\ x.data = h.data /\ x.cmd = "wen" /\ x.wen = TRUE
    BY <2>2 DEF EepFields
  <2>4. EepTaken(cmd, 5, "wen")
    BY <1>3 DEF EepTaken
  <2>0. 5 >= 5
    OBVIOUS
  <2>5. x.wen = IF cmd = "wen" /\ 5 >= 5 THEN TRUE ELSE h.wen
    BY <1>3, <2>0, <2>3, Zenon
  <2>6. EepTaken(cmd, 5, x.cmd)
    BY <2>3, <2>4
  <2>7. EepTook(h, x, cmd, 5)
    BY <2>3, <2>5, <2>6, Zenon DEF EepTook
  <2> QED
    BY <2>7 DEF x
<1>4. CASE cmd \in {"wds", "wral", "eral"}
  <2>1. h.cmd = "cmd00"
    BY <1>4 DEF EepTaken
  <2>2. x = [h EXCEPT !.cmd = cmd]
    <3>1. CASE cmd = "wds"
      <4>1. r[4] = 0 /\ r[5] = 0
        BY <1>1, <3>1, OpBits
      <4> QED
        BY <1>1, <2>1, <3>1, <4>1 DEF ShiftedIn
    <3>2. CASE cmd = "wral"
      <4>1. r[4] = 0 /\ r[5] = 1
        BY <1>1, <3>2, OpBits
      <4> QED
        BY <1>1, <2>1, <3>2, <4>1 DEF ShiftedIn
    <3>3. CASE cmd = "eral"
      <4>1. r[4] = 1 /\ r[5] = 0
        BY <1>1, <3>3, OpBits
      <4> QED
        BY <1>1, <2>1, <3>3, <4>1 DEF ShiftedIn
    <3> QED
      BY <1>4, <3>1, <3>2, <3>3
  <2> HIDE DEF x
  <2>3. DOMAIN x = EepFields /\ x.cs = h.cs /\ x.reg = h.reg /\ x.data = h.data /\ x.cmd = cmd /\ x.wen = h.wen
    BY <2>2 DEF EepFields
  <2>4. EepTaken(cmd, 5, cmd) /\ cmd # "wen"
    BY <1>4 DEF EepTaken
  <2> QED
    BY <2>3, <2>4 DEF EepTook, x
<1> QED
  BY <1>2, <1>3, <1>4 DEF EepCommands

\* The sixth bit ends the address: a command without a word is done.
LEMMA ShiftsSixth ==
  ASSUME NEW cmd \in EepCommands, NEW op \in Opcodes[cmd], NEW at, NEW w,
         NEW h, DOMAIN h = EepFields, EepBitsIn(h.reg, op, at, w, 6),
         EepTaken(cmd, 5, h.cmd), h.wen \in BOOLEAN, cmd = "wen" => h.wen
  PROVE  /\ EepLen(cmd) = 10 => EepTook(h, ShiftedIn(h), cmd, 6)
         /\ EepLen(cmd) = 6 => \A word : EepDid(h, ShiftedIn(h), cmd, at, word)
<1> DEFINE r == h.reg
           x == ShiftedIn(h)
<1>1. Len(r) = 6 /\ AddrOf(r) = at
  BY DEF EepBitsIn, EepStream, AddrOf
<1>2. x = ShiftedSix(h)
  BY <1>1 DEF ShiftedIn
<1>3. h.cmd = cmd
  BY DEF EepTaken
<1> HIDE DEF x
<1>w. CASE cmd \in {"write", "wral"}
  <2>1. x = h
    BY <1>2, <1>3, <1>w DEF ShiftedSix
  <2>2. EepTook(h, h, cmd, 6)
    <3>1. EepTaken(cmd, 6, h.cmd) /\ cmd # "wen"
      BY <1>3, <1>w DEF EepTaken
    <3> QED
      BY <3>1 DEF EepTook
  <2>3. EepLen(cmd) = 10
    BY <1>w DEF EepLen
  <2> QED
    BY <2>1, <2>2, <2>3 DEF x
<1>o. CASE cmd \in {"read", "wen", "wds", "erase", "eral"}
  <2>0. EepLen(cmd) = 6
    BY <1>o DEF EepLen
  <2> SUFFICES ASSUME NEW word PROVE EepDid(h, x, cmd, at, word)
    BY <2>0 DEF x
  <2>1. CASE cmd = "read"
    <3>1. x = [[h EXCEPT !.cmd = "dummy", !.addr = at] EXCEPT !.reg = <<>>]
      BY <1>1, <1>2, <1>3, <2>1 DEF ShiftedSix, EepForgotten
    <3>2. DOMAIN x = EepFields /\ x.cs = h.cs /\ x.reg = <<>> /\ x.cmd = "dummy" /\ x.addr = at /\ x.wen = h.wen /\ x.data = h.data
      BY <3>1 DEF EepFields
    <3> QED
      BY <2>1, <3>2 DEF EepDid, EepDone
  <2>2. CASE cmd \in {"wds", "wen"}
    <3> DEFINE g == GivenUp(h)
    <3>1. g = [[h EXCEPT !.cmd = "idle"] EXCEPT !.reg = <<>>]
      BY DEF GivenUp, EepForgotten
    <3>2. DOMAIN g = EepFields /\ g.cs = h.cs /\ g.reg = <<>> /\ g.wen = h.wen /\ g.data = h.data
      BY <3>1 DEF EepFields
    <3>3. x = [g EXCEPT !.wen = cmd = "wen"]
      BY <1>2, <1>3, <2>2 DEF ShiftedSix
    <3> HIDE DEF g
    <3>4. DOMAIN x = EepFields /\ x.cs = h.cs /\ x.reg = <<>> /\ x.data = h.data
      BY <3>2, <3>3 DEF EepFields
    <3>5. x.wen = IF cmd = "wen" THEN TRUE ELSE FALSE
      BY <2>2, <3>2, <3>3 DEF EepFields
    <3> QED
      BY <2>2, <3>4, <3>5 DEF EepDid, EepDone
  <2>3. CASE cmd \in {"erase", "eral"} /\ ~h.wen
    <3>1. x = [[h EXCEPT !.cmd = "idle"] EXCEPT !.reg = <<>>]
      BY <1>2, <1>3, <2>3 DEF ShiftedSix, GivenUp, EepForgotten
    <3>2. DOMAIN x = EepFields /\ x.cs = h.cs /\ x.reg = <<>> /\ x.wen = h.wen /\ x.data = h.data
      BY <3>1 DEF EepFields
    <3> QED
      BY <2>3, <3>2 DEF EepDid, EepDone
  <2>4. CASE cmd = "erase" /\ h.wen
    <3> DEFINE d == [h.data EXCEPT ![at] = <<1, 1, 1, 1>>]
    <3>1. x = [[h EXCEPT !.addr = at, !.data = d] EXCEPT !.reg = <<>>]
      BY <1>1, <1>2, <1>3, <2>4 DEF ShiftedSix, EepForgotten
    <3> HIDE DEF d
    <3>2. DOMAIN x = EepFields /\ x.cs = h.cs /\ x.reg = <<>> /\ x.wen = h.wen /\ x.data = d
      BY <3>1 DEF EepFields
    <3>3. EepDone(cmd, at, word, h.wen, h.data) = d
      BY <2>4 DEF EepDone, d
    <3> QED
      BY <2>4, <3>2, <3>3 DEF EepDid
  <2>5. CASE cmd = "eral" /\ h.wen
    <3> DEFINE d == EepAll(<<1, 1, 1, 1>>)
    <3>1. x = [[h EXCEPT !.data = d] EXCEPT !.reg = <<>>]
      BY <1>1, <1>2, <1>3, <2>5 DEF ShiftedSix, EepForgotten
    <3> HIDE DEF d
    <3>2. DOMAIN x = EepFields /\ x.cs = h.cs /\ x.reg = <<>> /\ x.wen = h.wen /\ x.data = d
      BY <3>1 DEF EepFields
    <3>3. EepDone(cmd, at, word, h.wen, h.data) = d
      BY <2>5 DEF EepDone, d
    <3> QED
      BY <2>5, <3>2, <3>3 DEF EepDid
  <2> QED
    BY <1>o, <2>1, <2>2, <2>3, <2>4, <2>5
<1> QED
  BY <1>w, <1>o DEF EepCommands

\* The tenth ends the word: it is written, if writes are enabled.
LEMMA ShiftsTenth ==
  ASSUME NEW cmd \in {"write", "wral"}, NEW op \in Opcodes[cmd], NEW at, NEW w,
         NEW h, DOMAIN h = EepFields, EepBitsIn(h.reg, op, at, w, 10),
         EepTaken(cmd, 9, h.cmd), h.wen \in BOOLEAN
  PROVE  EepDid(h, ShiftedIn(h), cmd, at, <<h.reg[7], h.reg[8], h.reg[9], h.reg[10]>>)
<1> DEFINE r == h.reg
           x == ShiftedIn(h)
           word == <<r[7], r[8], r[9], r[10]>>
<1>1. Len(r) = 10 /\ AddrOf(r) = at
  BY DEF EepBitsIn, EepStream, AddrOf
<1>3. h.cmd = cmd
  BY DEF EepTaken
<1>2. x = ShiftedTen(h)
  BY <1>1, <1>3 DEF ShiftedIn
<1> HIDE DEF x
<1>4. CASE ~h.wen
  <2>1. x = [[h EXCEPT !.cmd = "idle"] EXCEPT !.reg = <<>>]
    BY <1>2, <1>4 DEF ShiftedTen, GivenUp, EepForgotten
  <2>2. DOMAIN x = EepFields /\ x.cs = h.cs /\ x.reg = <<>> /\ x.wen = h.wen /\ x.data = h.data
    BY <2>1 DEF EepFields
  <2> QED
    BY <1>4, <2>2 DEF EepDid, EepDone, x
<1>5. CASE cmd = "write" /\ h.wen
  <2> DEFINE d == [h.data EXCEPT ![at] = word]
  <2>1. x = [[h EXCEPT !.addr = at, !.data = d] EXCEPT !.reg = <<>>]
    BY <1>1, <1>2, <1>3, <1>5 DEF ShiftedTen, EepForgotten
  <2>3. EepDone(cmd, at, word, h.wen, h.data) = d
    BY <1>5 DEF EepDone
  <2> HIDE DEF d
  <2>2. DOMAIN x = EepFields /\ x.cs = h.cs /\ x.reg = <<>> /\ x.wen = h.wen /\ x.data = d
    BY <2>1 DEF EepFields
  <2> QED
    BY <1>5, <2>2, <2>3 DEF EepDid, x
<1>6. CASE cmd = "wral" /\ h.wen
  <2> DEFINE d == EepAll(word)
  <2>1. x = [[h EXCEPT !.data = d] EXCEPT !.reg = <<>>]
    BY <1>1, <1>2, <1>3, <1>6 DEF ShiftedTen, EepForgotten
  <2>3. EepDone(cmd, at, word, h.wen, h.data) = d
    BY <1>6 DEF EepDone
  <2> HIDE DEF d
  <2>2. DOMAIN x = EepFields /\ x.cs = h.cs /\ x.reg = <<>> /\ x.wen = h.wen /\ x.data = d
    BY <2>1 DEF EepFields
  <2> QED
    BY <1>6, <2>2, <2>3 DEF EepDid, x
<1> QED
  BY <1>4, <1>5, <1>6

\* Selecting the chip.
LEMMA Selected ==
  ASSUME NEW e, DOMAIN e = EepFields, e.cs \in BOOLEAN, e.clock \in BOOLEAN, NEW y, y = Select(e, TRUE)
  PROVE  /\ DOMAIN y = EepFields /\ y.cs = TRUE /\ y.clock = e.clock /\ y.wen = e.wen /\ y.data = e.data
         /\ y.reg \in {e.reg, <<>>} /\ (~e.cs /\ ~e.clock => y.reg = <<>>) /\ y.cmd = e.cmd
<1> USE DEF EepFields
<1>1. ASSUME NEW f, DOMAIN f = EepFields, y = [f EXCEPT !.cs = TRUE, !.cmd = f.cmd]
      PROVE  DOMAIN y = EepFields /\ y.cs = TRUE /\ y.clock = f.clock /\ y.wen = f.wen /\ y.data = f.data /\ y.reg = f.reg /\ y.cmd = f.cmd
  BY <1>1
<1>2. CASE ~e.cs /\ ~e.clock
  <2> DEFINE f == [e EXCEPT !.reg = <<>>]
  <2>1. DOMAIN f = EepFields /\ f.clock = e.clock /\ f.wen = e.wen /\ f.data = e.data /\ f.reg = <<>> /\ f.cmd = e.cmd
    OBVIOUS
  <2>2. y = [f EXCEPT !.cs = TRUE, !.cmd = f.cmd]
    BY <1>2 DEF Select
  <2> HIDE DEF f
  <2>3. DOMAIN y = EepFields /\ y.cs = TRUE /\ y.clock = f.clock /\ y.wen = f.wen /\ y.data = f.data /\ y.reg = f.reg /\ y.cmd = f.cmd
    BY <1>1, <2>1, <2>2
  <2> QED
    BY <1>2, <2>1, <2>3
<1>3. CASE ~(~e.cs /\ ~e.clock)
  <2>1. y = [e EXCEPT !.cs = TRUE, !.cmd = e.cmd]
    BY <1>3 DEF Select
  <2> QED
    BY <1>1, <1>3, <2>1
<1> QED
  BY <1>2, <1>3

\* Deselecting it.
LEMMA Deselected ==
  ASSUME NEW e, DOMAIN e = EepFields, NEW y, y = EepIo(e, FALSE, FALSE, 0)
  PROVE  /\ DOMAIN y = EepFields /\ y.cs = FALSE /\ y.clock = e.clock /\ y.wen = e.wen /\ y.data = e.data
         /\ y.cmd \notin {"read", "dummy", "data"} /\ y.reg = e.reg
<1> USE DEF EepFields
<1>0. y = Select(e, FALSE)
  BY DEF EepIo
<1>1. ASSUME NEW f, DOMAIN f = EepFields, NEW c, y = [f EXCEPT !.cs = FALSE, !.cmd = c]
      PROVE  DOMAIN y = EepFields /\ y.cs = FALSE /\ y.clock = f.clock /\ y.wen = f.wen /\ y.data = f.data /\ y.reg = f.reg /\ y.cmd = c
  BY <1>1
<1>2. CASE e.cs /\ e.cmd \in {"write", "wral", "eral"}
  <2> DEFINE f == [e EXCEPT !.cmd = "busy"]
  <2>1. DOMAIN f = EepFields /\ f.clock = e.clock /\ f.wen = e.wen /\ f.data = e.data /\ f.reg = e.reg /\ f.cmd = "busy"
    OBVIOUS
  <2>2. y = [f EXCEPT !.cs = FALSE, !.cmd = "busy"]
    BY <1>0, <1>2 DEF Select
  <2> HIDE DEF f
  <2>3. DOMAIN y = EepFields /\ y.cs = FALSE /\ y.clock = f.clock /\ y.wen = f.wen /\ y.data = f.data /\ y.reg = f.reg /\ y.cmd = "busy"
    BY <1>1, <2>1, <2>2
  <2> QED
    BY <2>1, <2>3
<1>3. CASE ~(e.cs /\ e.cmd \in {"write", "wral", "eral"})
  <2> DEFINE c == IF e.cmd \in {"read", "dummy", "data"} THEN "idle" ELSE e.cmd
  <2>1. y = [e EXCEPT !.cs = FALSE, !.cmd = c]
    BY <1>0, <1>3 DEF Select
  <2>2. c \notin {"read", "dummy", "data"}
    OBVIOUS
  <2> HIDE DEF c
  <2>3. DOMAIN y = EepFields /\ y.cs = FALSE /\ y.clock = e.clock /\ y.wen = e.wen /\ y.data = e.data /\ y.reg = e.reg /\ y.cmd = c
    BY <1>1, <2>1
  <2> QED
    BY <2>2, <2>3
<1> QED
  BY <1>2, <1>3

\* Selected with the clock low: nothing comes in or out.
LEMMA SelectedLow ==
  ASSUME NEW e, DOMAIN e = EepFields, e.cs \in BOOLEAN, e.clock \in BOOLEAN, NEW y, y = EepIo(e, TRUE, FALSE, 0)
  PROVE  /\ DOMAIN y = EepFields /\ y.cs = TRUE /\ y.clock = FALSE /\ y.wen = e.wen /\ y.data = e.data /\ y.cmd = e.cmd
         /\ y.reg \in {e.reg, <<>>} /\ (~e.cs /\ ~e.clock => y.reg = <<>>)
<1> DEFINE f == Select(e, TRUE)
<1>1. y = [[f EXCEPT !.in = 0] EXCEPT !.clock = FALSE]
  BY DEF EepIo
<1>2. f = Select(e, TRUE)
  OBVIOUS
<1> HIDE DEF f
<1>3. /\ DOMAIN f = EepFields /\ f.cs = TRUE /\ f.wen = e.wen /\ f.data = e.data /\ f.cmd = e.cmd
      /\ f.reg \in {e.reg, <<>>} /\ (~e.cs /\ ~e.clock => f.reg = <<>>)
  BY <1>2, Selected
<1>4. DOMAIN y = EepFields /\ y.cs = f.cs /\ y.clock = FALSE /\ y.wen = f.wen /\ y.data = f.data /\ y.cmd = f.cmd /\ y.reg = f.reg
  BY <1>1, <1>3 DEF EepFields
<1> QED
  BY <1>3, <1>4

\* One bit goes from those left to those in the register.
LEMMA BitSent ==
  ASSUME NEW op, NEW w, NEW n \in 0 .. 9, n < EepLen(chost.cmd), EepSending(op, w, n)
  PROVE  /\ Head(chost.left) = EepStream(op, chost.at, w, n + 1)
         /\ chost.left # <<>> /\ Head(chost.left) \in EepBit /\ Len(chost.left) = EepLen(chost.cmd) - n
         /\ EepBitsIn(Append(ceep.reg, Head(chost.left)), op, chost.at, w, n + 1)
         /\ EepBitsLeft(Tail(chost.left), EepLen(chost.cmd), op, chost.at, w, n + 1)
<1> DEFINE r == ceep.reg
           l == chost.left
           at == chost.at
           len == EepLen(chost.cmd)
<1>0. EepBitsIn(r, op, at, w, n) /\ EepBitsLeft(l, len, op, at, w, n) /\ len \in {6, 10} /\ n < len
  BY DEF EepSending, EepLen
<1> HIDE DEF r, l, at, len
<1>1. l \in Seq(EepBit) /\ Len(l) = len - n /\ \A i \in 1 .. len - n : l[i] = EepStream(op, at, w, n + i)
  BY <1>0 DEF EepBitsLeft
<1>2. r \in Seq(EepBit) /\ Len(r) = n /\ \A i \in 1 .. n : r[i] = EepStream(op, at, w, i)
  BY <1>0 DEF EepBitsIn
<1>3. len - n \in Nat /\ len - n > 0 /\ len - n - 1 = len - (n + 1)
  BY <1>0
<1>4. l # <<>>
  BY <1>1, <1>3
<1>5. Head(l) = l[1] /\ Head(l) \in EepBit /\ Tail(l) \in Seq(EepBit) /\ Len(Tail(l)) = Len(l) - 1
      /\ \A i \in 1 .. Len(Tail(l)) : Tail(l)[i] = l[i + 1]
  BY <1>1, <1>4, HeadTailProperties
<1>6. Head(l) = EepStream(op, at, w, n + 1)
  BY <1>1, <1>3, <1>5
<1>7. EepBitsIn(Append(r, Head(l)), op, at, w, n + 1)
  <2> DEFINE b == Head(l)
             q == Append(r, b)
  <2>1. b \in EepBit /\ b = EepStream(op, at, w, n + 1)
    BY <1>5, <1>6
  <2> HIDE DEF b
  <2>2. q \in Seq(EepBit) /\ Len(q) = Len(r) + 1 /\ (\A i \in 1 .. Len(r) : q[i] = r[i]) /\ q[Len(r) + 1] = b
    BY <1>2, <2>1, AppendProperties
  <2> HIDE DEF q
  <2>3. ASSUME NEW i \in 1 .. n + 1 PROVE q[i] = EepStream(op, at, w, i)
    <3>1. CASE i \in 1 .. n
      BY <1>2, <2>2, <3>1
    <3>2. CASE i = n + 1
      BY <1>2, <2>1, <2>2, <3>2
    <3> QED
      BY <3>1, <3>2
  <2>4. EepBitsIn(q, op, at, w, n + 1)
    BY <1>2, <2>2, <2>3 DEF EepBitsIn
  <2> QED
    BY <2>4 DEF q, b
<1>8. EepBitsLeft(Tail(l), len, op, at, w, n + 1)
  <2> DEFINE t == Tail(l)
  <2>1. t \in Seq(EepBit) /\ Len(t) = len - (n + 1) /\ \A i \in 1 .. len - (n + 1) : t[i] = l[i + 1]
    BY <1>1, <1>3, <1>5
  <2> HIDE DEF t
  <2>2. ASSUME NEW i \in 1 .. len - (n + 1) PROVE t[i] = EepStream(op, at, w, (n + 1) + i)
    <3>1. t[i] = l[i + 1] /\ i + 1 \in 1 .. len - n /\ n + (i + 1) = (n + 1) + i
      BY <1>3, <2>1
    <3>2. l[i + 1] = EepStream(op, at, w, n + (i + 1))
      BY <1>1, <3>1
    <3> QED
      BY <3>1, <3>2
  <2>3. EepBitsLeft(t, len, op, at, w, n + 1)
    BY <2>1, <2>2 DEF EepBitsLeft
  <2> QED
    BY <2>3 DEF t
<1> QED
  BY <1>1, <1>4, <1>5, <1>6, <1>7, <1>8 DEF r, l, at, len

\* The bits of a command as the program lays them out.
LEMMA BitsLaid ==
  ASSUME NEW cmd \in EepCommands, NEW op \in Opcodes[cmd], NEW at \in EepWords, NEW w \in EepWord
  PROVE  EepBitsLeft(op \o <<at>> \o (IF cmd \in {"write", "wral"} THEN w ELSE <<>>), EepLen(cmd), op, at, w, 0)
<1>1. op \in Seq(EepBit) /\ Len(op) = 5
  BY OpBits
<1>2. w \in Seq(EepBit) /\ Len(w) = 4
  BY WordBits
<1> DEFINE a == <<at>>
           p == op \o a
           l == p \o w
<1>3. a \in Seq(EepBit) /\ Len(a) = 1 /\ a[1] = at
  BY DEF EepWords, EepBit
<1> HIDE DEF a
<1>4. p \in Seq(EepBit) /\ Len(p) = Len(op) + Len(a)
      /\ \A i \in 1 .. Len(op) + Len(a) : p[i] = IF i <= Len(op) THEN op[i] ELSE a[i - Len(op)]
  BY <1>1, <1>3, ConcatProperties
<1>5. \A i \in 1 .. 6 : p[i] = IF i <= 5 THEN op[i] ELSE at
  <2>1. \A i \in 1 .. 6 : p[i] = IF i <= 5 THEN op[i] ELSE a[i - 5]
    BY <1>1, <1>3, <1>4
  <2> HIDE DEF p
  <2>2. ASSUME NEW i \in 1 .. 6 PROVE p[i] = IF i <= 5 THEN op[i] ELSE at
    <3>1. CASE i <= 5
      BY <2>1, <3>1
    <3>2. CASE i = 6
      BY <1>3, <2>1, <3>2
    <3> QED
      BY <3>1, <3>2
  <2> QED
    BY <2>2
<1>6. Len(p) = 6
  BY <1>1, <1>3, <1>4
<1> HIDE DEF p
<1>7. CASE cmd \in {"write", "wral"}
  <2>1. l \in Seq(EepBit) /\ Len(l) = Len(p) + Len(w)
        /\ \A i \in 1 .. Len(p) + Len(w) : l[i] = IF i <= Len(p) THEN p[i] ELSE w[i - Len(p)]
    <3>1. \A s1, s2 \in Seq(EepBit) : /\ s1 \o s2 \in Seq(EepBit) /\ Len(s1 \o s2) = Len(s1) + Len(s2)
             /\ \A i \in 1 .. Len(s1) + Len(s2) : (s1 \o s2)[i] = IF i <= Len(s1) THEN s1[i] ELSE s2[i - Len(s1)]
      BY ConcatProperties, Zenon
    <3> QED
      BY <1>2, <1>4, <3>1, Zenon
  <2>2. Len(l) = 10 /\ \A i \in 1 .. 10 : l[i] = IF i <= 6 THEN p[i] ELSE w[i - 6]
    BY <1>2, <1>6, <2>1
  <2> HIDE DEF l
  <2>3. ASSUME NEW i \in 1 .. 10 PROVE l[i] = EepStream(op, at, w, 0 + i)
    <3>1. CASE i <= 6
      BY <1>5, <2>2, <3>1 DEF EepStream
    <3>2. CASE i > 6
      BY <2>2, <3>2 DEF EepStream
    <3> QED
      BY <3>1, <3>2
  <2>4. EepLen(cmd) = 10
    BY <1>7 DEF EepLen
  <2>5. Len(l) = EepLen(cmd) - 0 /\ \A i \in 1 .. EepLen(cmd) - 0 : l[i] = EepStream(op, at, w, 0 + i)
    BY <2>2, <2>3, <2>4
  <2>6. EepBitsLeft(l, EepLen(cmd), op, at, w, 0)
    BY <2>1, <2>5, Zenon DEF EepBitsLeft
  <2> QED
    BY <1>7, <2>6 DEF l, p, a
<1>8. CASE cmd \notin {"write", "wral"}
  <2>1. p \o <<>> = p
    BY <1>4, ConcatEmptySeq
  <2>2. ASSUME NEW i \in 1 .. 6 PROVE p[i] = EepStream(op, at, w, 0 + i)
    BY <1>5 DEF EepStream
  <2>3. EepLen(cmd) = 6
    BY <1>8 DEF EepLen
  <2>6. Len(p) = EepLen(cmd) - 0 /\ \A i \in 1 .. EepLen(cmd) - 0 : p[i] = EepStream(op, at, w, 0 + i)
    BY <1>6, <2>2, <2>3
  <2>4. EepBitsLeft(p, EepLen(cmd), op, at, w, 0)
    BY <1>4, <2>6, Zenon DEF EepBitsLeft
  <2>5. EepBitsLeft(p \o <<>>, EepLen(cmd), op, at, w, 0)
    BY <2>1, <2>4
  <2> QED
    BY <1>8, <2>5 DEF p, a
<1> QED
  BY <1>7, <1>8

\* The commands there are.
LEMMA OpcodesAre == DOMAIN Opcodes = EepCommands
  BY DEF Opcodes, EepCommands

\* Selecting the chip to send a command keeps the invariant.
LEMMA EepBegins ==
  ASSUME EepInv, NEW cmd \in EepCommands, NEW op \in Opcodes[cmd], NEW at \in EepWords, NEW word \in EepWord,
         EepBegin(cmd, op, at, word)
  PROVE  EepInv'
<1> DEFINE e == EepIo(ceep, FALSE, FALSE, 0)
           l == op \o <<at>> \o (IF cmd \in {"write", "wral"} THEN word ELSE <<>>)
<1>1. EepTypes /\ ceep.data = chost.words /\ ceep.wen = chost.wen /\ ceep.clock = FALSE
  BY DEF EepInv, EepTypes, EepBegin
<1>2. DOMAIN ceep = EepFields /\ DOMAIN chost = {"left", "cmd", "words", "wen", "at", "got"}
  BY <1>1 DEF EepTypes, EepFields
<1>3. DOMAIN e = EepFields /\ e.cs = FALSE /\ e.clock = ceep.clock /\ e.wen = ceep.wen /\ e.data = ceep.data
      /\ e.cmd \notin {"read", "dummy", "data"}
  BY <1>2, Deselected
<1>4. ceep' = EepIo(e, TRUE, FALSE, 0)
  BY DEF EepBegin
<1>5. EepBitsLeft(l, EepLen(cmd), op, at, word, 0)
  BY BitsLaid
<1> HIDE DEF e, l
<1>6. DOMAIN ceep' = EepFields /\ ceep'.cs = TRUE /\ ceep'.clock = FALSE /\ ceep'.wen = e.wen /\ ceep'.data = e.data
      /\ ceep'.cmd = e.cmd /\ ceep'.reg = <<>>
  <2>1. e.cs \in BOOLEAN /\ e.clock \in BOOLEAN /\ ~e.cs /\ ~e.clock
    BY <1>1, <1>3
  <2> QED
    BY <1>3, <1>4, <2>1, SelectedLow
<1>7. chost' = [chost EXCEPT !.cmd = cmd, !.at = at, !.got = <<>>, !.left = l]
  BY DEF EepBegin, l
<1>8. DOMAIN chost' = DOMAIN chost /\ chost'.cmd = cmd /\ chost'.at = at /\ chost'.got = <<>> /\ chost'.left = l
      /\ chost'.words = chost.words /\ chost'.wen = chost.wen
  BY <1>2, <1>7
<1>9. EepSending(op, word, 0)'
  <2>1. EepBitsIn(ceep'.reg, op, chost'.at, word, 0)
    BY <1>6 DEF EepBitsIn
  <2>2. EepTaken(chost'.cmd, 0, ceep'.cmd)
    BY <1>3, <1>6 DEF EepTaken
  <2> QED
    BY <1>5, <1>8, <2>1, <2>2 DEF EepSending
<1>10. EepTypes'
  <2>1. l \in Seq(EepBit) /\ <<>> \in Seq(EepBit)
    BY <1>5 DEF EepBitsLeft
  <2> QED
    BY <1>1, <1>2, <1>3, <1>6, <1>8, <2>1 DEF EepTypes, EepFields
<1>11. 0 < EepLen(cmd) /\ cmd # "none"
  BY DEF EepLen, EepCommands
<1>12. \E o \in Opcodes[chost'.cmd], w \in EepWord, n \in 0 .. 9 : n < EepLen(chost'.cmd) /\ EepSending(o, w, n)'
  BY <1>8, <1>9, <1>11
<1> QED
  BY <1>1, <1>3, <1>6, <1>8, <1>10, <1>11, <1>12 DEF EepInv

\* So does deselecting it, whenever that happens.
LEMMA EepEnds == ASSUME EepInv, EepEnd PROVE EepInv'
<1> DEFINE e == EepIo(ceep, TRUE, FALSE, 0)
<1>1. EepTypes /\ ceep.data = chost.words /\ ceep.wen = chost.wen
  BY DEF EepInv
<1>2. DOMAIN ceep = EepFields /\ DOMAIN chost = {"left", "cmd", "words", "wen", "at", "got"}
  BY <1>1 DEF EepTypes, EepFields
<1>3. DOMAIN e = EepFields /\ e.clock = FALSE /\ e.wen = ceep.wen /\ e.data = ceep.data /\ e.reg \in {ceep.reg, <<>>}
  BY <1>1, <1>2, SelectedLow DEF EepTypes
<1>4. ceep' = EepIo(e, FALSE, FALSE, 0)
  BY DEF EepEnd
<1> HIDE DEF e
<1>5. DOMAIN ceep' = EepFields /\ ceep'.cs = FALSE /\ ceep'.clock = FALSE /\ ceep'.wen = e.wen /\ ceep'.data = e.data /\ ceep'.reg = e.reg
  BY <1>3, <1>4, Deselected
<1>6. chost' = [chost EXCEPT !.cmd = "none", !.left = <<>>, !.got = <<>>]
  BY DEF EepEnd
<1>7. DOMAIN chost' = DOMAIN chost /\ chost'.cmd = "none" /\ chost'.at = chost.at /\ chost'.got = <<>> /\ chost'.left = <<>>
      /\ chost'.words = chost.words /\ chost'.wen = chost.wen
  BY <1>2, <1>6
<1>8. EepTypes'
  <2>0. <<>> \in Seq(EepBit) /\ ceep.reg \in Seq(EepBit)
    BY <1>1, EmptySeq DEF EepTypes
  <2>1. <<>> \in Seq(EepBit) /\ ceep'.reg \in Seq(EepBit)
    BY <1>3, <1>5, <2>0, Zenon
  <2> QED
    BY <1>1, <1>2, <1>3, <1>5, <1>7, <2>1 DEF EepTypes, EepFields
<1> QED
  BY <1>1, <1>3, <1>5, <1>7, <1>8 DEF EepInv

\* And reading its register between commands.
LEMMA EepPolled == ASSUME EepInv, EepPoll PROVE EepInv'
<1> DEFINE e == EepIo(ceep, TRUE, FALSE, 0)
<1>1. EepTypes /\ ceep.data = chost.words /\ ceep.wen = chost.wen /\ chost.cmd = "none"
  BY DEF EepInv, EepPoll
<1>2. DOMAIN ceep = EepFields
  BY <1>1 DEF EepTypes, EepFields
<1>3. DOMAIN e = EepFields /\ e.cs = TRUE /\ e.clock = FALSE /\ e.wen = ceep.wen /\ e.data = ceep.data /\ e.reg \in {ceep.reg, <<>>}
  BY <1>1, <1>2, SelectedLow DEF EepTypes
<1>4. ceep' = EepAfterRead(e) /\ chost' = chost
  BY DEF EepPoll
<1> HIDE DEF e
<1>5. DOMAIN ceep' = EepFields /\ ceep'.cs = TRUE /\ ceep'.clock = FALSE /\ ceep'.wen = e.wen /\ ceep'.data = e.data /\ ceep'.reg = e.reg
  <2>1. ceep' = [e EXCEPT !.cmd = "ready"] \/ ceep' = [e EXCEPT !.cmd = "idle"] \/ ceep' = e
    BY <1>4 DEF EepAfterRead
  <2> QED
    BY <1>3, <2>1 DEF EepFields
<1>6. EepTypes'
  <2>0. <<>> \in Seq(EepBit) /\ ceep.reg \in Seq(EepBit)
    BY <1>1, EmptySeq DEF EepTypes
  <2>1. ceep'.reg \in Seq(EepBit)
    BY <1>3, <1>5, <2>0, Zenon
  <2> QED
    BY <1>1, <1>2, <1>3, <1>4, <1>5, <2>1 DEF EepTypes, EepFields
<1>7. chost'.left = <<>> /\ chost'.got = <<>>
  BY <1>1, <1>4 DEF EepInv
<1> QED
  BY <1>1, <1>3, <1>4, <1>5, <1>6, <1>7 DEF EepInv

\* Any bit of a command.
LEMMA Shifts ==
  ASSUME NEW cmd \in EepCommands, NEW op \in Opcodes[cmd], NEW at, NEW w, NEW n \in 0 .. 9, n < EepLen(cmd),
         NEW h, DOMAIN h = EepFields, EepBitsIn(h.reg, op, at, w, n + 1),
         EepTaken(cmd, n, h.cmd), h.wen \in BOOLEAN, cmd = "wen" /\ n >= 5 => h.wen
  PROVE  /\ n + 1 < EepLen(cmd) => EepTook(h, ShiftedIn(h), cmd, n + 1)
         /\ n + 1 = EepLen(cmd) => EepDid(h, ShiftedIn(h), cmd, at, <<h.reg[7], h.reg[8], h.reg[9], h.reg[10]>>)
<1> DEFINE word == <<h.reg[7], h.reg[8], h.reg[9], h.reg[10]>>
           x == ShiftedIn(h)
<1>l. EepLen(cmd) \in {6, 10}
  BY DEF EepLen
<1>1. CASE n = 0
  <2>1. EepBitsIn(h.reg, op, at, w, 1) /\ EepTaken(cmd, 0, h.cmd)
    BY <1>1
  <2>2. EepTook(h, x, cmd, 1)
    BY <2>1, ShiftsFirst
  <2> HIDE DEF x
  <2> QED
    BY <1>1, <1>l, <2>2 DEF x
<1>2. CASE n \in {1, 3, 6, 7, 8}
  <2>1. n + 1 \in {2, 4, 7, 8, 9} /\ (n + 1) - 1 = n
    BY <1>2
  <2>2. Len(h.reg) = n + 1
    BY DEF EepBitsIn
  <2>3. EepTaken(cmd, (n + 1) - 1, h.cmd) /\ (cmd = "wen" /\ n + 1 >= 6 => h.wen)
    BY <2>1
  <2>4. n + 1 < EepLen(cmd) => EepTook(h, x, cmd, n + 1)
    BY <2>1, <2>2, <2>3, ShiftsBetween
  <2>5. n + 1 # EepLen(cmd)
    BY <1>2, <1>l
  <2> QED
    BY <2>4, <2>5, Zenon
<1>3. CASE n = 2
  <2>1. EepBitsIn(h.reg, op, at, w, 3)
    BY <1>3
  <2>2. EepTook(h, x, cmd, 3)
    BY <2>1, ShiftsThird
  <2> HIDE DEF x
  <2> QED
    BY <1>3, <1>l, <2>2 DEF x
<1>4. CASE n = 4
  <2>1. EepBitsIn(h.reg, op, at, w, 5) /\ EepTaken(cmd, 4, h.cmd)
    BY <1>4
  <2>2. EepTook(h, x, cmd, 5)
    BY <2>1, ShiftsFifth
  <2> HIDE DEF x
  <2> QED
    BY <1>4, <1>l, <2>2 DEF x
<1>5. CASE n = 5
  <2>1. EepBitsIn(h.reg, op, at, w, 6) /\ EepTaken(cmd, 5, h.cmd) /\ (cmd = "wen" => h.wen)
    BY <1>5
  <2>2. (EepLen(cmd) = 10 => EepTook(h, x, cmd, 6)) /\ (EepLen(cmd) = 6 => \A v : EepDid(h, x, cmd, at, v))
    BY <2>1, ShiftsSixth
  <2>3. EepLen(cmd) = 6 => EepDid(h, x, cmd, at, word)
    BY <2>2, Zenon
  <2> HIDE DEF x, word
  <2>4. n + 1 = 6
    BY <1>5
  <2> QED
    BY <1>l, <2>2, <2>3, <2>4 DEF x, word
<1>6. CASE n = 9
  <2>1. EepBitsIn(h.reg, op, at, w, 10) /\ EepTaken(cmd, 9, h.cmd)
    BY <1>6
  <2>2. cmd \in {"write", "wral"} /\ EepLen(cmd) = 10
    BY <1>6 DEF EepLen
  <2>3. EepDid(h, x, cmd, at, word)
    BY <2>1, <2>2, ShiftsTenth
  <2> HIDE DEF x, word
  <2>4. ~(n + 1 < EepLen(cmd))
    BY <1>6, <2>2
  <2> QED
    BY <2>3, <2>4 DEF x, word
<1> QED
  BY <1>1, <1>2, <1>3, <1>4, <1>5, <1>6

\* A word for the chip is a word.
LEMMA DoneWords ==
  ASSUME NEW cmd \in EepCommands, NEW at \in EepWords, NEW word, cmd \in {"write", "wral"} => word \in EepWord,
         NEW wen \in BOOLEAN, NEW words \in [EepWords -> EepWord]
  PROVE  EepDone(cmd, at, word, wen, words) \in [EepWords -> EepWord]
<1>1. <<1, 1, 1, 1>> \in EepWord
  BY DEF EepWord, EepBit
<1> HIDE DEF EepWord
<1>2. ASSUME NEW v \in EepWord PROVE [words EXCEPT ![at] = v] \in [EepWords -> EepWord] /\ EepAll(v) \in [EepWords -> EepWord]
  BY <1>2 DEF EepAll
<1>3. CASE cmd \in {"write", "wral"}
  BY <1>2, <1>3 DEF EepDone
<1>4. CASE cmd \notin {"write", "wral"}
  <2> DEFINE v == <<1, 1, 1, 1>>
  <2>1. [words EXCEPT ![at] = v] \in [EepWords -> EepWord] /\ EepAll(v) \in [EepWords -> EepWord]
    BY <1>1, <1>2
  <2> HIDE DEF v
  <2> QED
    BY <1>4, <2>1 DEF EepDone, v
<1> QED
  BY <1>3, <1>4

\* Sending a bit keeps the invariant: after the last one the chip has done to the
\* words what the program believes.
LEMMA EepSent == ASSUME EepInv, EepSend PROVE EepInv'
<1>1. EepTypes /\ ceep.data = chost.words /\ ceep.wen = chost.wen /\ chost.left # <<>>
  BY DEF EepInv, EepSend
<1>2. DOMAIN ceep = EepFields /\ DOMAIN chost = {"left", "cmd", "words", "wen", "at", "got"}
  BY <1>1 DEF EepTypes, EepFields
<1>3. chost.cmd \in EepCommands /\ ceep.cs = TRUE
  BY <1>1 DEF EepInv, EepTypes
<1>4. PICK op \in Opcodes[chost.cmd], w \in EepWord, n \in 0 .. 9 : n < EepLen(chost.cmd) /\ EepSending(op, w, n)
  BY <1>1, <1>3 DEF EepInv, EepReadBits, EepCommands
<1> DEFINE cmd == chost.cmd
           at == chost.at
           len == EepLen(cmd)
           bit == Head(chost.left)
           last == Len(chost.left) = 1
           word == <<ceep.reg[7], ceep.reg[8], ceep.reg[9], bit>>
<1>5. len \in {6, 10} /\ n < len /\ (len = 6 => cmd \notin {"write", "wral"}) /\ (len = 10 => cmd \in {"write", "wral"})
  BY <1>4 DEF EepLen
<1>6. /\ EepBitsIn(ceep.reg, op, at, w, n) /\ EepBitsLeft(chost.left, len, op, at, w, n)
      /\ chost.got = <<>> /\ EepTaken(cmd, n, ceep.cmd) /\ (cmd = "wen" /\ n >= 5 => ceep.wen)
  BY <1>4 DEF EepSending
<1>7. /\ bit = EepStream(op, at, w, n + 1) /\ bit \in EepBit /\ Len(chost.left) = len - n
      /\ EepBitsIn(Append(ceep.reg, bit), op, at, w, n + 1)
      /\ EepBitsLeft(Tail(chost.left), len, op, at, w, n + 1)
  BY <1>4, BitSent
<1>8. PICK f : /\ EepLike(f, ceep) /\ f.cs = TRUE /\ f.in = bit
               /\ EepIo(EepIo(ceep, TRUE, FALSE, bit), TRUE, TRUE, bit) = [ClockRises(f) EXCEPT !.clock = TRUE]
  <2> HIDE DEF bit
  <2> QED
    <3>1. \A e : (DOMAIN e = EepFields /\ (e.cs = TRUE)) => \A b : \E f : /\ EepLike(f, e) /\ f.cs = TRUE /\ f.in = b
               /\ EepIo(EepIo(e, TRUE, FALSE, b), TRUE, TRUE, b) = [ClockRises(f) EXCEPT !.clock = TRUE]
      BY OneEdge, Zenon
    <3>2. \A b : \E f : /\ EepLike(f, ceep) /\ f.cs = TRUE /\ f.in = b
               /\ EepIo(EepIo(ceep, TRUE, FALSE, b), TRUE, TRUE, b) = [ClockRises(f) EXCEPT !.clock = TRUE]
      BY <3>1, <1>2, <1>3, Zenon
    <3> QED
      BY <3>2, Zenon
<1>9. PICK h : /\ DOMAIN h = EepFields /\ h.reg = Append(ceep.reg, bit) /\ h.cs = TRUE /\ h.cmd = ceep.cmd
               /\ h.wen = ceep.wen /\ h.data = ceep.data /\ ClockRises(f) = ShiftedIn(h)
  <2>1. ceep.cmd \notin {"dummy", "data"}
    BY <1>3, <1>6 DEF EepTaken, EepCommands
  <2>2. f.cmd \notin {"dummy", "data"} /\ f.in \in EepBit
    BY <1>7, <1>8, <2>1 DEF EepLike
  <2>3. ceep.reg \in Seq(EepBit)
    BY <1>1 DEF EepTypes
  <2> HIDE DEF bit
  <2> QED
    BY <1>8, <2>2, <2>3, Pushed
<1> DEFINE x == ShiftedIn(h)
           r == h.reg
           chipWord == <<r[7], r[8], r[9], r[10]>>
<1>10. ceep' = [x EXCEPT !.clock = TRUE]
  BY <1>8, <1>9 DEF EepSend
<1>11. /\ n + 1 < len => EepTook(h, x, cmd, n + 1)
       /\ n + 1 = len => EepDid(h, x, cmd, at, chipWord)
  <2>1. EepBitsIn(h.reg, op, at, w, n + 1)
    BY <1>7, <1>9
  <2>2. EepTaken(cmd, n, h.cmd) /\ h.wen \in BOOLEAN /\ (cmd = "wen" /\ n >= 5 => h.wen)
    BY <1>1, <1>6, <1>9 DEF EepTypes
  <2> QED
    BY <1>3, <1>5, <1>9, <2>1, <2>2, Shifts
<1>12. chost' = [chost EXCEPT !.left = Tail(chost.left),
                       !.wen = CASE Len(chost.left) = 2 /\ chost.cmd = "wen" -> TRUE [] last /\ chost.cmd = "wds" -> FALSE [] OTHER -> chost.wen,
                       !.words = IF ~last \/ ~chost.wen THEN chost.words
                                 ELSE CASE chost.cmd = "write" -> [chost.words EXCEPT ![chost.at] = word]
                                   [] chost.cmd = "wral" -> EepAll(word)
                                   [] chost.cmd = "erase" -> [chost.words EXCEPT ![chost.at] = <<1, 1, 1, 1>>]
                                   [] chost.cmd = "eral" -> EepAll(<<1, 1, 1, 1>>)
                                   [] OTHER -> chost.words]
  BY DEF EepSend
<1>13. DOMAIN chost' = DOMAIN chost /\ chost'.cmd = cmd /\ chost'.at = at /\ chost'.got = <<>> /\ chost'.left = Tail(chost.left)
  BY <1>2, <1>6, <1>12
<1>14. chost'.words = IF last THEN EepDone(cmd, at, word, chost.wen, chost.words) ELSE chost.words
  <2>1. chost'.words = IF ~last \/ ~chost.wen THEN chost.words
                       ELSE CASE cmd = "write" -> [chost.words EXCEPT ![at] = word]
                              [] cmd = "wral" -> EepAll(word)
                              [] cmd = "erase" -> [chost.words EXCEPT ![at] = <<1, 1, 1, 1>>]
                              [] cmd = "eral" -> EepAll(<<1, 1, 1, 1>>)
                              [] OTHER -> chost.words
    BY <1>2, <1>12
  <2>2. chost.wen \in BOOLEAN /\ last \in BOOLEAN
    BY <1>1 DEF EepTypes
  <2> HIDE DEF word, last, cmd, at
  <2>3. CASE cmd = "write"
    BY <2>1, <2>2, <2>3 DEF EepDone
  <2>4. CASE cmd = "wral"
    BY <2>1, <2>2, <2>4 DEF EepDone
  <2>5. CASE cmd = "erase"
    BY <2>1, <2>2, <2>5 DEF EepDone
  <2>6. CASE cmd = "eral"
    BY <2>1, <2>2, <2>6 DEF EepDone
  <2>7. CASE cmd \notin {"write", "wral", "erase", "eral"}
    BY <2>1, <2>2, <2>7 DEF EepDone
  <2> QED
    BY <2>3, <2>4, <2>5, <2>6, <2>7
<1>15. chost'.wen = CASE Len(chost.left) = 2 /\ cmd = "wen" -> TRUE [] last /\ cmd = "wds" -> FALSE [] OTHER -> chost.wen
  BY <1>2, <1>12
<1>16. n + 1 < len \/ n + 1 = len
  BY <1>5
<1>17. DOMAIN x = EepFields /\ x.cs = TRUE
  <2> HIDE DEF x, len, chipWord
  <2> QED
    BY <1>9, <1>11, <1>16 DEF EepTook, EepDid
<1>18. /\ DOMAIN ceep' = EepFields /\ ceep'.cs = TRUE /\ ceep'.clock = TRUE /\ ceep'.reg = x.reg /\ ceep'.wen = x.wen
       /\ ceep'.data = x.data /\ ceep'.cmd = x.cmd /\ ceep'.addr = x.addr
  <2> HIDE DEF x
  <2> QED
    BY <1>10, <1>17 DEF EepFields
<1>19. r = Append(ceep.reg, bit) /\ EepBitsIn(r, op, at, w, n + 1) /\ r \in Seq(EepBit) /\ Len(r) = n + 1
  BY <1>7, <1>9 DEF EepBitsIn
<1>20. EepBitsLeft(chost'.left, len, op, at, w, n + 1) /\ chost'.left \in Seq(EepBit) /\ Len(chost'.left) = len - (n + 1)
  BY <1>7, <1>13 DEF EepBitsLeft
<1>21. <<>> \in Seq(EepBit)
  BY EmptySeq
<1>22. ASSUME x.reg \in Seq(EepBit), x.wen \in BOOLEAN, chost'.words \in [EepWords -> EepWord] PROVE EepTypes'
  <2> HIDE DEF x, cmd, at
  <2>1. chost.at \in EepWords /\ chost.cmd \in EepCommands \cup {"none"}
    BY <1>1 DEF EepTypes
  <2>2. chost'.at \in EepWords /\ chost'.cmd \in EepCommands \cup {"none"}
    BY <1>13, <2>1 DEF at, cmd
  <2> QED
    BY <1>2, <1>13, <1>18, <1>20, <1>21, <1>22, <2>2 DEF EepTypes, EepFields
<1>23. cmd # "none"
  BY <1>3 DEF EepCommands
<1>24. CASE n + 1 < len
  <2>1. EepTook(h, x, cmd, n + 1)
    BY <1>11, <1>24
  <2>2. ~last
    BY <1>5, <1>7, <1>24
  <2> HIDE DEF x, len, last, word, cmd, at
  <2>3. x.reg = r /\ x.data = chost.words /\ EepTaken(cmd, n + 1, x.cmd)
    BY <1>1, <1>9, <2>1 DEF EepTook
  <2>4. x.wen = IF cmd = "wen" /\ n + 1 >= 5 THEN TRUE ELSE chost.wen
    BY <1>1, <1>9, <2>1 DEF EepTook
  <2>5. chost'.words = chost.words
    BY <1>14, <2>2
  <2>6. chost.wen \in BOOLEAN /\ chost.words \in [EepWords -> EepWord]
    BY <1>1 DEF EepTypes
  <2>7. chost'.wen = x.wen
    <3>1. CASE cmd = "wen"
      <4>1. len = 6
        BY <1>5, <3>1
      <4>2. (Len(chost.left) = 2) = (n + 1 >= 5)
        BY <1>7, <1>24, <4>1 DEF len
      <4>3. CASE n + 1 >= 5
        <5>1. Len(chost.left) = 2
          BY <4>2, <4>3
        <5> QED
          BY <1>15, <2>2, <2>4, <3>1, <4>3, <5>1
      <4>4. CASE ~(n + 1 >= 5)
        <5>1. Len(chost.left) # 2
          BY <4>2, <4>4
        <5> QED
          BY <1>15, <2>2, <2>4, <3>1, <4>4, <5>1
      <4> QED
        BY <4>3, <4>4
    <3>2. CASE cmd # "wen"
      BY <1>15, <2>2, <2>4, <3>2
    <3> QED
      BY <3>1, <3>2
  <2>8. x.wen \in BOOLEAN /\ (cmd = "wen" /\ n + 1 >= 5 => x.wen)
    BY <2>4, <2>6
  <2>9. EepTypes'
    BY <1>19, <1>22, <2>3, <2>5, <2>6, <2>8
  <2>10. EepSending(op, w, n + 1)'
    <3>1. EepBitsIn(ceep'.reg, op, chost'.at, w, n + 1)
      BY <1>13, <1>18, <1>19, <2>3
    <3>2. EepBitsLeft(chost'.left, EepLen(chost'.cmd), op, chost'.at, w, n + 1)
      BY <1>13, <1>20 DEF len
    <3>3. EepTaken(chost'.cmd, n + 1, ceep'.cmd) /\ (chost'.cmd = "wen" /\ n + 1 >= 5 => ceep'.wen)
      BY <1>13, <1>18, <2>3, <2>8
    <3> QED
      BY <1>13, <3>1, <3>2, <3>3 DEF EepSending
  <2>11. \E o \in Opcodes[chost'.cmd], v \in EepWord, m \in 0 .. 9 : m < EepLen(chost'.cmd) /\ EepSending(o, v, m)'
    <3>1. n + 1 \in 0 .. 9 /\ n + 1 < EepLen(chost'.cmd)
      BY <1>5, <1>13, <1>24 DEF len
    <3>2. op \in Opcodes[chost'.cmd]
      BY <1>13 DEF cmd
    <3> QED
      BY <2>10, <3>1, <3>2, Zenon
  <2> QED
    BY <1>13, <1>18, <1>23, <2>3, <2>5, <2>7, <2>9, <2>11 DEF EepInv
<1>25. CASE n + 1 = len
  <2>1. EepDid(h, x, cmd, at, chipWord)
    BY <1>11, <1>25
  <2>2. last
    BY <1>5, <1>7, <1>25
  <2>3. cmd \in {"write", "wral"} => chipWord = word /\ word \in EepWord
    <3> SUFFICES ASSUME cmd \in {"write", "wral"} PROVE chipWord = word /\ word \in EepWord
      OBVIOUS
    <3>1. n = 9
      BY <1>5, <1>25
    <3>2. ceep.reg \in Seq(EepBit) /\ Len(ceep.reg) = 9
      BY <1>6, <3>1 DEF EepBitsIn
    <3> HIDE DEF word, cmd, at
    <3>3. \A i \in 1 .. 9 : ceep.reg[i] = EepStream(op, at, w, i)
      BY <1>6, <3>1 DEF EepBitsIn
    <3>4. \A i \in 1 .. 10 : r[i] = EepStream(op, at, w, i)
      BY <1>19, <3>1 DEF EepBitsIn
    <3>5. bit = EepStream(op, at, w, 10)
      BY <1>7, <3>1
    <3>6. r[7] = ceep.reg[7] /\ r[8] = ceep.reg[8] /\ r[9] = ceep.reg[9] /\ r[10] = bit
      BY <3>3, <3>4, <3>5
    <3>7. r[7] \in EepBit /\ r[8] \in EepBit /\ r[9] \in EepBit /\ r[10] \in EepBit
      BY <1>19, <3>1
    <3>8. chipWord \in EepWord
      BY <3>7 DEF EepWord
    <3>9. chipWord = word
      BY <3>6, Zenon DEF word
    <3> QED
      BY <3>8, <3>9
  <2>a. chost.at \in EepWords /\ chost.wen \in BOOLEAN /\ chost.words \in [EepWords -> EepWord]
    BY <1>1 DEF EepTypes
  <2> HIDE DEF x, len, last, word, at, chipWord
  <2>4. chost'.words = EepDone(cmd, at, word, chost.wen, chost.words)
    BY <1>14, <2>2
  <2>5. x.data = EepDone(cmd, at, chipWord, chost.wen, chost.words) /\ x.reg = <<>>
        /\ x.wen = (IF cmd = "wen" THEN TRUE ELSE IF cmd = "wds" THEN FALSE ELSE chost.wen)
        /\ (cmd = "read" => x.cmd = "dummy" /\ x.addr = at)
    BY <1>1, <1>9, <2>1 DEF EepDid
  <2> HIDE DEF cmd
  <2>6. EepDone(cmd, at, chipWord, chost.wen, chost.words) = EepDone(cmd, at, word, chost.wen, chost.words)
    <3>1. CASE cmd \in {"write", "wral"}
      BY <2>3, <3>1
    <3>2. CASE cmd \notin {"write", "wral"}
      BY <3>2 DEF EepDone
    <3> QED
      BY <3>1, <3>2
  <2>7. EepDone(cmd, at, word, chost.wen, chost.words) \in [EepWords -> EepWord]
    <3>1. cmd \in EepCommands /\ at \in EepWords /\ (cmd \in {"write", "wral"} => word \in EepWord)
      BY <1>3, <2>3, <2>a DEF cmd, at
    <3> QED
      BY <2>a, <3>1, DoneWords
  <2>8. chost'.words = ceep'.data /\ chost'.words \in [EepWords -> EepWord]
    BY <1>18, <2>4, <2>5, <2>6, <2>7
  <2>9. chost'.wen = x.wen
    <3>0. Len(chost.left) # 2
      BY <2>2 DEF last
    <3>1. CASE cmd = "wen"
      <4>1. len = 6 /\ n >= 5
        BY <1>5, <1>25, <3>1
      <4>2. chost.wen = TRUE
        BY <1>1, <1>6, <2>a, <3>1, <4>1
      <4> QED
        BY <1>15, <2>5, <3>0, <3>1, <4>2
    <3>2. CASE cmd = "wds"
      BY <1>15, <2>2, <2>5, <3>0, <3>2
    <3>3. CASE cmd \notin {"wen", "wds"}
      BY <1>15, <2>5, <3>0, <3>3
    <3> QED
      BY <3>1, <3>2, <3>3
  <2>10. x.wen \in BOOLEAN
    BY <2>5, <2>a
  <2>11. EepTypes'
    BY <1>21, <1>22, <2>5, <2>8, <2>10
  <2>12. chost'.left = <<>>
    <3>1. len - (n + 1) = 0
      BY <1>5, <1>25
    <3> QED
      BY <1>20, <3>1, EmptySeq
  <2>13. CASE cmd = "read"
    <3>1. ceep'.cmd = "dummy" /\ ceep'.addr = chost'.at /\ Len(chost'.got) = 0 /\ chost'.cmd = "read"
      BY <1>13, <1>18, <2>5, <2>13
    <3>2. EepReadBits'
      BY <2>12, <3>1 DEF EepReadBits, EepOut
    <3> QED
      BY <1>13, <1>18, <1>23, <2>8, <2>9, <2>11, <3>2 DEF EepInv
  <2>14. CASE cmd # "read"
    BY <1>13, <1>18, <1>23, <2>8, <2>9, <2>11, <2>12, <2>14 DEF EepInv
  <2> QED
    BY <2>13, <2>14
<1> QED
  BY <1>16, <1>24, <1>25

\* One bit of a word read comes out at a rising edge: the first, the second of
\* a half, and the first of the next half.
LEMMA TwoAndOne ==
  ASSUME NEW a, NEW b
  PROVE  Head(<<a, b>>) = a /\ Tail(<<a, b>>) = <<b>> /\ Head(<<a>>) = a
OBVIOUS

\* The first bit of a word comes out.
LEMMA ReadFirst ==
  ASSUME NEW f, DOMAIN f = EepFields, f.cmd = "dummy", NEW y, y = ClockRises(f)
  PROVE  /\ DOMAIN y = EepFields /\ y.cs = f.cs /\ y.reg = f.reg /\ y.wen = f.wen /\ y.data = f.data /\ y.cmd = "data"
         /\ y.out = f.data[f.addr][1] /\ y.outReg = <<f.data[f.addr][2]>> /\ y.count = 1 /\ y.addr = f.addr
<1> DEFINE a == f.data[f.addr][1]
           b == f.data[f.addr][2]
           t == Tail(<<a, b>>)
           u == <<a, b>>[1]
<1>1. y = [f EXCEPT !.out = u, !.outReg = t, !.count = 1, !.cmd = "data"]
  BY DEF ClockRises
<1>2. t = <<b>> /\ u = a
  BY TwoAndOne
<1> HIDE DEF t, a, b, u
<1>3. /\ DOMAIN y = EepFields /\ y.cs = f.cs /\ y.reg = f.reg /\ y.wen = f.wen /\ y.data = f.data /\ y.cmd = "data"
      /\ y.out = u /\ y.outReg = t /\ y.count = 1 /\ y.addr = f.addr
  BY <1>1 DEF EepFields
<1> QED
  BY <1>2, <1>3 DEF a, b

\* The first bit of a half comes out, the second is left.
LEMMA ReadSecond ==
  ASSUME NEW f, DOMAIN f = EepFields, f.cmd = "data", NEW k \in {0, 2}, f.count = k, NEW a, NEW b, f.outReg = <<a, b>>,
         NEW y, y = ClockRises(f)
  PROVE  /\ DOMAIN y = EepFields /\ y.cs = f.cs /\ y.reg = f.reg /\ y.wen = f.wen /\ y.data = f.data /\ y.cmd = "data"
         /\ y.out = a /\ y.outReg = <<b>> /\ y.count = k + 1 /\ y.addr = f.addr
<1> DEFINE t == Tail(f.outReg)
           u == Head(f.outReg)
           c == f.count + 1
<1>1. y = [f EXCEPT !.out = u, !.outReg = t, !.count = c]
  BY DEF ClockRises
<1>2. t = <<b>> /\ u = a /\ c = k + 1
  BY TwoAndOne
<1> HIDE DEF t, u, c
<1>3. /\ DOMAIN y = EepFields /\ y.cs = f.cs /\ y.reg = f.reg /\ y.wen = f.wen /\ y.data = f.data /\ y.cmd = f.cmd
      /\ y.out = u /\ y.outReg = t /\ y.count = c /\ y.addr = f.addr
  BY <1>1 DEF EepFields
<1> QED
  BY <1>2, <1>3

\* The second bit of the first half comes out, and the second half is next.
LEMMA ReadHalf ==
  ASSUME NEW f, DOMAIN f = EepFields, f.cmd = "data", f.count = 1, NEW a, f.outReg = <<a>>,
         NEW y, y = ClockRises(f)
  PROVE  /\ DOMAIN y = EepFields /\ y.cs = f.cs /\ y.reg = f.reg /\ y.wen = f.wen /\ y.data = f.data /\ y.cmd = "data"
         /\ y.out = a /\ y.outReg = <<f.data[f.addr][3], f.data[f.addr][4]>> /\ y.count = 2 /\ y.addr = f.addr
<1> DEFINE t == Tail(f.outReg)
           u == Head(f.outReg)
           c == f.count + 1
           l == <<f.data[f.addr][3], f.data[f.addr][4]>>
<1>1. y = [[f EXCEPT !.out = u, !.outReg = t, !.count = c] EXCEPT !.outReg = l]
  BY DEF ClockRises
<1>2. u = a /\ c = 2
  BY TwoAndOne
<1> HIDE DEF t, u, c, l
<1>3. /\ DOMAIN y = EepFields /\ y.cs = f.cs /\ y.reg = f.reg /\ y.wen = f.wen /\ y.data = f.data /\ y.cmd = f.cmd
      /\ y.out = u /\ y.outReg = l /\ y.count = c /\ y.addr = f.addr
  BY <1>1 DEF EepFields
<1> QED
  BY <1>2, <1>3 DEF l

\* The last bit of a word comes out, and the next word is next.
LEMMA ReadNext ==
  ASSUME NEW f, DOMAIN f = EepFields, f.cmd = "data", f.count = 3, NEW a, f.outReg = <<a>>, NEW o, o = 1 - f.addr,
         NEW y, y = ClockRises(f)
  PROVE  /\ DOMAIN y = EepFields /\ y.cs = f.cs /\ y.reg = f.reg /\ y.wen = f.wen /\ y.data = f.data /\ y.cmd = "data"
         /\ y.out = a /\ y.outReg = <<f.data[o][1], f.data[o][2]>> /\ y.count = 0 /\ y.addr = o
<1> DEFINE t == Tail(f.outReg)
           u == Head(f.outReg)
           c == f.count + 1
           l == <<f.data[o][1], f.data[o][2]>>
<1>1. y = [[f EXCEPT !.out = u, !.outReg = t, !.count = c] EXCEPT !.addr = o, !.outReg = l, !.count = 0]
  BY DEF ClockRises, NextWord
<1>2. u = a
  BY TwoAndOne
<1> HIDE DEF t, u, c, l
<1>3. /\ DOMAIN y = EepFields /\ y.cs = f.cs /\ y.reg = f.reg /\ y.wen = f.wen /\ y.data = f.data /\ y.cmd = f.cmd
      /\ y.out = u /\ y.outReg = l /\ y.count = 0 /\ y.addr = o
  BY <1>1 DEF EepFields
<1> QED
  BY <1>2, <1>3 DEF l

\* Reading a bit keeps the invariant: the eight bits are those of two words.
LEMMA EepReceived == ASSUME EepInv, EepReceive PROVE EepInv'
<1>1. /\ EepTypes /\ ceep.data = chost.words /\ ceep.wen = chost.wen
      /\ chost.cmd = "read" /\ chost.left = <<>> /\ Len(chost.got) < 8 /\ ceep.cs = TRUE
  BY DEF EepInv, EepReceive, EepTypes
<1>2. DOMAIN ceep = EepFields /\ DOMAIN chost = {"left", "cmd", "words", "wen", "at", "got"}
  BY <1>1 DEF EepTypes, EepFields
<1>3. EepReadBits
  <2>1. SUFFICES ASSUME NEW op, NEW w, NEW n \in 0 .. 9, n < EepLen(chost.cmd), EepSending(op, w, n) PROVE FALSE
    BY <1>1 DEF EepInv
  <2>2. chost.left # <<>>
    BY <2>1, BitSent
  <2> QED
    BY <1>1, <2>2
<1> DEFINE bit == 0
<1>4. PICK f : /\ EepLike(f, ceep) /\ f.cs = TRUE /\ f.in = bit
               /\ EepIo(EepIo(ceep, TRUE, FALSE, bit), TRUE, TRUE, bit) = [ClockRises(f) EXCEPT !.clock = TRUE]
  <2> HIDE DEF bit
  <2>1. \A e : (DOMAIN e = EepFields /\ (e.cs = TRUE)) => \A b : \E f : /\ EepLike(f, e) /\ f.cs = TRUE /\ f.in = b
           /\ EepIo(EepIo(e, TRUE, FALSE, b), TRUE, TRUE, b) = [ClockRises(f) EXCEPT !.clock = TRUE]
    BY OneEdge, Zenon
  <2>2. \A b : \E f : /\ EepLike(f, ceep) /\ f.cs = TRUE /\ f.in = b
           /\ EepIo(EepIo(ceep, TRUE, FALSE, b), TRUE, TRUE, b) = [ClockRises(f) EXCEPT !.clock = TRUE]
    <3>1. DOMAIN ceep = EepFields
      BY <1>2
    <3>2. ceep.cs = TRUE
      BY <1>1
    <3> QED
      BY <2>1, <3>1, <3>2, Zenon
  <2> QED
    BY <2>2, Zenon
<1> DEFINE y == ClockRises(f)
           m == Len(chost.got)
           at == chost.at
           on == 1 - at
           first == chost.words[at]
           second == chost.words[on]
           v == EepReads(ceep')
           got == Append(chost.got, v)
<1>5. ceep' = [y EXCEPT !.clock = TRUE]
  BY <1>4 DEF EepReceive
<1>6. chost' = [chost EXCEPT !.got = got]
  BY DEF EepReceive
<1>7. DOMAIN chost' = DOMAIN chost /\ chost'.got = got /\ chost'.cmd = "read" /\ chost'.left = <<>> /\ chost'.at = at
      /\ chost'.words = chost.words /\ chost'.wen = chost.wen
  <2> HIDE DEF got
  <2> QED
    BY <1>1, <1>2, <1>6
<1>8. DOMAIN f = EepFields /\ f.reg = ceep.reg /\ f.wen = ceep.wen /\ f.data = chost.words /\ f.cmd = ceep.cmd
      /\ f.addr = ceep.addr /\ f.count = ceep.count /\ f.outReg = ceep.outReg
  BY <1>1, <1>4 DEF EepLike
<1>9. m \in 0 .. 7 /\ chost.got \in Seq(EepBit) /\ at \in {0, 1}
  <2>1. chost.got \in Seq(EepBit) /\ at \in {0, 1}
    BY <1>1 DEF EepTypes, EepWords
  <2>2. m \in Nat
    BY <2>1
  <2>3. m < 8
    BY <1>1
  <2> HIDE DEF m
  <2>4. m \in 0 .. 7
    BY <2>2, <2>3
  <2> QED
    BY <2>1, <2>4
<1>10. /\ first[1] \in EepBit /\ first[2] \in EepBit /\ first[3] \in EepBit /\ first[4] \in EepBit
       /\ second[1] \in EepBit /\ second[2] \in EepBit /\ second[3] \in EepBit /\ second[4] \in EepBit
  <2>1. first \in EepWord /\ second \in EepWord
    <3>1. at \in EepWords /\ on \in EepWords /\ chost.words \in [EepWords -> EepWord]
      BY <1>1 DEF EepTypes, EepWords
    <3> QED
      BY <3>1
  <2> HIDE DEF first, second
  <2> QED
    BY <2>1 DEF EepWord
<1>11. /\ \A i \in 1 .. m : chost.got[i] = IF i <= 4 THEN first[i] ELSE second[i - 4]
       /\ m = 0 => ceep.cmd = "dummy" /\ ceep.addr = at
       /\ m > 0 => ceep.cmd = "data" /\ ceep.count = m % 4 /\ ceep.addr = IF m \in 4 .. 7 THEN on ELSE at
       /\ EepOut(m, first, second, ceep.outReg)
  BY <1>3 DEF EepReadBits
<1> HIDE DEF y, m, at, on, first, second
<1>12. ASSUME DOMAIN y = EepFields, y.cs = f.cs, y.reg = f.reg, y.wen = f.wen, y.data = f.data, y.cmd = "data",
              NEW k \in 1 .. 8, k = m + 1, y.out = IF k <= 4 THEN first[k] ELSE second[k - 4], y.out \in EepBit,
              y.count = k % 4, y.addr = IF k \in 4 .. 7 THEN on ELSE at, EepOut(k, first, second, y.outReg)
       PROVE  EepInv'
  <2>1. /\ DOMAIN ceep' = EepFields /\ ceep'.cs = TRUE /\ ceep'.clock = TRUE /\ ceep'.reg = ceep.reg /\ ceep'.wen = ceep.wen
        /\ ceep'.data = chost.words /\ ceep'.cmd = "data" /\ ceep'.out = y.out /\ ceep'.count = y.count
        /\ ceep'.addr = y.addr /\ ceep'.outReg = y.outReg
    BY <1>4, <1>5, <1>8, <1>12 DEF EepFields
  <2>2. v = y.out
    BY <2>1 DEF EepReads
  <2> DEFINE g == chost.got
  <2>3. g \in Seq(EepBit) /\ v \in EepBit /\ Len(g) = m /\ got = Append(g, v)
    BY <1>9, <1>12, <2>2 DEF m
  <2> HIDE DEF v, got, g
  <2>4. got \in Seq(EepBit) /\ Len(got) = Len(g) + 1 /\ (\A i \in 1 .. Len(g) : got[i] = g[i]) /\ got[Len(g) + 1] = v
    BY <2>3, AppendProperties
  <2>5. Len(got) = k
    BY <1>12, <2>3, <2>4
  <2>6. ASSUME NEW i \in 1 .. k PROVE got[i] = IF i <= 4 THEN first[i] ELSE second[i - 4]
    <3>1. CASE i \in 1 .. m
      <4>1. got[i] = g[i]
        BY <2>3, <2>4, <3>1
      <4> QED
        BY <1>11, <3>1, <4>1 DEF g
    <3>2. CASE i = k
      <4>1. got[i] = v
        BY <1>12, <2>3, <2>4, <3>2
      <4> QED
        BY <1>12, <2>2, <3>2, <4>1
    <3> QED
      BY <1>9, <1>12, <3>1, <3>2
  <2>7. chost'.words[chost'.at] = first /\ chost'.words[1 - chost'.at] = second
    BY <1>7 DEF first, second, on
  <2>8. EepReadBits'
    <3>1. \A i \in 1 .. Len(chost'.got) : chost'.got[i] = IF i <= 4 THEN first[i] ELSE second[i - 4]
      BY <1>7, <2>5, <2>6
    <3>2. ceep'.addr = IF k \in 4 .. 7 THEN 1 - chost'.at ELSE chost'.at
      BY <1>7, <1>12, <2>1 DEF on
    <3>3. Len(chost'.got) = k /\ k <= 8 /\ k # 0
      BY <1>7, <2>5
    <3> QED
      BY <1>7, <1>12, <2>1, <2>7, <3>1, <3>2, <3>3 DEF EepReadBits
  <2>9. EepTypes'
    BY <1>1, <1>2, <1>7, <2>1, <2>4 DEF EepTypes, EepFields, at
  <2> QED
    BY <1>1, <1>7, <2>1, <2>8, <2>9 DEF EepInv
<1>f. /\ m # 0 => f.data[f.addr] = IF m \in 4 .. 7 THEN second ELSE first
      /\ m = 0 => f.data[f.addr] = first
  BY <1>8, <1>9, <1>11 DEF first, second
<1>20. CASE m = 0
  <2>1. f.cmd = "dummy" /\ f.data[f.addr] = first /\ f.addr = at
    BY <1>8, <1>11, <1>20, <1>f
  <2>2. /\ DOMAIN y = EepFields /\ y.cs = f.cs /\ y.reg = f.reg /\ y.wen = f.wen /\ y.data = f.data /\ y.cmd = "data"
        /\ y.out = first[1] /\ y.outReg = <<first[2]>> /\ y.count = 1 /\ y.addr = at
    BY <1>8, <2>1, ReadFirst DEF y
  <2>3. 1 \in 1 .. 8 /\ 1 = m + 1 /\ y.out = (IF 1 <= 4 THEN first[1] ELSE second[1 - 4]) /\ y.out \in EepBit
        /\ y.count = 1 % 4 /\ y.addr = (IF 1 \in 4 .. 7 THEN on ELSE at) /\ EepOut(1, first, second, y.outReg)
    BY <1>10, <1>20, <2>2 DEF EepOut
  <2> QED
    BY <1>12, <2>2, <2>3
<1>21. CASE m = 1
  <2>1. f.cmd = "data" /\ f.count = 1 /\ f.outReg = <<first[2]>> /\ f.addr = at /\ f.data[f.addr] = first
    BY <1>8, <1>11, <1>f, <1>21 DEF EepOut
  <2>3. /\ DOMAIN y = EepFields /\ y.cs = f.cs /\ y.reg = f.reg /\ y.wen = f.wen /\ y.data = f.data /\ y.cmd = "data"
        /\ y.out = first[2] /\ y.outReg = <<first[3], first[4]>> /\ y.count = 2 /\ y.addr = at
    BY <1>8, <2>1, ReadHalf DEF y
  <2>4. 2 \in 1 .. 8 /\ 2 = m + 1 /\ y.out = (IF 2 <= 4 THEN first[2] ELSE second[2 - 4]) /\ y.out \in EepBit
        /\ y.count = 2 % 4 /\ y.addr = (IF 2 \in 4 .. 7 THEN on ELSE at) /\ EepOut(2, first, second, y.outReg)
    BY <1>10, <1>21, <2>3 DEF EepOut
  <2> QED
    BY <1>12, <2>3, <2>4
<1>22. CASE m = 2
  <2>1. f.cmd = "data" /\ f.count = 2 /\ 2 \in {0, 2} /\ f.outReg = <<first[3], first[4]>> /\ f.addr = at
    BY <1>8, <1>11, <1>22 DEF EepOut
  <2>3. /\ DOMAIN y = EepFields /\ y.cs = f.cs /\ y.reg = f.reg /\ y.wen = f.wen /\ y.data = f.data /\ y.cmd = "data"
        /\ y.out = first[3] /\ y.outReg = <<first[4]>> /\ y.count = 2 + 1 /\ y.addr = at
    BY <1>8, <2>1, ReadSecond DEF y
  <2>4. 3 \in 1 .. 8 /\ 3 = m + 1 /\ y.out = (IF 3 <= 4 THEN first[3] ELSE second[3 - 4]) /\ y.out \in EepBit
        /\ y.count = 3 % 4 /\ y.addr = (IF 3 \in 4 .. 7 THEN on ELSE at) /\ EepOut(3, first, second, y.outReg)
    BY <1>10, <1>22, <2>3 DEF EepOut
  <2> QED
    BY <1>12, <2>3, <2>4
<1>23. CASE m = 3
  <2>1. f.cmd = "data" /\ f.count = 3 /\ f.outReg = <<first[4]>> /\ f.addr = at
    BY <1>8, <1>11, <1>23 DEF EepOut
  <2> DEFINE o == on
  <2>2. o = 1 - f.addr /\ f.data[o] = second
    BY <1>8, <1>9, <2>1 DEF on, first, second
  <2>3. /\ DOMAIN y = EepFields /\ y.cs = f.cs /\ y.reg = f.reg /\ y.wen = f.wen /\ y.data = f.data /\ y.cmd = "data"
        /\ y.out = first[4] /\ y.outReg = <<second[1], second[2]>> /\ y.count = 0 /\ y.addr = o
    BY <1>8, <2>1, <2>2, ReadNext DEF y
  <2>4. 4 \in 1 .. 8 /\ 4 = m + 1 /\ y.out = (IF 4 <= 4 THEN first[4] ELSE second[4 - 4]) /\ y.out \in EepBit
        /\ y.count = 4 % 4 /\ y.addr = (IF 4 \in 4 .. 7 THEN on ELSE at) /\ EepOut(4, first, second, y.outReg)
    BY <1>10, <1>23, <2>3 DEF EepOut
  <2> QED
    BY <1>12, <2>3, <2>4
<1>24. CASE m = 4
  <2>1. f.cmd = "data" /\ f.count = 0 /\ 0 \in {0, 2} /\ f.outReg = <<second[1], second[2]>> /\ f.addr = on
    BY <1>8, <1>11, <1>24 DEF EepOut
  <2>3. /\ DOMAIN y = EepFields /\ y.cs = f.cs /\ y.reg = f.reg /\ y.wen = f.wen /\ y.data = f.data /\ y.cmd = "data"
        /\ y.out = second[1] /\ y.outReg = <<second[2]>> /\ y.count = 0 + 1 /\ y.addr = on
    BY <1>8, <2>1, ReadSecond DEF y
  <2>4. 5 \in 1 .. 8 /\ 5 = m + 1 /\ y.out = (IF 5 <= 4 THEN first[5] ELSE second[5 - 4]) /\ y.out \in EepBit
        /\ y.count = 5 % 4 /\ y.addr = (IF 5 \in 4 .. 7 THEN on ELSE at) /\ EepOut(5, first, second, y.outReg)
    BY <1>10, <1>24, <2>3 DEF EepOut
  <2> QED
    BY <1>12, <2>3, <2>4
<1>25. CASE m = 5
  <2>1. f.cmd = "data" /\ f.count = 1 /\ f.outReg = <<second[2]>> /\ f.addr = on /\ f.data[f.addr] = second
    BY <1>8, <1>11, <1>f, <1>25 DEF EepOut
  <2>3. /\ DOMAIN y = EepFields /\ y.cs = f.cs /\ y.reg = f.reg /\ y.wen = f.wen /\ y.data = f.data /\ y.cmd = "data"
        /\ y.out = second[2] /\ y.outReg = <<second[3], second[4]>> /\ y.count = 2 /\ y.addr = on
    BY <1>8, <2>1, ReadHalf DEF y
  <2>4. 6 \in 1 .. 8 /\ 6 = m + 1 /\ y.out = (IF 6 <= 4 THEN first[6] ELSE second[6 - 4]) /\ y.out \in EepBit
        /\ y.count = 6 % 4 /\ y.addr = (IF 6 \in 4 .. 7 THEN on ELSE at) /\ EepOut(6, first, second, y.outReg)
    BY <1>10, <1>25, <2>3 DEF EepOut
  <2> QED
    BY <1>12, <2>3, <2>4
<1>26. CASE m = 6
  <2>1. f.cmd = "data" /\ f.count = 2 /\ 2 \in {0, 2} /\ f.outReg = <<second[3], second[4]>> /\ f.addr = on
    BY <1>8, <1>11, <1>26 DEF EepOut
  <2>3. /\ DOMAIN y = EepFields /\ y.cs = f.cs /\ y.reg = f.reg /\ y.wen = f.wen /\ y.data = f.data /\ y.cmd = "data"
        /\ y.out = second[3] /\ y.outReg = <<second[4]>> /\ y.count = 2 + 1 /\ y.addr = on
    BY <1>8, <2>1, ReadSecond DEF y
  <2>4. 7 \in 1 .. 8 /\ 7 = m + 1 /\ y.out = (IF 7 <= 4 THEN first[7] ELSE second[7 - 4]) /\ y.out \in EepBit
        /\ y.count = 7 % 4 /\ y.addr = (IF 7 \in 4 .. 7 THEN on ELSE at) /\ EepOut(7, first, second, y.outReg)
    BY <1>10, <1>26, <2>3 DEF EepOut
  <2> QED
    BY <1>12, <2>3, <2>4
<1>27. CASE m = 7
  <2>1. f.cmd = "data" /\ f.count = 3 /\ f.outReg = <<second[4]>> /\ f.addr = on
    BY <1>8, <1>11, <1>27 DEF EepOut
  <2> DEFINE o == at
  <2>2. o = 1 - f.addr /\ f.data[o] = first
    BY <1>8, <1>9, <2>1 DEF on, first, second
  <2>3. /\ DOMAIN y = EepFields /\ y.cs = f.cs /\ y.reg = f.reg /\ y.wen = f.wen /\ y.data = f.data /\ y.cmd = "data"
        /\ y.out = second[4] /\ y.outReg = <<first[1], first[2]>> /\ y.count = 0 /\ y.addr = o
    BY <1>8, <2>1, <2>2, ReadNext DEF y
  <2>4. 8 \in 1 .. 8 /\ 8 = m + 1 /\ y.out = (IF 8 <= 4 THEN first[8] ELSE second[8 - 4]) /\ y.out \in EepBit
        /\ y.count = 8 % 4 /\ y.addr = (IF 8 \in 4 .. 7 THEN on ELSE at) /\ EepOut(8, first, second, y.outReg)
    BY <1>10, <1>27, <2>3 DEF EepOut
  <2> QED
    BY <1>12, <2>3, <2>4
<1> QED
  BY <1>9, <1>20, <1>21, <1>22, <1>23, <1>24, <1>25, <1>26, <1>27

\* The invariant the EEPROM keeps, and what it says of what is read.
LEMMA EepInvariant == C128EepSpec => []EepInv
<1>1. C128EepInit => EepInv
  <2> SUFFICES ASSUME C128EepInit PROVE EepInv
    OBVIOUS
  <2> DEFINE none == 0
             words == [v \in EepWords |-> <<1, 1, 1, 1>>]
  <2>1. words \in [EepWords -> EepWord] /\ <<>> \in Seq(EepBit) /\ none \in EepWords
    <3>1. <<1, 1, 1, 1>> \in EepWord
      BY DEF EepWord, EepBit
    <3> HIDE DEF EepWord
    <3> QED
      BY <3>1, EmptySeq DEF EepWords
  <2>2. /\ ceep = [cs |-> FALSE, clock |-> FALSE, in |-> none, out |-> none, reg |-> <<>>, outReg |-> <<>>, count |-> none,
                   cmd |-> "idle", addr |-> none, wen |-> FALSE, data |-> words]
        /\ chost = [left |-> <<>>, cmd |-> "none", words |-> words, wen |-> FALSE, at |-> none, got |-> <<>>]
    BY DEF C128EepInit
  <2> HIDE DEF none, words
  <2>3. /\ DOMAIN ceep = EepFields /\ ceep.cs = FALSE /\ ceep.clock = FALSE /\ ceep.reg = <<>> /\ ceep.wen = FALSE /\ ceep.data = words
    BY <2>2 DEF EepFields
  <2>4. /\ DOMAIN chost = {"left", "cmd", "words", "wen", "at", "got"} /\ chost.left = <<>> /\ chost.cmd = "none"
        /\ chost.words = words /\ chost.wen = FALSE /\ chost.at = none /\ chost.got = <<>>
    BY <2>2
  <2>5. EepTypes
    BY <2>1, <2>3, <2>4 DEF EepTypes, EepFields
  <2> QED
    BY <2>3, <2>4, <2>5 DEF EepInv
<1>2. EepInv /\ [C128EepNext]_eepVars => EepInv'
  <2> SUFFICES ASSUME EepInv, [C128EepNext]_eepVars PROVE EepInv'
    OBVIOUS
  <2>1. ASSUME NEW cmd \in DOMAIN Opcodes, NEW op \in Opcodes[cmd], NEW at \in EepWords, NEW word \in {<<0, 1, 0, 0>>},
               EepBegin(cmd, op, at, word)
        PROVE  EepInv'
    <3>1. cmd \in EepCommands /\ word \in EepWord
      <4>1. cmd \in EepCommands
        BY OpcodesAre
      <4>2. word \in EepWord
        BY DEF EepWord, EepBit
      <4> QED
        BY <4>1, <4>2
    <3> QED
      BY <2>1, <3>1, EepBegins
  <2>2. CASE EepSend
    BY <2>2, EepSent
  <2>3. CASE EepReceive
    BY <2>3, EepReceived
  <2>4. CASE EepEnd
    BY <2>4, EepEnds
  <2>5. CASE EepPoll
    BY <2>5, EepPolled
  <2>6. CASE UNCHANGED eepVars
    BY <2>6 DEF eepVars, EepInv, EepTypes, EepSending, EepReadBits
  <2> QED
    BY <2>1, <2>2, <2>3, <2>4, <2>5, <2>6 DEF C128EepNext
<1> QED
  BY <1>1, <1>2, PTL DEF C128EepSpec

\* The invariant says what the program reads.
LEMMA EepReadsWords == EepInv => C128EepRight
<1> SUFFICES ASSUME EepInv PROVE C128EepRight
  OBVIOUS
<1> DEFINE first == chost.words[chost.at]
           second == chost.words[1 - chost.at]
           stream == first \o second
           got == chost.got
<1>1. ceep.data = chost.words /\ EepTypes
  BY DEF EepInv
<1>2. first \in EepWord /\ second \in EepWord /\ got \in Seq(EepBit)
  <2>1. chost.words \in [EepWords -> EepWord] /\ chost.at \in {0, 1} /\ got \in Seq(EepBit)
    BY <1>1 DEF EepTypes, EepWords
  <2>2. chost.at \in EepWords /\ 1 - chost.at \in EepWords
    BY <2>1 DEF EepWords
  <2> QED
    BY <2>1, <2>2
<1>3. got = <<>> \/ EepReadBits
  BY DEF EepInv, EepSending
<1>4. ASSUME NEW n \in DOMAIN got PROVE got[n] = stream[n]
  <2>1. DOMAIN got = 1 .. Len(got) /\ Len(got) \in Nat
    BY <1>2
  <2>2. EepReadBits
    BY <1>3, <1>4, EmptySeq
  <2>3. Len(got) <= 8 /\ got[n] = IF n <= 4 THEN first[n] ELSE second[n - 4]
    BY <1>4, <2>1, <2>2 DEF EepReadBits
  <2> HIDE DEF got, first, second
  <2>4. n \in 1 .. 8
    BY <1>4, <2>1, <2>3
  <2>5. \A i \in 1 .. 4 : stream[i] = first[i] /\ stream[i + 4] = second[i]
    BY <1>2, WordBits
  <2> HIDE DEF stream
  <2>6. CASE n <= 4
    BY <2>3, <2>4, <2>5, <2>6
  <2>7. CASE n > 4
    <3>1. n - 4 \in 1 .. 4 /\ (n - 4) + 4 = n
      BY <2>4, <2>7
    <3>2. stream[(n - 4) + 4] = second[n - 4]
      BY <2>5, <3>1
    <3> QED
      BY <2>3, <2>4, <2>7, <3>1, <3>2
  <2> QED
    BY <2>4, <2>6, <2>7
<1> QED
  BY <1>1, <1>4 DEF C128EepRight

\* The EEPROM holds what the program's whole commands made of it, whatever was
\* given up in between, and a read gives the word and then the next (M93C86).
THEOREM C128EepCorrect == C128EepSpec => []C128EepRight
  BY EepInvariant, EepReadsWords, PTL

\* All of it: the C128's memory map, time, keyboard, flash, EEPROM and cartridges
\* are right whenever each part does what its code does (machine_c128.cpp, c128_carts.cpp).
THEOREM C128Correct ==
  /\ C128MapSpec /\ C128RunSpec /\ C128KeysSpec /\ C128FlashSpec /\ C128EepSpec /\ C128CartSpec => []C128Right
<1>1. /\ C128MapSpec => [](C128WritesRead /\ C128RamApart)
      /\ C128RunSpec => []C128TimeKept
      /\ C128KeysSpec => []C128NoKeyStuck
      /\ C128FlashSpec => []C128FlashSafe
      /\ C128EepSpec => []C128EepRight
      /\ C128CartSpec => []C128CartRight
  BY C128MapCorrect, C128RunCorrect, C128KeysCorrect, C128FlashCorrect, C128EepCorrect, C128CartCorrect
<1>2. C128WritesRead /\ C128RamApart /\ C128TimeKept /\ C128NoKeyStuck /\ C128FlashSafe /\ C128EepRight /\ C128CartRight
      => C128Right
  BY DEF C128Right
<1> QED
  BY <1>1, <1>2, PTL
==============================================================================
