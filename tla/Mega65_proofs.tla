---------------------------- MODULE Mega65_proofs ----------------------------
(***************************************************************************)
(* Proofs about the MEGA65: its interrupts for every set of chips, its     *)
(* memory map and hypervisor traps for every program, and the HDOS calls   *)
(* for any number of descriptors.                                          *)
(***************************************************************************)
EXTENDS Interrupts45GS02, IrqSources_proofs, Mega65Memory, HdosHandler,
        FiniteSetTheorems

\* What survives the pulses of RESTORE: the lines follow their chips, and the
\* IRQ pin, which nothing pulses, is the OR of its lines.
GsLinesInv == SourcesInv /\ IrqIsWiredOr

\* Every step of the machine keeps it.
LEMMA GsNextInv ==
  ASSUME SilentReset = {}, GsLinesInv, [GsNext]_gsVars
  PROVE  GsLinesInv'
<1> USE DEF GsLinesInv, IrqIsWiredOr
<1>1. CASE UNCHANGED sourceVars
  BY <1>1 DEF sourceVars, SourcesInv, SourcesTypeOK, LinesMatchChips, Asserts
<1>2. CASE ExecuteAccess
  BY <1>2, AccessInv DEF ExecuteAccess, PinsKept
<1>3. CASE GsTick
  BY <1>3, TickAllInv DEF GsTick, PinsKept
<1>4. CASE PressRestore
  <2>1. nmi' \in Manager(NmiSources) /\ nmi'.state = nmi.state
    BY <1>4 DEF PressRestore, PulsePin, SourcesInv, SourcesTypeOK, Manager
  <2> QED
    BY <1>4, <2>1 DEF PressRestore, SourcesInv, SourcesTypeOK, LinesMatchChips, Asserts
<1>5. CASE MachineReset
  BY <1>5, ResetInv DEF MachineReset, PinsAreWiredOr
<1> QED
  BY <1>1, <1>2, <1>3, <1>4, <1>5 DEF GsNext, CpuStep, StepHalted, TakeNmi, TakeIrq,
     ExecuteFlags, ExecuteMap, gsVars, sourceVars

\* Whatever chips the MEGA65 has, as long as they release their line on reset,
\* and however often RESTORE pulses NMI: every device line follows its chip's
\* flags and the IRQ pin is the OR of its lines.
THEOREM GsIrqPinCorrect ==
  ASSUME SilentReset = {}
  PROVE  GsSpec => [](LinesMatchChips /\ IrqIsWiredOr)
<1>1. GsInit => GsLinesInv
  BY InitInv DEF GsInit, GsLinesInv, PinsAreWiredOr, IrqIsWiredOr
<1>2. GsLinesInv /\ [GsNext]_gsVars => GsLinesInv'
  BY GsNextInv
<1>3. GsLinesInv => LinesMatchChips /\ IrqIsWiredOr
  BY DEF GsLinesInv, SourcesInv
<1> QED
  BY <1>1, <1>2, <1>3, PTL DEF GsSpec

\* Every step keeps the types, whichever chips the machine has.
LEMMA GsNextType ==
  ASSUME GsTypeOK, [GsNext]_gsVars
  PROVE  GsTypeOK'
<1> USE DEF GsTypeOK, CpuState, ResetCpu, Fetched, TrackEdge
<1>1. CASE UNCHANGED sourceVars /\ (StepHalted \/ TakeNmi \/ TakeIrq \/ ExecuteFlags
                                    \/ ExecuteMap \/ UNCHANGED gsVars)
  <2>1. SourcesTypeOK'
    BY <1>1 DEF SourcesTypeOK, sourceVars
  <2>2. nmi.pin \in BOOLEAN
    BY DEF SourcesTypeOK, Manager
  <2> QED
    BY <1>1, <2>1, <2>2 DEF StepHalted, TakeNmi, TakeIrq, ExecuteFlags, ExecuteMap,
                            ExecutesInstruction, gsVars
<1>2. CASE ExecuteAccess
  <2>1. SourcesTypeOK'
    BY <1>2, AccessType DEF ExecuteAccess
  <2>2. nmi.pin \in BOOLEAN /\ nmi'.pin \in BOOLEAN
    BY <2>1 DEF SourcesTypeOK, Manager
  <2> QED
    BY <1>2, <2>1, <2>2 DEF ExecuteAccess, ExecutesInstruction
<1>3. CASE GsTick
  <2>1. SourcesTypeOK'
    BY <1>3, TickAllType DEF GsTick
  <2>2. nmi.pin \in BOOLEAN /\ nmi'.pin \in BOOLEAN
    BY <2>1 DEF SourcesTypeOK, Manager
  <2> QED
    BY <1>3, <2>1, <2>2 DEF GsTick
<1>4. CASE PressRestore
  BY <1>4 DEF PressRestore, PulsePin, SourcesTypeOK, Manager
<1>5. CASE MachineReset
  BY <1>5 DEF MachineReset, ResetSources, SourcesTypeOK, Manager
<1> QED
  BY <1>1, <1>2, <1>3, <1>4, <1>5 DEF GsNext, CpuStep, StepHalted, TakeNmi, TakeIrq,
     ExecuteFlags, ExecuteMap, gsVars, sourceVars

\* Type correctness of the MEGA65's interrupt system.
THEOREM GsTypeCorrect == GsSpec => []GsTypeOK
<1>1. GsInit => GsTypeOK
  <2>1. GsInit => SourcesTypeOK
    BY InitInv DEF GsInit, SourcesInv
  <2>2. ResetCpu \in CpuState
    BY DEF CpuState, ResetCpu
  <2> QED
    BY <2>1, <2>2 DEF GsInit, GsTypeOK
<1>2. GsTypeOK /\ [GsNext]_gsVars => GsTypeOK'
  BY GsNextType
<1> QED
  BY <1>1, <1>2, PTL DEF GsSpec

\* The 45GS02 never takes an NMI twice for one edge of the pin or one press of
\* RESTORE, nor one without either, with MAP holding interrupts off at any
\* time and for any chips.
THEOREM GsNmiNotSpurious == GsSpec => []GsNmiOncePerEdge
<1>1. GsInit => GsNmiOncePerEdge
  BY DEF GsInit, SourcesInit, Idle, GsNmiOncePerEdge, NmiSeen
<1>2. ASSUME GsTypeOK, GsTypeOK', GsNmiOncePerEdge, [GsNext]_gsVars
      PROVE  GsNmiOncePerEdge'
  <2> USE <1>2 DEF GsNmiOncePerEdge, NmiSeen, Fetched, TrackEdge
  <2>0. /\ nmi.pin \in BOOLEAN /\ nmi'.pin \in BOOLEAN /\ cpu \in CpuState
        /\ nmiEdge \in BOOLEAN
    BY DEF GsTypeOK, SourcesTypeOK, Manager
  <2>1. CASE StepHalted \/ UNCHANGED gsVars
    BY <2>1 DEF StepHalted, sourceVars, gsVars
  <2>2. CASE TakeNmi
    BY <2>0, <2>2 DEF TakeNmi, CpuState
  <2>3. CASE TakeIrq \/ ExecuteFlags \/ ExecuteMap
    BY <2>0, <2>3 DEF TakeIrq, ExecuteFlags, ExecuteMap, sourceVars, CpuState
  <2>4. CASE ExecuteAccess
    BY <2>0, <2>4 DEF ExecuteAccess, CpuState
  <2>5. CASE GsTick
    BY <2>0, <2>5 DEF GsTick, CpuState
  <2>6. CASE MachineReset
    BY <2>6 DEF MachineReset, ResetSources
  <2>7. CASE PressRestore
    BY <2>7 DEF PressRestore
  <2> QED
    BY <2>1, <2>2, <2>3, <2>4, <2>5, <2>6, <2>7 DEF GsNext, CpuStep
<1> QED
  BY <1>1, <1>2, GsTypeCorrect, PTL DEF GsSpec

-----------------------------------------------------------------------------
(***************************************************************************)
(* Memory map and hypervisor.                                              *)
(***************************************************************************)
M65Modes == {"C64", "C65", "MEGA65", "ETHERNET"}
M65RegsType == [a : Nat, xyz : Nat, p : SUBSET {"I", "E", "D", "C"}, frame : {"user", "user2", "hyper"}]
M65MapType == [off : [M65Blocks -> Nat], en : SUBSET M65Blocks, mbLow : Nat, mbHigh : Nat]
M65PortType == [ddr : Nat, out : Nat]
M65KeyType == [state : {"first", "second"}, byte : 0 .. 255, mode : M65Modes]
M65ViewType == [regs : M65RegsType, map : M65MapType, port : M65PortType, mode : M65Modes, dma : {0, 1}]
M65SavedType == [regs : M65RegsType, low : Nat, high : Nat, en : SUBSET M65Blocks, mbLow : Nat, mbHigh : Nat,
                 port : M65PortType, mode : M65Modes, dma : {0, 1}]

\* The type invariant; the virtualisation registers mean something only in the
\* hypervisor.
M65Typed ==
  /\ m65Regs \in M65RegsType /\ m65Hyper \in BOOLEAN /\ m65Map \in M65MapType
  /\ m65Port \in M65PortType /\ m65Key \in M65KeyType /\ m65Locked \in BOOLEAN
  /\ m65Dma \in {0, 1}
  /\ m65Hyper => m65Saved \in M65SavedType

\* What the operators of the trap return.
LEMMA BitsType == \A n : M65Bits(n) \in SUBSET M65Blocks
BY DEF M65Bits

LEMMA NoMapType == M65NoMap \in M65MapType
BY DEF M65NoMap, M65MapType

LEMMA RomMapType == M65RomMap \in M65MapType
BY DEF M65RomMap, M65MapType, M65Blocks

LEMMA ResetTypes ==
  /\ [a |-> 0, xyz |-> 0, p |-> {"I", "E"}, frame |-> "user"] \in M65RegsType
  /\ \A d, o \in Nat : [ddr |-> d, out |-> o] \in M65PortType
  /\ \A mode \in M65Modes : [state |-> "first", byte |-> 0, mode |-> mode] \in M65KeyType
BY DEF M65RegsType, M65PortType, M65KeyType

LEMMA SaveType == ASSUME NEW view \in M65ViewType PROVE M65Save(view) \in M65SavedType
BY DEF M65ViewType, M65MapType, M65SavedType, M65Save, M65Blocks

LEMMA RestoredType == ASSUME NEW s \in M65SavedType PROVE M65Restored(s) \in M65MapType
BY DEF M65SavedType, M65MapType, M65Restored

LEMMA HyperMapType == ASSUME NEW map \in M65MapType PROVE M65HyperMap(map) \in M65MapType
BY DEF M65MapType, M65HyperMap, M65Blocks, M65High

LEMMA HyperRegsType == ASSUME NEW regs \in M65RegsType PROVE M65HyperRegs(regs) \in M65RegsType
BY DEF M65RegsType, M65HyperRegs

LEMMA AnsweredType ==
  ASSUME NEW regs \in M65RegsType, NEW a \in Nat, NEW ok \in BOOLEAN
  PROVE  M65Answered(regs, a, ok) \in M65RegsType
BY DEF M65RegsType, M65Answered

LEMMA MapLowType ==
  ASSUME NEW map \in M65MapType, NEW args \in [1 .. 4 -> 0 .. 255]
  PROVE  M65MapLow(map, args) \in M65MapType
<1> DEFINE off == [k \in M65Blocks |-> IF k < 4 THEN 256 * (args[2] % 16) + args[1] ELSE map.off[k]]
           en == (map.en \cap M65High) \cup M65Bits(args[2] \div 16)
<1>1. args[1] \in Nat /\ args[2] % 16 \in Nat
  OBVIOUS
<1>2. off \in [M65Blocks -> Nat] /\ en \in SUBSET M65Blocks
  BY <1>1, BitsType DEF M65MapType
<1>3. CASE args[2] = 15
  BY <1>1, <1>3 DEF M65MapLow, M65MapType
<1>4. CASE args[2] # 15
  <2>1. M65MapLow(map, args) = [map EXCEPT !.off = off, !.en = en]
    BY <1>4 DEF M65MapLow
  <2> HIDE DEF off, en
  <2> QED BY <1>2, <2>1 DEF M65MapType
<1> QED BY <1>3, <1>4

LEMMA MapHighType ==
  ASSUME NEW low \in M65MapType, NEW args \in [1 .. 4 -> 0 .. 255]
  PROVE  M65MapHigh(low, args) \in M65MapType
<1> DEFINE off == [k \in M65Blocks |-> IF k < 4 THEN low.off[k] ELSE 256 * (args[4] % 16) + args[3]]
           en == (low.en \ M65High) \cup M65Bits(16 * (args[4] \div 16))
<1>1. args[3] \in Nat /\ args[4] % 16 \in Nat
  OBVIOUS
<1>2. off \in [M65Blocks -> Nat] /\ en \in SUBSET M65Blocks
  BY <1>1, BitsType DEF M65MapType
<1>3. CASE args[4] = 15
  BY <1>1, <1>3 DEF M65MapHigh, M65MapType
<1>4. CASE args[4] # 15
  <2>1. M65MapHigh(low, args) = [low EXCEPT !.off = off, !.en = en]
    BY <1>4 DEF M65MapHigh
  <2> HIDE DEF off, en
  <2> QED BY <1>2, <2>1 DEF M65MapType
<1> QED BY <1>3, <1>4

LEMMA MapByType ==
  ASSUME NEW map \in M65MapType, NEW args \in [1 .. 4 -> 0 .. 255], NEW hyper \in BOOLEAN
  PROVE  M65MapBy(map, args, hyper) \in M65MapType
BY MapLowType, MapHighType DEF M65MapBy

\* The program's view of the machine has its type.
LEMMA ViewTyped == M65Typed => M65View \in M65ViewType
BY DEF M65Typed, M65View, M65ViewType, M65KeyType

\* Every step keeps the types, with and without HYPPO.
LEMMA M65NextType ==
  ASSUME M65Typed, [M65Next]_m65Vars
  PROVE  M65Typed'
<1>0. M65View \in M65ViewType
  BY ViewTyped
<1>1. CASE M65Compute
  BY <1>1 DEF M65Compute, M65Typed, M65RegsType
<1>2. CASE M65MapInstruction
  BY <1>2, MapByType, M65Assumption DEF M65MapInstruction, M65Typed
<1>3. CASE M65WritePort
  BY <1>3 DEF M65WritePort, M65Typed, M65PortType
<1>4. CASE M65SetDma
  BY <1>4 DEF M65SetDma, M65Typed
<1>5. CASE M65Trap
  <2>1. M65View.regs \in M65RegsType /\ M65View.map \in M65MapType
    BY <1>0 DEF M65ViewType
  <2>2. m65Key' \in M65KeyType /\ m65Locked' \in BOOLEAN
    BY <1>5 DEF M65Trap, M65SetMode, M65KeyType, M65Typed, M65Modes
  <2>3. m65Port' \in M65PortType
    BY <1>5 DEF M65Trap, M65Enter, M65PortType
  <2> QED
    BY <1>0, <1>5, <2>1, <2>2, <2>3, SaveType, HyperRegsType, HyperMapType
    DEF M65Trap, M65Enter, M65Typed
<1>6. ASSUME NEW s \in M65SavedType, M65Exit(s) PROVE M65Typed'
  <2>1. m65Key' \in M65KeyType /\ m65Locked' \in BOOLEAN
    BY <1>6 DEF M65Exit, M65SetMode, M65KeyType, M65Typed, M65SavedType
  <2> QED
    BY <1>6, <2>1, RestoredType DEF M65Exit, M65Typed, M65SavedType
<1>7. CASE M65TrapServed
  <2>1. PICK a \in {0}, ok \in BOOLEAN :
          M65Exit(M65Save([M65View EXCEPT !.regs = M65Answered(@, a, ok)]))
    BY <1>7 DEF M65TrapServed
  <2>2. M65Answered(M65View.regs, a, ok) \in M65RegsType
    BY <1>0, AnsweredType DEF M65ViewType
  <2>3. [M65View EXCEPT !.regs = M65Answered(@, a, ok)] \in M65ViewType
    BY <1>0, <2>2 DEF M65ViewType
  <2> QED BY <1>6, <2>1, <2>3, SaveType
<1>8. CASE M65WriteSaved
  <2>1. m65Saved \in M65SavedType /\ m65Hyper = TRUE
    BY <1>8 DEF M65WriteSaved, M65Typed
  <2>2. m65Saved' \in M65SavedType
    <3>1. CASE m65Saved' = [m65Saved EXCEPT !.regs = [@ EXCEPT !.a = 2]]
      <4>1. [m65Saved.regs EXCEPT !.a = 2] \in M65RegsType
        BY <2>1 DEF M65SavedType, M65RegsType
      <4> QED BY <2>1, <3>1, <4>1 DEF M65SavedType
    <3>2. CASE m65Saved' = [m65Saved EXCEPT !.mode = "C65"]
      BY <2>1, <3>2 DEF M65SavedType, M65Modes
    <3>3. CASE m65Saved' = [m65Saved EXCEPT !.en = M65HighBits(@, 17), !.high = M65HighOffset(@, 17)]
      <4>1. M65HighBits(m65Saved.en, 17) \in SUBSET M65Blocks /\ M65HighOffset(m65Saved.high, 17) \in Nat
        BY <2>1, BitsType DEF M65SavedType, M65HighBits, M65HighOffset
      <4> QED BY <2>1, <3>3, <4>1 DEF M65SavedType
    <3> QED BY <1>8, <3>1, <3>2, <3>3 DEF M65WriteSaved
  <2> QED
    BY <1>8, <2>2 DEF M65WriteSaved, M65Typed
<1>9. CASE M65Return
  BY <1>6, <1>9 DEF M65Return, M65Typed
<1>10. CASE M65Reset
  <2> DEFINE regs == [a |-> 0, xyz |-> 0, p |-> {"I", "E"}, frame |-> "user"]
             view == [regs |-> regs, map |-> M65NoMap,
                      port |-> [ddr |-> 47, out |-> 55], mode |-> "C64", dma |-> 0]
             blank == [view EXCEPT !.port = [ddr |-> 0, out |-> 0]]
  <2>1. regs \in M65RegsType /\ view \in M65ViewType /\ blank \in M65ViewType
    BY NoMapType DEF M65RegsType, M65ViewType, M65PortType, M65Modes
  <2>2. /\ M65HyperRegs(regs) \in M65RegsType /\ M65HyperMap(M65NoMap) \in M65MapType
        /\ [regs EXCEPT !.p = IF m65Hyper THEN @ ELSE {"I"}] \in M65RegsType
        /\ M65Save(view) \in M65SavedType /\ M65Save(blank) \in M65SavedType
    BY <2>1, NoMapType, HyperRegsType, HyperMapType, SaveType DEF M65RegsType
  <2>3. /\ m65Dma' = 0 /\ m65Hyper' \in BOOLEAN /\ m65Locked' \in BOOLEAN
        /\ m65Port' \in M65PortType /\ m65Key' \in M65KeyType
    <3>1. CASE M65Hyppo
      <4>1. /\ m65Port' = [ddr |-> 63, out |-> 53] /\ m65Locked' = FALSE /\ m65Hyper' = TRUE
            /\ m65Key' = [state |-> "first", byte |-> 0, mode |-> "MEGA65"] /\ m65Dma' = 0
        BY <1>10, <3>1 DEF M65Reset
      <4> QED BY <4>1, ResetTypes DEF M65Modes
    <3>2. CASE ~M65Hyppo
      <4>1. /\ m65Port' = [ddr |-> 47, out |-> 55] /\ m65Locked' = TRUE /\ m65Hyper' = m65Hyper
            /\ m65Key' = [state |-> "first", byte |-> 0, mode |-> "C64"] /\ m65Dma' = 0
        BY <1>10, <3>2 DEF M65Reset
      <4> QED BY <4>1, ResetTypes DEF M65Modes, M65Typed
    <3> QED BY <3>1, <3>2
  <2>4. /\ m65Regs' \in {M65HyperRegs(regs), [regs EXCEPT !.p = IF m65Hyper THEN @ ELSE {"I"}]}
        /\ m65Map' \in {M65HyperMap(M65NoMap), m65Map, M65RomMap}
        /\ m65Hyper' => m65Saved' \in {M65Save(view), M65Save(blank)}
    BY <1>10 DEF M65Reset
  <2> HIDE DEF regs, view, blank
  <2> QED BY <2>2, <2>3, <2>4, RomMapType DEF M65Typed
<1>11. ASSUME NEW v \in M65Knocks, M65Knock(v) PROVE M65Typed'
  <2>1. m65Key' \in M65KeyType /\ m65Locked' \in BOOLEAN
    <3>1. CASE m65Hyper
      BY <1>11, <3>1 DEF M65Knock, M65Typed
    <3>2. CASE ~m65Hyper /\ m65Key.state = "first"
      <4>1. v \in 0 .. 255
        BY M65Assumption
      <4>2. m65Key' = [m65Key EXCEPT !.state = "second", !.byte = v] /\ m65Locked' = m65Locked
        BY <1>11, <3>2 DEF M65Knock
      <4> QED BY <4>1, <4>2 DEF M65KeyType, M65Typed
    <3>3. CASE ~m65Hyper /\ m65Key.state # "first"
      <4> DEFINE mode == M65KnockMode(m65Key.byte, v)
                 next == IF mode = "none" THEN m65Key.mode ELSE mode
      <4>1. M65SetMode([m65Key EXCEPT !.state = "first"], next)
        BY <1>11, <3>3 DEF M65Knock
      <4>2. next \in M65Modes
        BY DEF M65KnockMode, M65Modes, M65Typed, M65KeyType
      <4> HIDE DEF next
      <4> QED BY <4>1, <4>2 DEF M65SetMode, M65KeyType, M65Typed
    <3> QED BY <3>1, <3>2, <3>3
  <2> QED BY <1>11, <2>1 DEF M65Knock, M65Typed
<1> QED
  BY <1>1, <1>2, <1>3, <1>4, <1>5, <1>7, <1>8, <1>9, <1>10, <1>11 DEF M65Next, M65Typed, m65Vars

\* Type correctness of the MEGA65's memory map and hypervisor registers.
THEOREM M65TypeCorrect == M65Spec => []M65Typed
<1>1. M65Init => M65Typed
  BY NoMapType, RomMapType, ResetTypes DEF M65Init, M65Typed, M65Modes
<1>2. M65Typed /\ [M65Next]_m65Vars => M65Typed'
  BY M65NextType
<1> QED BY <1>1, <1>2, PTL DEF M65Spec

-----------------------------------------------------------------------------
\* setPersonality with its callback keeps lock and personality together.
LEMMA SetModeLocks ==
  ASSUME M65LockFollows, NEW key \in M65KeyType, NEW mode, M65SetMode(key, mode)
  PROVE  M65LockFollows'
BY DEF M65LockFollows, M65SetMode, M65KeyType

\* The VIC-III is locked exactly outside the MEGA65 personality, through every
\* order of knocks, traps, calls served by an intercept and resets, with and
\* without HYPPO, although the chip is only told of changes.
THEOREM M65LockCorrect == M65Spec => []M65LockFollows
<1>1. M65Init => M65LockFollows
  BY DEF M65Init, M65LockFollows
<1>2. ASSUME M65Typed, M65LockFollows, [M65Next]_m65Vars
      PROVE  M65LockFollows'
  <2> USE <1>2
  <2>0. m65Key \in M65KeyType
    BY DEF M65Typed
  <2>1. CASE M65Compute \/ M65MapInstruction \/ M65WritePort \/ M65SetDma \/ M65WriteSaved \/ UNCHANGED m65Vars
    BY <2>1 DEF M65Compute, M65MapInstruction, M65WritePort, M65SetDma, M65WriteSaved, m65Vars, M65LockFollows
  <2>2. CASE M65Trap
    BY <2>0, <2>2, SetModeLocks DEF M65Trap
  <2>3. ASSUME NEW s, M65Exit(s) PROVE M65LockFollows'
    BY <2>0, <2>3, SetModeLocks DEF M65Exit
  <2>4. CASE M65TrapServed \/ M65Return
    BY <2>3, <2>4 DEF M65TrapServed, M65Return
  <2>5. CASE M65Reset
    BY <2>5 DEF M65Reset, M65LockFollows
  <2>6. ASSUME NEW v \in M65Knocks, M65Knock(v) PROVE M65LockFollows'
    <3>1. CASE m65Hyper
      BY <2>6, <3>1 DEF M65Knock, M65LockFollows
    <3>2. CASE ~m65Hyper /\ m65Key.state = "first"
      BY <2>0, <2>6, <3>2 DEF M65Knock, M65LockFollows, M65KeyType
    <3>3. CASE ~m65Hyper /\ m65Key.state # "first"
      <4>1. [m65Key EXCEPT !.state = "first"] \in M65KeyType
        BY <2>0 DEF M65KeyType
      <4>2. \E mode : M65SetMode([m65Key EXCEPT !.state = "first"], mode)
        BY <2>6, <3>3 DEF M65Knock
      <4> QED BY <4>1, <4>2, SetModeLocks
    <3> QED BY <3>1, <3>2, <3>3
  <2> QED BY <2>1, <2>2, <2>4, <2>5, <2>6 DEF M65Next
<1> QED BY <1>1, <1>2, M65TypeCorrect, PTL DEF M65Spec

-----------------------------------------------------------------------------
(***************************************************************************)
(* With HYPPO.  Of a map: megabytes are whole, and the four blocks of a    *)
(* half share an offset, so that one offset per half is enough to save it. *)
(***************************************************************************)
M65Megabytes == {4096 * k : k \in 0 .. 255}
M65MapOk(map) ==
  /\ map.mbLow \in M65Megabytes /\ map.mbHigh \in M65Megabytes
  /\ \A k \in M65Blocks : map.off[k] = IF k < 4 THEN map.off[0] ELSE map.off[4]

\* The hypervisor's blocks 4 and 5 are mapped to $FFF8000.
M65OwnBlocks(map) == {4, 5} \subseteq map.en /\ map.off[4] = 3840

\* While HYPPO runs, the virtualisation registers hold what the program is to
\* find again, and its map can be rebuilt from them.
M65HyppoInv ==
  /\ M65Typed /\ M65MapOk(m65Map)
  /\ m65Hyper => /\ M65OwnBlocks(m65Map)
                 /\ m65User \in M65ViewType /\ M65MapOk(m65User.map)
                 /\ m65Saved = M65Save(m65User)

LEMMA MapLowOk ==
  ASSUME NEW map \in M65MapType, NEW args \in [1 .. 4 -> 0 .. 255], M65MapOk(map)
  PROVE  /\ M65MapOk(M65MapLow(map, args))
         /\ M65OwnBlocks(map) => M65OwnBlocks(M65MapLow(map, args))
<1> DEFINE off == [k \in M65Blocks |-> IF k < 4 THEN 256 * (args[2] % 16) + args[1] ELSE map.off[k]]
           en == (map.en \cap M65High) \cup M65Bits(args[2] \div 16)
<1>1. CASE args[2] = 15
  <2>1. args[1] \in 0 .. 255
    OBVIOUS
  <2>2. M65MapLow(map, args) = [map EXCEPT !.mbLow = 4096 * args[1]]
    BY <1>1 DEF M65MapLow
  <2> QED BY <2>1, <2>2 DEF M65MapType, M65MapOk, M65OwnBlocks, M65Megabytes
<1>2. CASE args[2] # 15
  <2>1. M65MapLow(map, args) = [map EXCEPT !.off = off, !.en = en]
    BY <1>2 DEF M65MapLow
  <2>2. /\ \A k \in M65Blocks : off[k] = IF k < 4 THEN off[0] ELSE off[4]
        /\ off[4] = map.off[4]
    BY DEF M65MapOk, M65Blocks
  <2>3. {4, 5} \subseteq map.en => {4, 5} \subseteq en
    BY DEF M65High
  <2> HIDE DEF off, en
  <2> QED BY <2>1, <2>2, <2>3 DEF M65MapType, M65MapOk, M65OwnBlocks
<1> QED BY <1>1, <1>2

LEMMA MapHighOk ==
  ASSUME NEW map \in M65MapType, NEW args \in [1 .. 4 -> 0 .. 255], M65MapOk(map)
  PROVE  /\ M65MapOk(M65MapHigh(map, args))
         /\ args[4] = 15 /\ M65OwnBlocks(map) => M65OwnBlocks(M65MapHigh(map, args))
<1> DEFINE off == [k \in M65Blocks |-> IF k < 4 THEN map.off[k] ELSE 256 * (args[4] % 16) + args[3]]
           en == (map.en \ M65High) \cup M65Bits(16 * (args[4] \div 16))
<1>1. CASE args[4] = 15
  <2>1. args[3] \in 0 .. 255
    OBVIOUS
  <2>2. M65MapHigh(map, args) = [map EXCEPT !.mbHigh = 4096 * args[3]]
    BY <1>1 DEF M65MapHigh
  <2> QED BY <2>1, <2>2 DEF M65MapType, M65MapOk, M65OwnBlocks, M65Megabytes
<1>2. CASE args[4] # 15
  <2>1. M65MapHigh(map, args) = [map EXCEPT !.off = off, !.en = en]
    BY <1>2 DEF M65MapHigh
  <2>2. \A k \in M65Blocks : off[k] = IF k < 4 THEN off[0] ELSE off[4]
    BY DEF M65MapOk, M65Blocks
  <2> HIDE DEF off, en
  <2> QED BY <1>2, <2>1, <2>2 DEF M65MapType, M65MapOk
<1> QED BY <1>1, <1>2

\* A MAP instruction keeps maps sound, and the hypervisor's cannot move its
\* own blocks.
LEMMA MapByOk ==
  ASSUME NEW map \in M65MapType, NEW args \in [1 .. 4 -> 0 .. 255], NEW hyper \in BOOLEAN,
         M65MapOk(map), hyper => M65OwnBlocks(map)
  PROVE  /\ M65MapOk(M65MapBy(map, args, hyper))
         /\ hyper => M65OwnBlocks(M65MapBy(map, args, hyper))
<1>1. M65MapLow(map, args) \in M65MapType
  BY MapLowType
<1> QED BY <1>1, MapLowOk, MapHighOk DEF M65MapBy

LEMMA HyperMapOk ==
  ASSUME NEW map \in M65MapType, M65MapOk(map)
  PROVE  M65MapOk(M65HyperMap(map)) /\ M65OwnBlocks(M65HyperMap(map))
<1>1. 0 \in M65Megabytes /\ 4096 * 255 \in M65Megabytes
  BY DEF M65Megabytes
<1>2. /\ M65HyperMap(map).mbLow \in M65Megabytes /\ M65HyperMap(map).mbHigh \in M65Megabytes
  BY <1>1 DEF M65MapOk, M65HyperMap
<1> QED BY <1>2 DEF M65MapOk, M65HyperMap, M65OwnBlocks, M65Blocks, M65High

LEMMA NoMapOk == M65MapOk(M65NoMap)
BY DEF M65MapOk, M65NoMap, M65Blocks, M65Megabytes

\* What a trap saves is enough to build the map again.
LEMMA SaveRestores ==
  ASSUME NEW view \in M65ViewType, M65MapOk(view.map)
  PROVE  M65Restored(M65Save(view)) = view.map
<1> DEFINE off == [k \in M65Blocks |-> IF k < 4 THEN view.map.off[0] ELSE view.map.off[4]]
<1>1. view.map \in M65MapType
  BY DEF M65ViewType
<1>2. view.map.off = off
  BY <1>1 DEF M65MapType, M65MapOk
<1>3. M65Restored(M65Save(view)) =
        [off |-> off, en |-> view.map.en, mbLow |-> view.map.mbLow, mbHigh |-> view.map.mbHigh]
  BY DEF M65Restored, M65Save
<1> HIDE DEF off
<1> QED BY <1>1, <1>2, <1>3 DEF M65MapType

\* The program's view after a trap returned.
LEMMA ExitView ==
  ASSUME M65Typed, NEW view \in M65ViewType, M65MapOk(view.map), M65Exit(M65Save(view))
  PROVE  M65View' = view /\ m65Map' = view.map
<1>1. m65Map' = view.map
  BY SaveRestores DEF M65Exit
<1>2. m65Key'.mode = view.mode
  BY DEF M65Exit, M65Save, M65SetMode, M65Typed, M65KeyType
<1>3. m65Regs' = view.regs /\ m65Port' = view.port /\ m65Dma' = view.dma
  BY DEF M65Exit, M65Save
<1> QED BY <1>1, <1>2, <1>3 DEF M65View, M65ViewType

\* An intercept's answer changes the registers and nothing else of the view.
LEMMA AnsweredView ==
  ASSUME M65HyppoInv, NEW a \in Nat, NEW ok \in BOOLEAN
  PROVE  /\ [M65View EXCEPT !.regs = M65Answered(@, a, ok)] \in M65ViewType
         /\ M65MapOk([M65View EXCEPT !.regs = M65Answered(@, a, ok)].map)
<1>0. M65View \in M65ViewType
  BY ViewTyped DEF M65HyppoInv
<1>1. M65Answered(M65View.regs, a, ok) \in M65RegsType
  BY <1>0, AnsweredType DEF M65ViewType
<1>2. [M65View EXCEPT !.regs = M65Answered(@, a, ok)].map = m65Map
  BY DEF M65View
<1> QED BY <1>0, <1>1, <1>2 DEF M65ViewType, M65HyppoInv

\* HYPPO's write to a virtualisation register reaches the program's view.
LEMMA WriteSavedKeeps ==
  ASSUME M65HyppoInv, M65WriteSaved
  PROVE  /\ m65User' \in M65ViewType /\ M65MapOk(m65User'.map)
         /\ m65Saved' = M65Save(m65User')
<1>0. m65User \in M65ViewType /\ M65MapOk(m65User.map) /\ m65Saved = M65Save(m65User)
  BY DEF M65HyppoInv, M65WriteSaved
<1>1. CASE /\ m65Saved' = [m65Saved EXCEPT !.regs = [@ EXCEPT !.a = 2]]
           /\ m65User' = [m65User EXCEPT !.regs = [@ EXCEPT !.a = 2]]
  <2> DEFINE regs == [m65User.regs EXCEPT !.a = 2]
  <2>1. regs \in M65RegsType
    BY <1>0 DEF M65ViewType, M65RegsType
  <2>2. m65User' = [m65User EXCEPT !.regs = regs] /\ m65Saved' = [m65Saved EXCEPT !.regs = regs]
    BY <1>0, <1>1 DEF M65Save
  <2> HIDE DEF regs
  <2> QED BY <1>0, <2>1, <2>2 DEF M65ViewType, M65Save
<1>2. CASE m65Saved' = [m65Saved EXCEPT !.mode = "C65"] /\ m65User' = [m65User EXCEPT !.mode = "C65"]
  BY <1>0, <1>2 DEF M65ViewType, M65Save, M65Modes
<1>3. CASE /\ m65Saved' = [m65Saved EXCEPT !.en = M65HighBits(@, 17), !.high = M65HighOffset(@, 17)]
           /\ m65User' = [m65User EXCEPT !.map = M65HighWritten(@, 17)]
  <2> DEFINE map == m65User.map
             off == [k \in M65Blocks |-> IF k < 4 THEN map.off[k] ELSE M65HighOffset(map.off[k], 17)]
             en == M65HighBits(map.en, 17)
             new == [map EXCEPT !.en = en, !.off = off]
  <2>0. map \in M65MapType
    BY <1>0 DEF M65ViewType
  <2>1. en \in SUBSET M65Blocks
    BY <2>0, BitsType DEF M65MapType, M65HighBits
  <2>2. off \in [M65Blocks -> Nat]
    BY <2>0 DEF M65MapType, M65HighOffset
  <2>3. /\ \A k \in M65Blocks : off[k] = IF k < 4 THEN off[0] ELSE off[4]
        /\ off[0] = map.off[0] /\ off[4] = M65HighOffset(map.off[4], 17)
    BY <1>0 DEF M65MapOk, M65Blocks
  <2>4. m65User' = [m65User EXCEPT !.map = new]
    BY <1>3 DEF M65HighWritten
  <2>5. m65Saved' = [m65Saved EXCEPT !.en = en, !.high = off[4]]
    BY <1>0, <1>3, <2>3 DEF M65Save
  <2> HIDE DEF off, en
  <2>6. new \in M65MapType /\ M65MapOk(new)
    BY <1>0, <2>0, <2>1, <2>2, <2>3 DEF M65MapType, M65MapOk
  <2>7. new.off = off /\ new.en = en /\ new.mbLow = map.mbLow /\ new.mbHigh = map.mbHigh
    BY <2>0 DEF M65MapType
  <2>8. m65Saved' = [regs |-> m65User.regs, low |-> map.off[0], high |-> off[4], en |-> en,
                     mbLow |-> map.mbLow, mbHigh |-> map.mbHigh, port |-> m65User.port,
                     mode |-> m65User.mode, dma |-> m65User.dma]
    BY <1>0, <2>5 DEF M65Save
  <2> HIDE DEF new, map
  <2>9. m65User' \in M65ViewType /\ m65User'.map = new
    BY <1>0, <2>4, <2>6 DEF M65ViewType
  <2>10. m65User'.regs = m65User.regs /\ m65User'.port = m65User.port
         /\ m65User'.mode = m65User.mode /\ m65User'.dma = m65User.dma
    BY <1>0, <2>4 DEF M65ViewType
  <2>11. m65Saved' = M65Save(m65User')
    BY <2>3, <2>7, <2>8, <2>9, <2>10 DEF M65Save
  <2> QED BY <2>6, <2>9, <2>11
<1> QED BY <1>1, <1>2, <1>3 DEF M65WriteSaved

LEMMA HyppoNext ==
  ASSUME M65Hyppo, M65HyppoInv, [M65Next]_m65Vars
  PROVE  M65HyppoInv'
<1>0. M65Typed /\ M65Typed' /\ M65View \in M65ViewType /\ m65Hyper \in BOOLEAN
  BY M65NextType, ViewTyped DEF M65HyppoInv, M65Typed
<1>1. ASSUME UNCHANGED <<m65Map, m65Hyper, m65User, m65Saved>> PROVE M65HyppoInv'
  BY <1>0, <1>1 DEF M65HyppoInv
<1>2. CASE M65Compute \/ M65WritePort \/ M65SetDma \/ (\E v \in M65Knocks : M65Knock(v)) \/ UNCHANGED m65Vars
  BY <1>1, <1>2 DEF M65Compute, M65WritePort, M65SetDma, M65Knock, m65Vars
<1>3. CASE M65MapInstruction
  <2>1. PICK args \in M65MapArgs : m65Map' = M65MapBy(m65Map, args, m65Hyper)
    BY <1>3 DEF M65MapInstruction
  <2>2. args \in [1 .. 4 -> 0 .. 255] /\ m65Map \in M65MapType
    BY <1>0, M65Assumption DEF M65Typed
  <2>3. M65MapOk(m65Map') /\ (m65Hyper => M65OwnBlocks(m65Map'))
    BY <1>0, <2>1, <2>2, MapByOk DEF M65HyppoInv
  <2> QED BY <1>0, <1>3, <2>3 DEF M65HyppoInv, M65MapInstruction
<1>4. CASE M65Trap
  <2>1. m65Map \in M65MapType /\ M65MapOk(m65Map) /\ M65View.map = m65Map
    BY DEF M65HyppoInv, M65Typed, M65View
  <2>2. M65MapOk(m65Map') /\ M65OwnBlocks(m65Map')
    BY <1>4, <2>1, HyperMapOk DEF M65Trap, M65Enter
  <2> QED
    BY <1>0, <1>4, <2>1, <2>2 DEF M65Trap, M65Enter, M65HyppoInv
<1>5. CASE M65TrapServed
  <2>1. PICK a \in {0}, ok \in BOOLEAN :
          M65Exit(M65Save([M65View EXCEPT !.regs = M65Answered(@, a, ok)]))
    BY <1>5 DEF M65TrapServed
  <2>2. m65Map' = m65Map
    BY <1>0, <2>1, AnsweredView, ExitView DEF M65View
  <2> QED BY <1>0, <2>1, <2>2 DEF M65Exit, M65HyppoInv
<1>6. CASE M65WriteSaved
  BY <1>0, <1>6, WriteSavedKeeps DEF M65HyppoInv, M65WriteSaved
<1>7. CASE M65Return
  BY <1>0, <1>7, ExitView DEF M65HyppoInv, M65Return, M65Exit
<1>8. CASE M65Reset
  <2> DEFINE regs == [a |-> 0, xyz |-> 0, p |-> {"I", "E"}, frame |-> "user"]
             view == [regs |-> regs, map |-> M65NoMap,
                      port |-> [ddr |-> 47, out |-> 55], mode |-> "C64", dma |-> 0]
  <2>1. view \in M65ViewType /\ M65MapOk(view.map)
    BY NoMapType, NoMapOk, ResetTypes DEF M65ViewType, M65Modes
  <2>2. m65User' = view /\ m65Saved' = M65Save(view) /\ m65Map' = M65HyperMap(M65NoMap)
    BY <1>8 DEF M65Reset
  <2> HIDE DEF view
  <2> QED BY <1>0, <2>1, <2>2, NoMapType, NoMapOk, HyperMapOk DEF M65HyppoInv
<1> QED BY <1>2, <1>3, <1>4, <1>5, <1>6, <1>7, <1>8 DEF M65Next

LEMMA HyppoInvariant ==
  ASSUME M65Hyppo PROVE M65Spec => []M65HyppoInv
<1>1. M65Init => M65HyppoInv
  BY NoMapType, NoMapOk, ResetTypes DEF M65Init, M65HyppoInv, M65Typed, M65Modes
<1>2. M65HyppoInv /\ [M65Next]_m65Vars => M65HyppoInv'
  BY HyppoNext
<1> QED BY <1>1, <1>2, PTL DEF M65Spec

\* A trap into HYPPO is transparent, for any MAP instructions of either side,
\* knocks, port writes and DMA setups in any number: when it returns, or when
\* an intercept has served it, the program finds its registers, map, port,
\* personality and DMA list again, but for what was written for it.
THEOREM M65TrapCorrect ==
  ASSUME M65Hyppo PROVE M65Spec => M65TrapTransparent
<1>1. ASSUME M65HyppoInv, [M65Next]_m65Vars
      PROVE  [/\ M65Return => M65View' = m65User
              /\ M65TrapServed => \E a \in {0}, ok \in BOOLEAN :
                    M65View' = [M65View EXCEPT !.regs = M65Answered(@, a, ok)]]_m65Vars
  <2>1. M65Return => M65View' = m65User
    BY <1>1, ExitView DEF M65HyppoInv, M65Return
  <2>2. ASSUME M65TrapServed
        PROVE  \E a \in {0}, ok \in BOOLEAN : M65View' = [M65View EXCEPT !.regs = M65Answered(@, a, ok)]
    <3>1. PICK a \in {0}, ok \in BOOLEAN :
            M65Exit(M65Save([M65View EXCEPT !.regs = M65Answered(@, a, ok)]))
      BY <2>2 DEF M65TrapServed
    <3>2. M65Typed /\ a \in Nat
      BY <1>1 DEF M65HyppoInv
    <3>3. M65View' = [M65View EXCEPT !.regs = M65Answered(@, a, ok)]
      BY <1>1, <3>1, <3>2, AnsweredView, ExitView
    <3> QED BY <3>3
  <2> QED BY <2>1, <2>2
<1> QED BY <1>1, HyppoInvariant, PTL DEF M65Spec, M65TrapTransparent

\* With HYPPO, the memory map stays sound: the hypervisor's window is where DMA
\* and the debugger find it, no offset leads out of its megabyte, and what no
\* ROM answers is read where it is written; and the VIC-III's lock follows the
\* personality.
THEOREM M65MapCorrect ==
  ASSUME M65Hyppo PROVE M65Spec => []M65MapSound
<1>1. ASSUME M65HyppoInv PROVE M65OneMemory
  <2>0. m65Map \in M65MapType /\ M65MapOk(m65Map)
    BY <1>1 DEF M65HyppoInv, M65Typed
  <2>1. ASSUME m65Hyper, m65Map.mbHigh = 4096 * 255, NEW page \in {128, 191}
        PROVE  M65Translate(m65Map, page) = 65528 * 16 + page - 128
    <3>1. /\ page \div 32 \in {4, 5} /\ page \div 32 \in m65Map.en
          /\ m65Map.off[page \div 32] = 3840
      BY <1>1, <2>0, <2>1 DEF M65HyppoInv, M65OwnBlocks, M65MapOk, M65Blocks
    <3> QED BY <2>1, <3>1 DEF M65Translate
  <2>2. ASSUME NEW page \in {0, 127, 255}, page \div 32 \in m65Map.en
        PROVE  M65Translate(m65Map, page) \div 4096 =
                  (IF page < 128 THEN m65Map.mbLow ELSE m65Map.mbHigh) \div 4096
    <3>1. PICK l \in 0 .. 255 : m65Map.mbLow = 4096 * l
      BY <2>0 DEF M65MapOk, M65Megabytes
    <3>2. PICK h \in 0 .. 255 : m65Map.mbHigh = 4096 * h
      BY <2>0 DEF M65MapOk, M65Megabytes
    <3>3. m65Map.off[page \div 32] \in Nat
      BY <2>0, <2>2 DEF M65MapType, M65Blocks
    <3> DEFINE rest == (m65Map.off[page \div 32] + page) % 4096
    <3>4. rest \in 0 .. 4095
      <4>1. m65Map.off[page \div 32] + page \in Nat
        BY <3>3
      <4>2. PICK x \in Nat : x = m65Map.off[page \div 32] + page
        BY <4>1
      <4>3. x % 4096 \in 0 .. 4095
        OBVIOUS
      <4>4. rest = x % 4096
        BY <4>2
      <4> HIDE DEF rest
      <4> QED BY <4>3, <4>4
    <3>5. page \div 32 < 4 <=> page < 128
      OBVIOUS
    <3>6. M65Translate(m65Map, page) = (IF page < 128 THEN 4096 * l ELSE 4096 * h) + rest
      BY <2>2, <3>1, <3>2, <3>5 DEF M65Translate
    <3>7. \A n \in 0 .. 255, r \in 0 .. 4095 : (4096 * n + r) \div 4096 = n /\ (4096 * n) \div 4096 = n
      OBVIOUS
    <3> HIDE DEF rest
    <3> QED BY <3>1, <3>2, <3>4, <3>6, <3>7
  <2>3. ASSUME NEW page, NEW d030, M65ReadFrom(page, d030)[1] # "rom"
        PROVE  M65ReadFrom(page, d030) = M65WriteTo(page)
    <3>1. CASE M65Overlaid(page)
      BY <3>1 DEF M65ReadFrom, M65WriteTo
    <3>2. CASE ~M65Overlaid(page) /\ M65RomAnswers(page, d030)
      BY <2>3, <3>2 DEF M65ReadFrom
    <3>3. CASE ~M65Overlaid(page) /\ ~M65RomAnswers(page, d030)
      BY <3>3 DEF M65ReadFrom, M65WriteTo
    <3> QED BY <3>1, <3>2, <3>3
  <2> QED BY <2>1, <2>2, <2>3 DEF M65OneMemory
<1> QED BY <1>1, HyppoInvariant, M65LockCorrect, PTL DEF M65MapSound

-----------------------------------------------------------------------------
\* Every non-empty set of naturals has a least element.
LEMMA LeastNatural ==
  ASSUME NEW T \in SUBSET Nat, T # {}
  PROVE  \E x \in T : \A y \in T : x <= y
<1>1. PICK x \in T : \A y \in T : ~(<<y, x>> \in OpToRel(<, Nat))
  BY NatLessThanWellFounded, WFMin
<1>2. ASSUME NEW y \in T PROVE ~(y < x)
  BY <1>1 DEF OpToRel
<1> QED BY <1>2

\* What the free descriptor and the new handle are taken from is not empty, so they are in it.
LEMMA FirstIn ==
  ASSUME NEW T \in SUBSET Nat, T # {}
  PROVE  HdosFirst(T) \in T
<1>1. \E x \in T : \A y \in T : x <= y
  BY LeastNatural
<1> QED BY <1>1 DEF HdosFirst

-----------------------------------------------------------------------------
\* HDOS: the types, and how descriptors, handles and the current file belong together.
HdosWords == {"", "root", "file", "sub", "capitals"}
HdosDescriptor == [status : {"closed", "file", "dir"}, handle : Nat]
HdosRecord ==
    [cwd : HdosWords, name : HdosWords, override : HdosWords, found : {<<>>} \cup (HdosWords \X HdosWords),
     current : HdosIndices \cup {-1}, error : Nat, descs : [HdosIndices -> HdosDescriptor]]

HdosOpen == {i \in HdosIndices : hdos.descs[i].status # "closed"}

\* The open descriptors and the host's handles correspond one to one.
HdosPaired ==
    /\ \A i \in HdosOpen : hdos.descs[i].handle \in DOMAIN hdosLive
    /\ \A h \in DOMAIN hdosLive : \E i \in HdosOpen : hdos.descs[i].handle = h
    /\ \A i, j \in HdosOpen : hdos.descs[i].handle = hdos.descs[j].handle => i = j
    /\ DOMAIN hdosLive \subseteq 1 .. HdosDescs + 1

\* The current descriptor is the file opened last.
HdosTracked ==
    IF hdos.current = -1 THEN hdosOpened = 0
    ELSE /\ hdos.descs[hdos.current].status = "file"
         /\ hdosOpened = hdos.descs[hdos.current].handle

HdosInv == hdos \in HdosRecord /\ HdosPaired /\ HdosTracked

\* As many handles are open as descriptors.
LEMMA HdosSameNumber ==
  ASSUME HdosInv
  PROVE  /\ IsFiniteSet(HdosOpen) /\ Cardinality(HdosOpen) <= HdosDescs
         /\ Cardinality(HdosOpen) = Cardinality(DOMAIN hdosLive)
         /\ IsFiniteSet(DOMAIN hdosLive)
<1> USE HdosAssumption
<1>1. IsFiniteSet(HdosIndices) /\ Cardinality(HdosIndices) = HdosDescs
  BY FS_Interval DEF HdosIndices
<1>2. IsFiniteSet(HdosOpen) /\ Cardinality(HdosOpen) <= HdosDescs
  BY <1>1, FS_Subset DEF HdosOpen
<1> DEFINE f == [i \in HdosOpen |-> hdos.descs[i].handle]
<1>3. f \in Bijection(HdosOpen, DOMAIN hdosLive)
  <2>1. f \in [HdosOpen -> DOMAIN hdosLive]
    BY DEF HdosInv, HdosPaired
  <2>2. \A i, j \in HdosOpen : f[i] = f[j] => i = j
    BY DEF HdosInv, HdosPaired
  <2>3. \A h \in DOMAIN hdosLive : \E i \in HdosOpen : f[i] = h
    BY DEF HdosInv, HdosPaired
  <2> QED
    BY <2>1, <2>2, <2>3 DEF Bijection, Injection, Surjection, IsInjective
<1>4. ExistsBijection(HdosOpen, DOMAIN hdosLive)
  BY <1>3 DEF ExistsBijection
<1> QED
  BY <1>2, <1>4, FS_Bijection

\* A handle is free whenever the host is asked for one.
LEMMA HdosFreshHandle ==
  ASSUME HdosInv
  PROVE  HdosNewHandle \in 1 .. HdosDescs + 1 /\ HdosNewHandle \notin DOMAIN hdosLive
<1> USE HdosAssumption
<1> DEFINE T == (1 .. HdosDescs + 1) \ DOMAIN hdosLive
<1>1. T # {}
  <2>1. SUFFICES ASSUME T = {} PROVE FALSE
    OBVIOUS
  <2>2. DOMAIN hdosLive = 1 .. HdosDescs + 1
    BY <2>1 DEF HdosInv, HdosPaired
  <2>3. Cardinality(1 .. HdosDescs + 1) = HdosDescs + 1
    BY FS_Interval
  <2>4. Cardinality(DOMAIN hdosLive) <= HdosDescs
    BY HdosSameNumber
  <2> QED BY <2>2, <2>3, <2>4
<1>2. HdosFirst(T) \in T
  <2>1. T \in SUBSET Nat
    OBVIOUS
  <2> QED BY <1>1, <2>1, FirstIn
<1> QED
  BY <1>2 DEF HdosNewHandle

\* A call that leaves the descriptors and the set of open handles alone.
LEMMA HdosKept ==
  ASSUME HdosInv, hdos' \in HdosRecord, hdos'.descs = hdos.descs, hdos'.current = hdos.current,
         DOMAIN hdosLive' = DOMAIN hdosLive, hdosOpened' = hdosOpened
  PROVE  HdosInv'
BY DEF HdosInv, HdosPaired, HdosTracked, HdosOpen

\* A refused call only notes its error.
LEMMA HdosRefuseInv ==
  ASSUME HdosInv, NEW e \in DOMAIN HdosErrors, HdosRefuse(e)
  PROVE  HdosInv'
<1>1. HdosErrors[e] \in Nat
  BY DEF HdosErrors
<1>2. hdos' \in HdosRecord /\ hdos'.descs = hdos.descs /\ hdos'.current = hdos.current
  BY <1>1 DEF HdosRefuse, HdosInv, HdosRecord
<1> QED
  BY <1>2, HdosKept DEF HdosRefuse

\* A descriptor that was closed is given a handle that was not open.
LEMMA HdosGivenInv ==
  ASSUME HdosInv, HdosFree # {}, NEW status \in {"file", "dir"}, NEW v,
         NEW i, i = HdosFirst(HdosFree),
         HdosServe(i, HdosGiven(i, status, HdosNewHandle, IF status = "file" THEN i ELSE hdos.current)),
         hdosLive' = HdosWith(hdosLive, HdosNewHandle, v),
         hdosOpened' = IF status = "file" THEN HdosNewHandle ELSE hdosOpened
  PROVE  HdosInv'
<1> USE HdosAssumption
<1>0. hdos.descs \in [HdosIndices -> HdosDescriptor] /\ hdos.current \in HdosIndices \cup {-1}
  BY DEF HdosInv, HdosRecord
<1>1. i \in HdosFree
  <2>1. HdosFree \in SUBSET Nat
    BY DEF HdosFree, HdosIndices
  <2> QED BY <2>1, FirstIn
<1>2. PICK h \in 1 .. HdosDescs + 1 : h = HdosNewHandle /\ h \notin DOMAIN hdosLive
  BY HdosFreshHandle
<1>3. PICK c \in HdosIndices \cup {-1} : c = IF status = "file" THEN i ELSE hdos.current
  <2>1. i \in HdosIndices \cup {-1}
    BY <1>1 DEF HdosFree, HdosIndices
  <2> QED BY <1>0, <2>1
<1>4. hdos' = [hdos EXCEPT !.descs = [@ EXCEPT ![i] = [status |-> status, handle |-> h]], !.current = c, !.error = 0]
  BY <1>2, <1>3 DEF HdosServe, HdosGiven, HdosInv, HdosRecord
<1> DEFINE d == [hdos.descs EXCEPT ![i] = [status |-> status, handle |-> h]]
<1>5. d \in [HdosIndices -> HdosDescriptor]
  <2>1. [status |-> status, handle |-> h] \in HdosDescriptor
    BY <1>2 DEF HdosDescriptor
  <2> QED BY <1>0, <2>1
<1>6. hdos' \in HdosRecord /\ hdos'.descs = d /\ hdos'.current = c
  BY <1>4, <1>5 DEF HdosInv, HdosRecord
<1>7. i \in HdosIndices /\ hdos.descs[i].status = "closed"
  BY <1>1 DEF HdosFree
<1>8. d[i] = [status |-> status, handle |-> h] /\ \A j \in HdosIndices : j # i => d[j] = hdos.descs[j]
  BY <1>7 DEF HdosInv, HdosRecord
<1> HIDE DEF d
<1>9. HdosOpen' = HdosOpen \cup {i} /\ i \notin HdosOpen
  BY <1>6, <1>7, <1>8 DEF HdosOpen
<1>10. DOMAIN hdosLive' = DOMAIN hdosLive \cup {h}
  BY <1>2 DEF HdosWith
<1>11. HdosPaired'
  BY <1>2, <1>6, <1>8, <1>9, <1>10 DEF HdosInv, HdosPaired, HdosOpen
<1>12. HdosTracked'
  BY <1>2, <1>3, <1>6, <1>7, <1>8 DEF HdosInv, HdosTracked, HdosRecord, HdosIndices
<1> QED BY <1>6, <1>11, <1>12 DEF HdosInv

\* closefile and closedir give back the handle of their descriptor and no other.
LEMMA HdosCloseInv ==
  ASSUME HdosInv, NEW x \in 0 .. HdosDescs, HdosClose(x)
  PROVE  HdosInv'
<1> USE HdosAssumption
<1>1. CASE x \notin HdosIndices \/ hdos.descs[x].status = "closed"
  BY <1>1, HdosRefuseInv DEF HdosClose, HdosErrors
<1>2. CASE x \in HdosIndices /\ hdos.descs[x].status # "closed"
  <2> DEFINE d == [hdos.descs EXCEPT ![x] = HdosClosed]
             c == IF hdos.current = x THEN -1 ELSE hdos.current
  <2>1. d \in [HdosIndices -> HdosDescriptor] /\ c \in HdosIndices \cup {-1}
    <3>1. hdos.descs \in [HdosIndices -> HdosDescriptor] /\ hdos.current \in HdosIndices \cup {-1}
      BY DEF HdosInv, HdosRecord
    <3>2. HdosClosed \in HdosDescriptor
      BY DEF HdosDescriptor, HdosClosed
    <3>3. c \in HdosIndices \cup {-1}
      BY <3>1
    <3>4. d \in [HdosIndices -> HdosDescriptor]
      BY <3>1, <3>2
    <3> QED BY <3>3, <3>4
  <2>2. hdos' = [hdos EXCEPT !.descs = d, !.current = c, !.error = 0]
    BY <1>2 DEF HdosClose, HdosServe, HdosInv, HdosRecord
  <2>3. hdos' \in HdosRecord /\ hdos'.descs = d /\ hdos'.current = c
    BY <2>1, <2>2 DEF HdosInv, HdosRecord
  <2>4. d[x].status = "closed" /\ \A j \in HdosIndices : j # x => d[j] = hdos.descs[j]
    BY <1>2 DEF HdosInv, HdosRecord, HdosClosed
  <2> HIDE DEF d
  <2>5. HdosOpen' = HdosOpen \ {x} /\ x \in HdosOpen
    BY <1>2, <2>3, <2>4 DEF HdosOpen
  <2>6. DOMAIN hdosLive' = DOMAIN hdosLive \ {hdos.descs[x].handle}
    BY <1>2 DEF HdosClose, HdosCloseHandle
  <2>7. HdosPaired'
    <3>1. \A i \in HdosOpen' : i \in HdosOpen /\ i # x /\ hdos'.descs[i] = hdos.descs[i]
      BY <2>3, <2>4, <2>5 DEF HdosOpen
    <3>2. \A i \in HdosOpen' : hdos'.descs[i].handle \in DOMAIN hdosLive'
      BY <2>5, <2>6, <3>1 DEF HdosInv, HdosPaired
    <3>3. \A h \in DOMAIN hdosLive' : \E i \in HdosOpen' : hdos'.descs[i].handle = h
      <4> TAKE h \in DOMAIN hdosLive'
      <4>1. PICK i \in HdosOpen : hdos.descs[i].handle = h
        BY <2>6 DEF HdosInv, HdosPaired
      <4>2. i \in HdosOpen'
        BY <2>5, <2>6, <4>1
      <4> QED BY <3>1, <4>1, <4>2
    <3>4. \A i, j \in HdosOpen' : hdos'.descs[i].handle = hdos'.descs[j].handle => i = j
      BY <3>1 DEF HdosInv, HdosPaired
    <3> QED BY <2>6, <3>2, <3>3, <3>4 DEF HdosInv, HdosPaired
  <2>8. HdosTracked'
    <3>1. hdosOpened' = IF hdosOpened = hdos.descs[x].handle THEN 0 ELSE hdosOpened
      BY <1>2 DEF HdosClose
    <3>2. hdos.current # -1 => hdos.current \in HdosOpen
      BY DEF HdosInv, HdosTracked, HdosOpen, HdosRecord, HdosIndices
    <3> QED
      BY <2>3, <2>4, <2>5, <3>1, <3>2 DEF HdosInv, HdosTracked, HdosPaired, HdosIndices, HdosOpen
  <2> QED BY <2>3, <2>7, <2>8 DEF HdosInv
<1> QED BY <1>1, <1>2

\* closeall gives back every handle: each belongs to a descriptor.
LEMMA HdosCloseAllInv ==
  ASSUME HdosInv, HdosCloseAll
  PROVE  HdosInv'
<1> USE HdosAssumption
<1>1. hdos' \in HdosRecord /\ hdos'.current = -1 /\ HdosOpen' = {}
  <2> DEFINE d == [i \in HdosIndices |-> HdosClosed]
  <2>1. d \in [HdosIndices -> HdosDescriptor] /\ \A i \in HdosIndices : d[i].status = "closed"
    BY DEF HdosDescriptor, HdosClosed
  <2> HIDE DEF d
  <2>2. hdos' = [hdos EXCEPT !.descs = d, !.current = -1, !.error = 0]
    BY DEF HdosCloseAll, HdosServe, HdosInv, HdosRecord, d
  <2>3. hdos' \in HdosRecord /\ hdos'.descs = d /\ hdos'.current = -1
    BY <2>1, <2>2 DEF HdosInv, HdosRecord
  <2> QED BY <2>1, <2>3 DEF HdosOpen
<1>2. DOMAIN hdosLive' = {}
  BY DEF HdosCloseAll, HdosCloseHandle, HdosInv, HdosPaired, HdosOpen
<1> QED
  BY <1>1, <1>2 DEF HdosCloseAll, HdosInv, HdosPaired, HdosTracked

\* Every HDOS call keeps the descriptors and the host's handles paired.
LEMMA HdosNextInv ==
  ASSUME HdosInv, [HdosNext]_hdosVars
  PROVE  HdosInv'
<1> USE HdosAssumption
<1>1. CASE UNCHANGED hdosVars
  BY <1>1, HdosKept DEF hdosVars, HdosInv
<1>2. ASSUME NEW e \in DOMAIN HdosErrors, HdosRefuse(e) PROVE HdosInv'
  BY <1>2, HdosRefuseInv
<1>3. CASE HdosSetName
  <2>1. PICK n \in HdosWords : hdos' = [hdos EXCEPT !.name = n]
    BY <1>3 DEF HdosSetName, HdosNames, HdosWords
  <2> QED BY <1>3, <2>1, HdosKept DEF HdosSetName, HdosInv, HdosRecord
<1>4. CASE HdosFindFile
  <2>1. CASE HdosRefuse("notFound")
    BY <1>2, <2>1 DEF HdosErrors
  <2>2. CASE hdos' = [hdos EXCEPT !.found = <<hdos.cwd, HdosRequested>>, !.error = 0]
             /\ UNCHANGED <<hdosLive, hdosOpened>>
    <3>1. HdosRequested \in HdosWords /\ hdos.cwd \in HdosWords
      BY DEF HdosRequested, HdosInv, HdosRecord
    <3>2. PICK p \in HdosWords \X HdosWords : p = <<hdos.cwd, HdosRequested>>
      BY <3>1
    <3> QED
      BY <2>2, <3>2, HdosKept DEF HdosInv, HdosRecord
  <2> QED
    BY <1>4, <2>1, <2>2 DEF HdosFindFile, HdosServe, HdosInv, HdosRecord
<1>5. CASE HdosOpenFile
  <2>1. CASE HdosRefuse("notFound") \/ HdosRefuse("tooMany")
    BY <1>2, <2>1 DEF HdosErrors
  <2>2. CASE ~(HdosRefuse("notFound") \/ HdosRefuse("tooMany"))
    BY <1>5, <2>2, HdosGivenInv DEF HdosOpenFile
  <2> QED BY <2>1, <2>2
<1>6. CASE HdosOpenDir
  <2>1. CASE HdosRefuse("cannotOpen") \/ HdosRefuse("tooMany")
    BY <1>2, <2>1 DEF HdosErrors
  <2>2. CASE ~(HdosRefuse("cannotOpen") \/ HdosRefuse("tooMany"))
    BY <1>6, <2>2, HdosGivenInv DEF HdosOpenDir
  <2> QED BY <2>1, <2>2
<1>7. CASE HdosReadFile
  <2>1. CASE HdosRefuse("invalid") \/ HdosRefuse("readError")
    BY <1>2, <2>1 DEF HdosErrors
  <2>2. CASE hdos' = [hdos EXCEPT !.error = 0] /\ UNCHANGED hdosOpened /\ DOMAIN hdosLive' = DOMAIN hdosLive
    BY <2>2, HdosKept DEF HdosInv, HdosRecord
  <2> QED BY <1>7, <2>1, <2>2 DEF HdosReadFile
<1>8. ASSUME NEW x \in 0 .. HdosDescs, HdosReadDir(x) PROVE HdosInv'
  <2>1. CASE HdosRefuse("invalid")
    BY <1>2, <2>1 DEF HdosErrors
  <2>2. CASE hdos' = [hdos EXCEPT !.error = 0] /\ UNCHANGED hdosOpened /\ DOMAIN hdosLive' = DOMAIN hdosLive
    BY <2>2, HdosKept DEF HdosInv, HdosRecord
  <2> QED BY <1>1, <1>8, <2>1, <2>2 DEF HdosReadDir, HdosServe
<1>9. CASE HdosLoadFile
  <2>1. CASE HdosRefuse("notFound")
    BY <1>2, <2>1 DEF HdosErrors
  <2>2. CASE hdos' = [hdos EXCEPT !.error = 0] /\ UNCHANGED <<hdosLive, hdosOpened>>
    BY <2>2, HdosKept DEF HdosInv, HdosRecord
  <2> QED BY <1>9, <2>1, <2>2 DEF HdosLoadFile, HdosServe
<1>10. CASE HdosCd \/ HdosCdRoot
  <2>1. CASE HdosRefuse("notFound")
    BY <1>2, <2>1 DEF HdosErrors
  <2>2. ASSUME NEW w \in HdosWords, hdos' = [hdos EXCEPT !.cwd = w, !.error = 0], UNCHANGED <<hdosLive, hdosOpened>>
        PROVE  HdosInv'
    BY <2>2, HdosKept DEF HdosInv, HdosRecord
  <2>3. HdosServe(0, [hdos EXCEPT !.cwd = "sub"]) => hdos' = [hdos EXCEPT !.cwd = "sub", !.error = 0]
    BY DEF HdosServe, HdosInv, HdosRecord
  <2>4. HdosServe(0, [hdos EXCEPT !.cwd = HdosRoot]) => hdos' = [hdos EXCEPT !.cwd = "root", !.error = 0]
    BY DEF HdosServe, HdosInv, HdosRecord, HdosRoot
  <2> QED BY <1>10, <2>1, <2>2, <2>3, <2>4 DEF HdosCd, HdosCdRoot, HdosWords
<1>11. ASSUME NEW x \in 0 .. HdosDescs, HdosSelectDrive(x) PROVE HdosInv'
  BY <1>1, <1>2, <1>11 DEF HdosSelectDrive, HdosReplyOnly, HdosErrors
<1>12. CASE HdosSetOverride
  <2>1. PICK n \in HdosWords : hdos' = [hdos EXCEPT !.override = n]
    BY <1>12 DEF HdosSetOverride, HdosWords, HdosInv, HdosRecord
  <2> QED BY <1>12, <2>1, HdosKept DEF HdosSetOverride, HdosInv, HdosRecord
<1> QED
  BY <1>1, <1>3, <1>4, <1>5, <1>6, <1>7, <1>8, <1>9, <1>10, <1>11, <1>12, HdosCloseInv, HdosCloseAllInv
     DEF HdosNext, HdosGetDrive, HdosDiskSize, HdosLastError, HdosReplyOnly

\* For any number of descriptors: however a program opens, reads and closes files and
\* folders, every descriptor has an open host handle of its own, none is leaked, and
\* readfile reads the file opened last.
THEOREM HdosFilesCorrect == HdosSpec => []HdosFilesRight
<1>1. HdosInit => HdosInv
  <2> SUFFICES ASSUME HdosInit PROVE HdosInv
    OBVIOUS
  <2> DEFINE d == [i \in HdosIndices |-> HdosClosed]
  <2>1. d \in [HdosIndices -> HdosDescriptor] /\ \A i \in HdosIndices : d[i].status = "closed"
    BY DEF HdosDescriptor, HdosClosed
  <2>2. hdos = [cwd |-> "root", name |-> "", override |-> "", found |-> <<>>, current |-> -1, error |-> 0,
                descs |-> d] /\ hdosLive = [h \in {} |-> 0] /\ hdosOpened = 0
    BY DEF HdosInit, HdosRoot
  <2> HIDE DEF d
  <2>3. hdos \in HdosRecord
    <3> DEFINE F == {<<>>} \cup (HdosWords \X HdosWords)
    <3>1. <<>> \in F
      OBVIOUS
    <3> HIDE DEF F
    <3>2. hdos \in [cwd : HdosWords, name : HdosWords, override : HdosWords, found : F,
                    current : HdosIndices \cup {-1}, error : Nat, descs : [HdosIndices -> HdosDescriptor]]
      BY <2>1, <2>2, <3>1 DEF HdosWords
    <3> QED BY <3>2 DEF HdosRecord, F
  <2>4. HdosOpen = {}
    BY <2>1, <2>2 DEF HdosOpen
  <2>5. DOMAIN hdosLive = {}
    BY <2>2
  <2> QED BY <2>2, <2>3, <2>4, <2>5 DEF HdosInv, HdosPaired, HdosTracked
<1>2. HdosInv /\ [HdosNext]_hdosVars => HdosInv'
  BY HdosNextInv
<1>3. HdosInv => HdosFilesRight
  <2> SUFFICES ASSUME HdosInv PROVE HdosHandlesMatch /\ HdosReadsLastOpened
    BY DEF HdosFilesRight
  <2>1. {hdos.descs[i].handle : i \in HdosOpen} = DOMAIN hdosLive
    <3> DEFINE H == {hdos.descs[i].handle : i \in HdosOpen}
    <3>1. \A h \in H : h \in DOMAIN hdosLive
      BY DEF HdosInv, HdosPaired
    <3>2. \A h \in DOMAIN hdosLive : h \in H
      BY DEF HdosInv, HdosPaired
    <3> QED BY <3>1, <3>2
  <2>2. HdosHandlesMatch
    BY <2>1, HdosSameNumber DEF HdosHandlesMatch, HdosOpen
  <2>3. HdosReadsLastOpened
    BY HdosAssumption DEF HdosReadsLastOpened, HdosInv, HdosTracked, HdosRecord
  <2> QED BY <2>2, <2>3
<1> QED BY <1>1, <1>2, <1>3, PTL DEF HdosSpec
=============================================================================
