-------------------------- MODULE Interrupts45GS02 --------------------------
(***************************************************************************)
(* The interrupt logic of MOS45GS02::step (plugins/45gs02/main/            *)
(* cpu45gs02.cpp) in the MEGA65: CIA1 and the VIC-IV on IRQ, CIA2 and the  *)
(* RESTORE key on NMI.  RESTORE calls pulse() on its line instead of       *)
(* set(), and MAP defers interrupts until EOM.                             *)
(***************************************************************************)
EXTENDS IrqSources

VARIABLES
  cpu,      \* the CPU45GS02State fields the interrupt logic uses
  phase,    \* "cpu": the CPU steps next, "tick": the chips tick next
  nmiEdge   \* history: an NMI edge or pulse since the last NMI was taken

gsVars == << pending, enabled, lastIrq, irq, nmi, cpu, phase, nmiEdge >>

CpuState == [nmiPrev : BOOLEAN, I : BOOLEAN, inhibit : BOOLEAN, halted : BOOLEAN]

GsTypeOK ==
  /\ SourcesTypeOK
  /\ cpu \in CpuState
  /\ phase \in {"cpu", "tick"}
  /\ nmiEdge \in BOOLEAN

\* MOS45GS02::reset()
ResetCpu == [nmiPrev |-> FALSE, I |-> TRUE, inhibit |-> FALSE, halted |-> FALSE]

GsInit ==
  /\ SourcesInit
  /\ cpu = ResetCpu
  /\ phase = "cpu"
  /\ nmiEdge = FALSE

TrackEdge == nmiEdge' = (nmiEdge \/ (~nmi.pin /\ nmi'.pin))

NmiSeen == nmi.pin /\ ~cpu.nmiPrev
TakesNmi == ~cpu.halted /\ NmiSeen /\ ~cpu.inhibit
TakesIrq == ~cpu.halted /\ ~TakesNmi /\ irq.pin /\ ~cpu.I /\ ~cpu.inhibit

\* A DMA transfer holds the bus: step() returns before it looks at a pin.
StepHalted ==
  /\ phase = "cpu" /\ cpu.halted
  /\ phase' = "tick"
  /\ UNCHANGED << sourceVars, cpu, nmiEdge >>

\* Faulty: the edge detector is left as it was.
TakeNmiNoLatch ==
  /\ phase = "cpu" /\ TakesNmi
  /\ cpu' = [cpu EXCEPT !.I = TRUE]
  /\ nmiEdge' = FALSE
  /\ phase' = "tick"
  /\ UNCHANGED sourceVars

\* The edge is latched, the return frame pushed, and interrupts masked.
TakeNmi ==
  /\ phase = "cpu" /\ TakesNmi
  /\ cpu' = [cpu EXCEPT !.nmiPrev = TRUE, !.I = TRUE]
  /\ nmiEdge' = FALSE
  /\ phase' = "tick"
  /\ UNCHANGED sourceVars

TakeIrq ==
  /\ phase = "cpu" /\ TakesIrq
  /\ cpu' = [cpu EXCEPT !.nmiPrev = nmi.pin, !.I = TRUE]
  /\ phase' = "tick"
  /\ UNCHANGED << sourceVars, nmiEdge >>

\* "nmiPrev = nmiLine" runs on every step that takes no NMI, also while MAP
\* inhibits interrupts.
Fetched == [cpu EXCEPT !.nmiPrev = nmi.pin]

ExecutesInstruction ==
  /\ phase = "cpu" /\ ~cpu.halted /\ ~TakesNmi /\ ~TakesIrq
  /\ phase' = "tick"

\* CLI, SEI, PLP, RTI, BRK load the I flag; others keep it.
ExecuteFlags ==
  /\ ExecutesInstruction
  /\ \E i \in BOOLEAN : cpu' = [Fetched EXCEPT !.I = i]
  /\ UNCHANGED << sourceVars, nmiEdge >>

\* MAP ($5C) inhibits interrupts, EOM ($EA) ends that.
ExecuteMap ==
  /\ ExecutesInstruction
  /\ \E on \in BOOLEAN : cpu' = [Fetched EXCEPT !.inhibit = on]
  /\ UNCHANGED << sourceVars, nmiEdge >>

\* A load or store that reaches a chip register.
ExecuteAccess ==
  /\ ExecutesInstruction
  /\ cpu' = Fetched
  /\ \E s \in Sources :
       \/ Acknowledge(s)
       \/ \E on \in BOOLEAN : SetMask(s, on)
  /\ TrackEdge

\* advance(): the chips tick; a DMA controller may start or end a transfer.
GsTick ==
  /\ phase = "tick"
  /\ \E R \in SUBSET Sources : TickAll(R)
  /\ \E h \in BOOLEAN : cpu' = [cpu EXCEPT !.halted = h]
  /\ TrackEdge
  /\ phase' = "cpu"

\* KbdMega65::pressKeyByName("RESTORE", true): pulse() -> triggerNmi(), which
\* raises the pin and neither lowers it again nor re-arms the edge detector.
PressRestore ==
  /\ phase = "cpu"
  /\ nmi' = PulsePin(nmi)
  /\ nmiEdge' = TRUE
  /\ UNCHANGED << pending, enabled, lastIrq, irq, cpu, phase >>

\* onReset: the chips reset, then the CPU.
MachineReset ==
  /\ phase = "cpu"
  /\ ResetSources
  /\ cpu' = ResetCpu
  /\ nmiEdge' = FALSE
  /\ UNCHANGED phase

CpuStep == StepHalted \/ TakeNmi \/ TakeIrq \/ ExecuteFlags \/ ExecuteMap \/ ExecuteAccess

GsNext == CpuStep \/ GsTick \/ PressRestore \/ MachineReset

GsSpec == GsInit /\ [][GsNext]_gsVars

\* The scheduler loop runs for ever.
GsFairSpec == GsSpec /\ WF_gsVars(CpuStep) /\ WF_gsVars(GsTick)

-----------------------------------------------------------------------------
\* The IRQ pin is the OR of its lines; only the NMI pin is pulsed.
IrqIsWiredOr == WiredOr(irq)

\* No NMI is taken without an edge of the pin or a press of RESTORE since the
\* last one ("edge-sensitive: triggers on 0->1 transition").
GsNmiOncePerEdge == NmiSeen => nmiEdge

\* A chip that asserts IRQ gets the CPU into its handler, unless the program
\* acknowledges or masks it first, holds interrupts off with MAP, or a DMA
\* transfer holds the CPU.
GsIrqServed ==
  \A s \in IrqSources :
    Asserts(s) ~> (cpu.I \/ ~Asserts(s) \/ cpu.inhibit \/ cpu.halted)
=============================================================================
