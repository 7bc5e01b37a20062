--------------------------- MODULE Interrupts6502 ---------------------------
(***************************************************************************)
(* The interrupt logic of MOS6502::step (plugins/6502/main/cpu6502.cpp)    *)
(* composed with the chips and the wired-OR managers.  One scheduler step  *)
(* is a CPU step, during which the program may access a chip, followed by  *)
(* IORegistry::tickAll; resets happen between scheduler steps.  The        *)
(* instruction stream is the environment: any instruction may come next.   *)
(***************************************************************************)
EXTENDS IrqSources

VARIABLES
  cpu,      \* the CPU6502State fields the interrupt logic uses
  phase,    \* "cpu": the CPU steps next, "tick": the chips tick next
  nmiEdge   \* history: the NMI pin rose since the last NMI was taken

vars == << pending, enabled, lastIrq, irq, nmi, cpu, phase, nmiEdge >>

CpuState == [nmiPrev : BOOLEAN, I : BOOLEAN, waiting : BOOLEAN,
             stopped : BOOLEAN, halted : BOOLEAN]

TypeOK ==
  /\ SourcesTypeOK
  /\ cpu \in CpuState
  /\ phase \in {"cpu", "tick"}
  /\ nmiEdge \in BOOLEAN

\* MOS6502::reset(): the I flag is set and the CPU runs.
ResetCpu == [nmiPrev |-> FALSE, I |-> TRUE, waiting |-> FALSE,
             stopped |-> FALSE, halted |-> FALSE]

Init ==
  /\ SourcesInit
  /\ cpu = ResetCpu
  /\ phase = "cpu"
  /\ nmiEdge = FALSE

\* The history variable follows the pin: set on a rising edge.
TrackEdge == nmiEdge' = (nmiEdge \/ (~nmi.pin /\ nmi'.pin))

NmiSeen == nmi.pin /\ ~cpu.nmiPrev
IrqSeen == irq.pin /\ ~cpu.I

\* WAI ends when a pin is seen, masked or not.
Wakes == irq.pin \/ NmiSeen

\* haltLine, STP, or WAI without an interrupt: one cycle passes.
Idles == cpu.halted \/ cpu.stopped \/ (cpu.waiting /\ ~Wakes)

StepIdle ==
  /\ phase = "cpu" /\ Idles
  /\ phase' = "tick"
  /\ UNCHANGED << sourceVars, cpu, nmiEdge >>

\* Faulty: nmiPrev is not updated when the NMI is taken.
TakeNmiNoLatch ==
  /\ phase = "cpu" /\ ~Idles /\ NmiSeen
  /\ cpu' = [cpu EXCEPT !.waiting = FALSE, !.I = TRUE]
  /\ nmiEdge' = FALSE
  /\ phase' = "tick"
  /\ UNCHANGED sourceVars

\* The edge is latched, the return frame pushed, and interrupts masked.
TakeNmi ==
  /\ phase = "cpu" /\ ~Idles /\ NmiSeen
  /\ cpu' = [cpu EXCEPT !.waiting = FALSE, !.nmiPrev = TRUE, !.I = TRUE]
  /\ nmiEdge' = FALSE
  /\ phase' = "tick"
  /\ UNCHANGED sourceVars

TakeIrq ==
  /\ phase = "cpu" /\ ~Idles /\ ~NmiSeen /\ IrqSeen
  /\ cpu' = [cpu EXCEPT !.waiting = FALSE, !.nmiPrev = nmi.pin, !.I = TRUE]
  /\ phase' = "tick"
  /\ UNCHANGED << sourceVars, nmiEdge >>

\* The CPU's registers when an instruction starts.
Fetched == [cpu EXCEPT !.waiting = FALSE, !.nmiPrev = nmi.pin]

ExecutesInstruction ==
  /\ phase = "cpu" /\ ~Idles /\ ~NmiSeen /\ ~IrqSeen
  /\ phase' = "tick"

\* CLI, SEI, PLP, RTI and BRK load the I flag; every other instruction that
\* touches none of this state keeps it.
ExecuteFlags ==
  /\ ExecutesInstruction
  /\ \E i \in BOOLEAN : cpu' = [Fetched EXCEPT !.I = i]
  /\ UNCHANGED << sourceVars, nmiEdge >>

\* The 65C02's WAI and STP.
ExecuteWait ==
  /\ ExecutesInstruction
  /\ cpu' \in {[Fetched EXCEPT !.waiting = TRUE], [Fetched EXCEPT !.stopped = TRUE]}
  /\ UNCHANGED << sourceVars, nmiEdge >>

\* A load or store that reaches a chip register.
ExecuteAccess ==
  /\ ExecutesInstruction
  /\ cpu' = Fetched
  /\ \E s \in Sources :
       \/ Acknowledge(s)
       \/ \E on \in BOOLEAN : SetMask(s, on)
  /\ TrackEdge

\* tickAll after the CPU step; a chip such as ANTIC may hold or release the
\* CPU's halt line while it ticks.
Tick ==
  /\ phase = "tick"
  /\ \E R \in SUBSET Sources : TickAll(R)
  /\ \E h \in BOOLEAN : cpu' = [cpu EXCEPT !.halted = h]
  /\ TrackEdge
  /\ phase' = "cpu"

\* MachineDescriptor::onReset, between two scheduler steps.
MachineReset ==
  /\ phase = "cpu"
  /\ ResetSources
  /\ cpu' = ResetCpu
  /\ nmiEdge' = FALSE
  /\ UNCHANGED phase

CpuStep == StepIdle \/ TakeNmi \/ TakeIrq \/ ExecuteFlags \/ ExecuteWait \/ ExecuteAccess

Next == CpuStep \/ Tick \/ MachineReset

Spec == Init /\ [][Next]_vars

\* The scheduler loop keeps running: both halves of it are taken for ever.
FairSpec == Spec /\ WF_vars(CpuStep) /\ WF_vars(Tick)

-----------------------------------------------------------------------------
\* No spurious or repeated NMI (step's "nmiLine && !nmiPrev" edge detector):
\* the CPU is about to take an NMI only if the pin really rose since the last
\* one; a source that holds the line down is served once.
NmiOncePerEdge == NmiSeen => nmiEdge

\* An interrupt is never lost between a chip and the CPU: a chip that asserts
\* IRQ gets the CPU into the handler (I set), unless the program acknowledges
\* or masks it first, or the CPU is stopped or held.
IrqServed ==
  \A s \in IrqSources :
    Asserts(s) ~> (cpu.I \/ ~Asserts(s) \/ cpu.stopped \/ cpu.halted)
=============================================================================
