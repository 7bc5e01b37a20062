------------------------------ MODULE IrqSources ------------------------------
(***************************************************************************)
(* The interrupt-raising chips of a machine and the two wired-OR managers  *)
(* they are wired to: the part that every machine built by                 *)
(* json_machine_loader.cpp has in common, whatever its CPU.                *)
(*                                                                         *)
(* A source is one interrupt output of a chip (a CIA's, a VIA's, one side  *)
(* of a PIA).  Of its registers only what decides the output is kept:      *)
(*   pending  : some enabled-able flag of the chip is set                  *)
(*   enabled  : the chip's mask lets the flag through                      *)
(*   lastIrq  : m_lastIrq, the level the chip believes it last drove       *)
(* VIA and PIA compare with m_lastIrq and call set() only on a change; CIA *)
(* and VIC call set() on every update (EagerChips).  CIA, VIC and VIA      *)
(* drive the line low in reset(); the PIA's reset() does not (SilentReset).*)
(* The chips' own registers are the subject of VIA6522, PIA6520, CIA6526.  *)
(***************************************************************************)

-----------------------------------------------------------------------------
(***************************************************************************)
(* The wired-OR interrupt managers, SharedIrqManager and SharedNmiManager  *)
(* (src/libdevices/main/shared_irq_manager.h).  Both have the same logic   *)
(* and differ only in the CPU pin they drive.  A manager is the pair of    *)
(*   state : the set of device lines whose bit is set in m_state; a line's *)
(*           own m_level is written together with its bit and is the same  *)
(*           fact;                                                         *)
(*   pin   : the CPU's irqLine / nmiLine, as the manager, pulse() or the   *)
(*           CPU's own reset last left it.                                 *)
(* The manager only calls the CPU when the OR of its lines changes, so     *)
(* state and pin are two separate pieces of state that can disagree.       *)
(***************************************************************************)

Manager(Lines) == [state : SUBSET Lines, pin : BOOLEAN]

\* A freshly built manager in front of a CPU that has just been reset.
Idle == [state |-> {}, pin |-> FALSE]

\* m_state becomes state; setIrqLine / setNmiLine is called only when the OR
\* of the bits changes.
Drive(m, state) ==
  [state |-> state,
   pin   |-> IF (m.state # {}) # (state # {}) THEN state # {} ELSE m.pin]

\* Faulty: every set() is passed on to the CPU, as an unshared line would.
SetLineUnshared(m, line, level) ==
  [Drive(m, IF level THEN m.state \cup {line} ELSE m.state \ {line})
     EXCEPT !.pin = level]

\* DeviceLine::set(level)
SetLine(m, line, level) ==
  Drive(m, IF level THEN m.state \cup {line} ELSE m.state \ {line})

\* set(true) called on every line of S, one after the other: the first of
\* them is the only one that can change the OR.
RaiseLines(m, S) == Drive(m, m.state \cup S)

\* DeviceLine::pulse(): triggerIrq / triggerNmi raise the CPU's pin and leave
\* m_state alone.
PulsePin(m) == [m EXCEPT !.pin = TRUE]

\* The class comment: "If ANY input line is high, the CPU IRQ pin is driven
\* high" - the pin is the OR of the input lines.
WiredOr(m) == m.pin <=> (m.state # {})

-----------------------------------------------------------------------------
CONSTANTS
  IrqSources,     \* outputs wired to the CPU's IRQ
  NmiSources,     \* outputs wired to the CPU's NMI
  EagerChips,     \* sources that call set() on every update
  SilentReset     \* sources whose reset() leaves the line alone (PIA6520)

Sources == IrqSources \cup NmiSources

ASSUME SourcesAssumption ==
  /\ IrqSources \cap NmiSources = {}
  /\ EagerChips \subseteq Sources
  /\ SilentReset \subseteq Sources \ EagerChips

VARIABLES pending, enabled, lastIrq, irq, nmi

sourceVars == << pending, enabled, lastIrq, irq, nmi >>

SourcesTypeOK ==
  /\ pending \in [Sources -> BOOLEAN]
  /\ enabled \in [Sources -> BOOLEAN]
  /\ lastIrq \in [Sources -> BOOLEAN]
  /\ irq \in Manager(IrqSources)
  /\ nmi \in Manager(NmiSources)

SourcesInit ==
  /\ pending = [s \in Sources |-> FALSE]
  /\ enabled = [s \in Sources |-> FALSE]
  /\ lastIrq = [s \in Sources |-> FALSE]
  /\ irq = Idle
  /\ nmi = Idle

Asserts(s) == pending[s] /\ enabled[s]

\* Faulty: the output is wired to both managers.
UpdateIrqMiswired(s) ==
  LET level == pending'[s] /\ enabled'[s]
  IN  /\ lastIrq' = [lastIrq EXCEPT ![s] = level]
      /\ irq' = SetLine(irq, s, level)
      /\ nmi' = SetLine(nmi, s, level)

\* updateIrq() of the chip of source s, after its flags or its mask changed.
UpdateIrq(s) ==
  LET level   == pending'[s] /\ enabled'[s]
      calls   == s \in EagerChips \/ level # lastIrq[s]
  IN  /\ lastIrq' = [lastIrq EXCEPT ![s] = level]
      /\ irq' = IF s \in IrqSources /\ calls THEN SetLine(irq, s, level) ELSE irq
      /\ nmi' = IF s \in NmiSources /\ calls THEN SetLine(nmi, s, level) ELSE nmi

\* Faulty: the flag is cleared and updateIrq() forgotten.
AcknowledgeNoUpdate(s) ==
  /\ pending' = [pending EXCEPT ![s] = FALSE]
  /\ UNCHANGED << enabled, lastIrq, irq, nmi >>

\* The program reads (or, on a VIA, writes) the register that acknowledges
\* the flag.
Acknowledge(s) ==
  /\ pending' = [pending EXCEPT ![s] = FALSE]
  /\ UNCHANGED enabled
  /\ UpdateIrq(s)

\* Faulty: the mask is written and updateIrq() forgotten.
SetMaskNoUpdate(s, on) ==
  /\ enabled' = [enabled EXCEPT ![s] = on]
  /\ UNCHANGED << pending, lastIrq, irq, nmi >>

\* The program writes the chip's interrupt enable register.
SetMask(s, on) ==
  /\ enabled' = [enabled EXCEPT ![s] = on]
  /\ UNCHANGED pending
  /\ UpdateIrq(s)

\* IORegistry::tickAll: each chip ticks once; the chips of R have a timer
\* that underflows, or see an edge, and raise their flag.
TickAll(R) ==
  LET up == {s \in R : enabled[s] /\ (s \in EagerChips \/ ~lastIrq[s])}
  IN  /\ pending' = [s \in Sources |-> pending[s] \/ s \in R]
      /\ UNCHANGED enabled
      /\ lastIrq' = [s \in Sources |-> lastIrq[s] \/ (s \in R /\ enabled[s])]
      /\ irq' = RaiseLines(irq, up \cap IrqSources)
      /\ nmi' = RaiseLines(nmi, up \cap NmiSources)

\* IORegistry::resetAll() followed by cpu->reset(): the chips clear their
\* registers and, except for SilentReset, drive their line low; then the CPU
\* clears its own copy of both pins.
ResetSources ==
  /\ pending' = [s \in Sources |-> FALSE]
  /\ enabled' = [s \in Sources |-> FALSE]
  /\ lastIrq' = [s \in Sources |-> FALSE]
  /\ irq' = [state |-> irq.state \cap SilentReset, pin |-> FALSE]
  /\ nmi' = [state |-> nmi.state \cap SilentReset, pin |-> FALSE]

-----------------------------------------------------------------------------
\* A line is high in its manager exactly while its chip has an unmasked flag
\* set: no chip leaves the shared line asserted behind its own back, and none
\* believes it asserted a line that is low.
LinesMatchChips ==
  \A s \in Sources :
    /\ lastIrq[s] <=> Asserts(s)
    /\ s \in irq.state \cup nmi.state <=> Asserts(s)

\* The promise of the class comment of SharedIrqManager, for both managers:
\* the CPU's pin is the OR of the device lines, so no device's interrupt is
\* hidden from the CPU and none outlives its source.
PinsAreWiredOr == WiredOr(irq) /\ WiredOr(nmi)
=============================================================================
