-------------------------- MODULE IrqSources_proofs --------------------------
(***************************************************************************)
(* Lemmas about the wired-OR managers and the chips wired to them, for     *)
(* every set of sources.  Machines_proofs and Mega65_proofs rest on  *)
(* them.                                                                   *)
(***************************************************************************)
EXTENDS IrqSources, TLAPS

\* The typed shape of a manager is kept by everything that drives it.
LEMMA DriveType ==
  ASSUME NEW Lines, NEW m \in Manager(Lines), NEW state \in SUBSET Lines
  PROVE  Drive(m, state) \in Manager(Lines)
BY DEF Drive, Manager

\* Driving a manager whose pin is the OR of its lines keeps it so: this is
\* why calling the CPU only on a change of the OR is enough.
LEMMA DriveWiredOr ==
  ASSUME NEW m, NEW state, WiredOr(m), m.pin \in BOOLEAN
  PROVE  WiredOr(Drive(m, state))
BY DEF Drive, WiredOr

\* DeviceLine::set keeps a manager typed, moves the line it is called on and
\* no other, and keeps the pin the OR of the lines.
LEMMA SetLineFacts ==
  ASSUME NEW Lines, NEW m \in Manager(Lines), NEW l \in Lines, NEW level \in BOOLEAN
  PROVE  /\ SetLine(m, l, level) \in Manager(Lines)
         /\ \A k : k \in SetLine(m, l, level).state <=>
                     IF k = l THEN level ELSE k \in m.state
         /\ WiredOr(m) => WiredOr(SetLine(m, l, level))
<1> DEFINE state == IF level THEN m.state \cup {l} ELSE m.state \ {l}
<1>1. SetLine(m, l, level) = Drive(m, state)
  BY DEF SetLine
<1>2. m.state \in SUBSET Lines /\ m.pin \in BOOLEAN
  BY DEF Manager
<1>3. state \in SUBSET Lines
  BY <1>2
<1>4. Drive(m, state).state = state
  BY DEF Drive
<1>5. \A k : k \in state <=> IF k = l THEN level ELSE k \in m.state
  OBVIOUS
<1> HIDE DEF state
<1>6. Drive(m, state) \in Manager(Lines)
  BY <1>3, DriveType
<1>7. WiredOr(m) => WiredOr(Drive(m, state))
  BY <1>2, DriveWiredOr
<1> QED
  BY <1>1, <1>4, <1>5, <1>6, <1>7

\* The same for the lines a tick of all the chips raises.
LEMMA RaiseLinesFacts ==
  ASSUME NEW Lines, NEW m \in Manager(Lines), NEW S \in SUBSET Lines
  PROVE  /\ RaiseLines(m, S) \in Manager(Lines)
         /\ RaiseLines(m, S).state = m.state \cup S
         /\ WiredOr(m) => WiredOr(RaiseLines(m, S))
<1>1. m.state \in SUBSET Lines /\ m.pin \in BOOLEAN
  BY DEF Manager
<1>2. Drive(m, m.state \cup S) \in Manager(Lines)
  BY <1>1, DriveType
<1>3. WiredOr(m) => WiredOr(Drive(m, m.state \cup S))
  BY <1>1, DriveWiredOr
<1> QED
  BY <1>2, <1>3 DEF RaiseLines, Drive

-----------------------------------------------------------------------------
\* The invariant of the chips and the managers: typing, and every line follows
\* its chip.  It says nothing of the pins, which a pulse() moves without a line.
SourcesInv == SourcesTypeOK /\ LinesMatchChips

\* A step keeps each pin that was the OR of its lines so.
PinsKept == (WiredOr(irq) => WiredOr(irq')) /\ (WiredOr(nmi) => WiredOr(nmi'))

\* A chip's updateIrq() re-establishes the invariant after its flags or its
\* mask changed, whether or not the chip caches the level it drove.
LEMMA UpdateIrqInv ==
  ASSUME SourcesInv, NEW s \in Sources, UpdateIrq(s),
         pending' \in [Sources -> BOOLEAN], enabled' \in [Sources -> BOOLEAN],
         \A r \in Sources \ {s} : pending'[r] = pending[r] /\ enabled'[r] = enabled[r]
  PROVE  SourcesInv' /\ PinsKept
<1> DEFINE level == pending'[s] /\ enabled'[s]
<1>0. level \in BOOLEAN
  OBVIOUS
<1>1. lastIrq' = [lastIrq EXCEPT ![s] = level]
  BY DEF UpdateIrq
<1>2. /\ lastIrq' \in [Sources -> BOOLEAN]
      /\ \A r \in Sources : lastIrq'[r] <=> Asserts(r)'
  BY <1>0, <1>1 DEF SourcesInv, SourcesTypeOK, LinesMatchChips, Asserts
<1>3. irq \in Manager(IrqSources) /\ nmi \in Manager(NmiSources)
  BY DEF SourcesInv, SourcesTypeOK
<1>4. irq.state \subseteq IrqSources /\ nmi.state \subseteq NmiSources
  BY <1>3 DEF Manager
<1>5. /\ irq' \in Manager(IrqSources) /\ (WiredOr(irq) => WiredOr(irq'))
      /\ \A k \in IrqSources : k \in irq'.state <=> IF k = s THEN level ELSE k \in irq.state
  <2>1. CASE s \in IrqSources /\ irq' = SetLine(irq, s, level)
    BY <2>1, <1>0, <1>3, SetLineFacts
  <2>2. CASE s \in IrqSources /\ irq' = irq /\ level = lastIrq[s]
    <3>1. s \in irq.state <=> level
      BY <2>2, <1>4, SourcesAssumption DEF SourcesInv, LinesMatchChips, Sources
    <3> QED BY <2>2, <3>1, <1>3
  <2>3. CASE s \notin IrqSources /\ irq' = irq
    BY <2>3, <1>3
  <2> QED
    BY <2>1, <2>2, <2>3 DEF UpdateIrq
<1>6. /\ nmi' \in Manager(NmiSources) /\ (WiredOr(nmi) => WiredOr(nmi'))
      /\ \A k \in NmiSources : k \in nmi'.state <=> IF k = s THEN level ELSE k \in nmi.state
  <2>1. CASE s \in NmiSources /\ nmi' = SetLine(nmi, s, level)
    BY <2>1, <1>0, <1>3, SetLineFacts
  <2>2. CASE s \in NmiSources /\ nmi' = nmi /\ level = lastIrq[s]
    <3>1. s \in nmi.state <=> level
      BY <2>2, <1>4, SourcesAssumption DEF SourcesInv, LinesMatchChips, Sources
    <3> QED BY <2>2, <3>1, <1>3
  <2>3. CASE s \notin NmiSources /\ nmi' = nmi
    BY <2>3, <1>3
  <2> QED
    BY <2>1, <2>2, <2>3 DEF UpdateIrq
<1>7. irq'.state \subseteq IrqSources /\ nmi'.state \subseteq NmiSources
  BY <1>5, <1>6 DEF Manager
<1>8. \A r \in Sources : r \in irq'.state \cup nmi'.state <=> Asserts(r)'
  <2> SUFFICES ASSUME NEW r \in Sources
               PROVE  r \in irq'.state \cup nmi'.state <=> Asserts(r)'
    OBVIOUS
  <2>1. CASE r = s
    BY <2>1, <1>5, <1>6, <1>7, SourcesAssumption DEF Sources, Asserts
  <2>2. CASE r # s
    <3>1. Asserts(r)' <=> Asserts(r)
      BY <2>2 DEF Asserts
    <3>2. r \in irq.state \cup nmi.state <=> Asserts(r)
      BY DEF SourcesInv, LinesMatchChips
    <3> QED
      BY <2>2, <3>1, <3>2, <1>4, <1>5, <1>6, <1>7, SourcesAssumption DEF Sources
  <2> QED BY <2>1, <2>2
<1> QED
  BY <1>2, <1>5, <1>6, <1>8
  DEF SourcesInv, SourcesTypeOK, LinesMatchChips, PinsKept

\* A tick of all the chips keeps the invariant.
LEMMA TickAllInv ==
  ASSUME SourcesInv, NEW R \in SUBSET Sources, TickAll(R)
  PROVE  SourcesInv' /\ PinsKept
<1> DEFINE up == {s \in R : enabled[s] /\ (s \in EagerChips \/ ~lastIrq[s])}
<1>1. /\ pending' = [s \in Sources |-> pending[s] \/ s \in R]
      /\ enabled' = enabled
      /\ lastIrq' = [s \in Sources |-> lastIrq[s] \/ (s \in R /\ enabled[s])]
      /\ irq' = RaiseLines(irq, up \cap IrqSources)
      /\ nmi' = RaiseLines(nmi, up \cap NmiSources)
  BY DEF TickAll
<1>2. irq \in Manager(IrqSources) /\ nmi \in Manager(NmiSources)
  BY DEF SourcesInv, SourcesTypeOK
<1>3. /\ irq' \in Manager(IrqSources) /\ (WiredOr(irq) => WiredOr(irq'))
      /\ irq'.state = irq.state \cup (up \cap IrqSources)
  <2>1. up \cap IrqSources \in SUBSET IrqSources
    OBVIOUS
  <2> HIDE DEF up
  <2> QED BY <2>1, <1>1, <1>2, RaiseLinesFacts
<1>4. /\ nmi' \in Manager(NmiSources) /\ (WiredOr(nmi) => WiredOr(nmi'))
      /\ nmi'.state = nmi.state \cup (up \cap NmiSources)
  <2>1. up \cap NmiSources \in SUBSET NmiSources
    OBVIOUS
  <2> HIDE DEF up
  <2> QED BY <2>1, <1>1, <1>2, RaiseLinesFacts
<1>5. /\ pending' \in [Sources -> BOOLEAN] /\ enabled' \in [Sources -> BOOLEAN]
      /\ lastIrq' \in [Sources -> BOOLEAN]
  BY <1>1 DEF SourcesInv, SourcesTypeOK
<1>6. ASSUME NEW s \in Sources
      PROVE  /\ lastIrq'[s] <=> Asserts(s)'
             /\ s \in irq'.state \cup nmi'.state <=> Asserts(s)'
  <2>1. Asserts(s)' <=> Asserts(s) \/ (s \in R /\ enabled[s])
    BY <1>1 DEF Asserts, SourcesInv, SourcesTypeOK
  <2>2. lastIrq[s] <=> Asserts(s)
    BY DEF SourcesInv, LinesMatchChips
  <2>3. s \in irq.state \cup nmi.state <=> Asserts(s)
    BY DEF SourcesInv, LinesMatchChips
  <2>4. lastIrq'[s] <=> lastIrq[s] \/ (s \in R /\ enabled[s])
    BY <1>1
  <2>5. s \in up <=> s \in R /\ enabled[s] /\ (s \in EagerChips \/ ~lastIrq[s])
    OBVIOUS
  <2>6. s \in irq'.state \cup nmi'.state <=> s \in irq.state \cup nmi.state \/ s \in up
    BY <1>3, <1>4 DEF Sources
  <2> QED
    BY <2>1, <2>2, <2>3, <2>4, <2>5, <2>6
<1> QED
  BY <1>3, <1>4, <1>5, <1>6
  DEF SourcesInv, SourcesTypeOK, LinesMatchChips, PinsKept

\* A machine reset keeps it when every chip releases its line, and leaves both
\* pins low over released lines.
LEMMA ResetInv ==
  ASSUME SilentReset = {}, SourcesInv, ResetSources
  PROVE  SourcesInv' /\ PinsAreWiredOr'
BY DEF SourcesInv, SourcesTypeOK, LinesMatchChips, PinsAreWiredOr, Asserts,
       WiredOr, Manager, ResetSources

\* It holds of a machine that has just been built.
LEMMA InitInv == SourcesInit => SourcesInv /\ PinsAreWiredOr
BY DEF SourcesInit, SourcesInv, SourcesTypeOK, LinesMatchChips, PinsAreWiredOr,
       Asserts, WiredOr, Manager, Idle

\* What a load or store that reaches the chip of s does, by either register.
LEMMA AccessInv ==
  ASSUME SourcesInv, NEW s \in Sources,
         Acknowledge(s) \/ \E on \in BOOLEAN : SetMask(s, on)
  PROVE  SourcesInv' /\ PinsKept
<1>1. CASE Acknowledge(s)
  BY <1>1, UpdateIrqInv DEF Acknowledge, SourcesInv, SourcesTypeOK
<1>2. CASE \E on \in BOOLEAN : SetMask(s, on)
  BY <1>2, UpdateIrqInv DEF SetMask, SourcesInv, SourcesTypeOK
<1> QED BY <1>1, <1>2

-----------------------------------------------------------------------------
\* updateIrq() keeps the chips and both managers typed, in every machine.
LEMMA UpdateIrqType ==
  ASSUME SourcesTypeOK, NEW s \in Sources, UpdateIrq(s),
         pending' \in [Sources -> BOOLEAN], enabled' \in [Sources -> BOOLEAN]
  PROVE  SourcesTypeOK'
<1> DEFINE level == pending'[s] /\ enabled'[s]
<1>1. level \in BOOLEAN
  OBVIOUS
<1>2. lastIrq' \in [Sources -> BOOLEAN]
  BY <1>1 DEF UpdateIrq, SourcesTypeOK
<1>3. irq' \in Manager(IrqSources)
  BY <1>1, SetLineFacts DEF UpdateIrq, SourcesTypeOK
<1>4. nmi' \in Manager(NmiSources)
  BY <1>1, SetLineFacts DEF UpdateIrq, SourcesTypeOK
<1> QED
  BY <1>2, <1>3, <1>4 DEF SourcesTypeOK

\* So does a tick of all the chips.
LEMMA TickAllType ==
  ASSUME SourcesTypeOK, NEW R \in SUBSET Sources, TickAll(R)
  PROVE  SourcesTypeOK'
<1> DEFINE up == {s \in R : enabled[s] /\ (s \in EagerChips \/ ~lastIrq[s])}
<1>1. /\ pending' = [s \in Sources |-> pending[s] \/ s \in R]
      /\ enabled' = enabled
      /\ lastIrq' = [s \in Sources |-> lastIrq[s] \/ (s \in R /\ enabled[s])]
      /\ irq' = RaiseLines(irq, up \cap IrqSources)
      /\ nmi' = RaiseLines(nmi, up \cap NmiSources)
  BY DEF TickAll
<1>2. up \cap IrqSources \in SUBSET IrqSources /\ up \cap NmiSources \in SUBSET NmiSources
  OBVIOUS
<1> HIDE DEF up
<1>3. irq' \in Manager(IrqSources) /\ nmi' \in Manager(NmiSources)
  BY <1>1, <1>2, RaiseLinesFacts DEF SourcesTypeOK
<1> QED
  BY <1>1, <1>3 DEF SourcesTypeOK

\* And a load or store that reaches a chip.
LEMMA AccessType ==
  ASSUME SourcesTypeOK, NEW s \in Sources,
         Acknowledge(s) \/ \E on \in BOOLEAN : SetMask(s, on)
  PROVE  SourcesTypeOK'
<1>1. CASE Acknowledge(s)
  BY <1>1, UpdateIrqType DEF Acknowledge, SourcesTypeOK
<1>2. CASE \E on \in BOOLEAN : SetMask(s, on)
  BY <1>2, UpdateIrqType DEF SetMask, SourcesTypeOK
<1> QED BY <1>1, <1>2
=============================================================================
