---------------------------- MODULE Chips_proofs ----------------------------
(***************************************************************************)
(* Proofs about the I/O chips VIA6522, CIA6526 and PIA6520, for every byte *)
(* width, tick length and choice of sides, timers and sources.             *)
(***************************************************************************)
EXTENDS VIA6522, CIA6526, PIA6520, NaturalsInduction, WellFoundedInduction, TLAPS

\* updateIrq() alone decides the output: whatever the flags and enables were
\* changed to, it leaves line, cached copy and bit 7 equal to "some enabled
\* flag is set", provided they were right before.
LEMMA ViaUpdateFollows ==
  ASSUME ViaIrqFollowsFlags, ViaUpdateIrq
  PROVE  ViaIrqFollowsFlags'
BY DEF ViaIrqFollowsFlags, ViaUpdateIrq

\* For every width of the timers and every use of the chip, the IRQ output
\* follows the flags and the enables in every reachable state.
THEOREM ViaIrqOutputCorrect == ViaSpec => []ViaIrqFollowsFlags
<1>1. ViaInit => ViaIrqFollowsFlags
  BY DEF ViaInit, ViaIrqFollowsFlags
<1>2. ASSUME ViaIrqFollowsFlags, [ViaNext]_viaVars
      PROVE  ViaIrqFollowsFlags'
  <2>1. ASSUME UNCHANGED irqVars PROVE ViaIrqFollowsFlags'
    BY <1>2, <2>1 DEF irqVars, ViaIrqFollowsFlags
  <2>2. ASSUME NEW s \in ViaSides, NEW level \in BOOLEAN, ViaSetC1(s, level) \/ ViaSetC2(s, level)
        PROVE  ViaIrqFollowsFlags'
    BY <1>2, <2>1, <2>2, ViaUpdateFollows DEF ViaSetC1, ViaSetC2
  <2>3. ASSUME NEW s \in ViaSides, AccessPort(s) PROVE ViaIrqFollowsFlags'
    BY <1>2, <2>3, ViaUpdateFollows DEF AccessPort
  <2>4. ASSUME NEW f \in [ViaSides -> ViaControl], WritePcr(f) PROVE ViaIrqFollowsFlags'
    BY <2>1, <2>4 DEF WritePcr
  <2>5. ASSUME NEW run \in BOOLEAN, WriteAcr(run) PROVE ViaIrqFollowsFlags'
    BY <2>1, <2>5 DEF WriteAcr
  <2>6. ASSUME NEW F \in SUBSET ViaFlags, WriteIfr(F) PROVE ViaIrqFollowsFlags'
    BY <1>2, <2>6, ViaUpdateFollows DEF WriteIfr
  <2>7. ASSUME NEW F \in SUBSET ViaFlags, NEW set \in BOOLEAN, WriteIer(set, F)
        PROVE  ViaIrqFollowsFlags'
    BY <1>2, <2>7, ViaUpdateFollows DEF WriteIer
  <2>8. ASSUME NEW t \in ViaTimers, ReadCounter(t) PROVE ViaIrqFollowsFlags'
    BY <1>2, <2>8, ViaUpdateFollows DEF ReadCounter
  <2>9. ASSUME NEW t \in ViaTimers, NEW b \in ViaByte, ViaWriteLatchLow(t, b) \/ StartTimer(t, b)
        PROVE  ViaIrqFollowsFlags'
    BY <1>2, <2>1, <2>9, ViaUpdateFollows DEF ViaWriteLatchLow, StartTimer
  <2>10. ASSUME NEW b \in ViaByte, ViaWriteLatchHigh(b) PROVE ViaIrqFollowsFlags'
    BY <1>2, <2>10, ViaUpdateFollows DEF ViaWriteLatchHigh
  <2>11. ASSUME NEW n \in 0..ViaMaxTick, ViaTick(n) PROVE ViaIrqFollowsFlags'
    BY <1>2, <2>11, ViaUpdateFollows DEF ViaTick
  <2>12. ASSUME ViaReset PROVE ViaIrqFollowsFlags'
    BY <2>12 DEF ViaReset, ResetRegs, ViaIrqFollowsFlags
  <2>13. CASE UNCHANGED viaVars
    BY <2>1, <2>13 DEF viaVars, irqVars
  <2> QED
    BY <1>2, <2>2, <2>3, <2>4, <2>5, <2>6, <2>7, <2>8, <2>9, <2>10, <2>11, <2>12, <2>13
    DEF ViaNext
<1> QED
  BY <1>1, <1>2, PTL DEF ViaSpec

-----------------------------------------------------------------------------
\* What the handshake argument needs of the types.
ViaPinTypes ==
  /\ pcr \in [ViaSides -> ViaControl]
  /\ viaC2 \in [ViaSides -> BOOLEAN]
  /\ viaHeld \in [ViaSides -> BOOLEAN]

ViaHandshakeInv == ViaPinTypes /\ ViaHandshakeHeld

\* The C2 handshake: a port access in handshake mode asserts C2 until C1
\* answers it, whether the conduit or tick() sees the answer.
THEOREM ViaHandshakeCorrect == ViaSpec => []ViaHandshakeHeld
<1>1. ViaInit => ViaHandshakeInv
  BY DEF ViaInit, ViaHandshakeInv, ViaPinTypes, ViaHandshakeHeld, ViaControl
<1>2. ASSUME ViaHandshakeInv, [ViaNext]_viaVars
      PROVE  ViaHandshakeInv'
  <2> USE <1>2
  <2>1. ASSUME UNCHANGED << pcr, viaC2, viaHeld >> PROVE ViaHandshakeInv'
    BY <2>1 DEF ViaHandshakeInv, ViaPinTypes, ViaHandshakeHeld
  <2>2. ASSUME NEW s \in ViaSides, NEW level \in BOOLEAN, ViaSetC1(s, level)
        PROVE  ViaHandshakeInv'
    <3> DEFINE edge == C1Edge(s, viaC1[s], level)
    <3>1. /\ viaC2' = [viaC2 EXCEPT ![s] = @ \/ (edge /\ pcr[s].mode = 4)]
          /\ viaHeld' = [viaHeld EXCEPT ![s] = @ /\ ~edge]
          /\ pcr' = pcr
      BY <2>2 DEF ViaSetC1
    <3> HIDE DEF edge
    <3>2. viaC2' \in [ViaSides -> BOOLEAN] /\ viaHeld' \in [ViaSides -> BOOLEAN]
      BY <3>1 DEF ViaHandshakeInv, ViaPinTypes
    <3> QED
      BY <3>1, <3>2 DEF ViaHandshakeInv, ViaPinTypes, ViaHandshakeHeld
  <2>3. ASSUME NEW s \in ViaSides, NEW level \in BOOLEAN, ViaSetC2(s, level)
        PROVE  ViaHandshakeInv'
    BY <2>3 DEF ViaSetC2, ViaHandshakeInv, ViaPinTypes, ViaHandshakeHeld, IsInput, ViaControl
  <2>4. ASSUME NEW s \in ViaSides, AccessPort(s) PROVE ViaHandshakeInv'
    <3>1. viaC2' = [viaC2 EXCEPT ![s] = C2AfterAccess(s)] /\ pcr' = pcr
          /\ viaHeld' = [viaHeld EXCEPT ![s] = viaHeld[s] \/ pcr[s].mode = 4]
      BY <2>4 DEF AccessPort
    <3>2. C2AfterAccess(s) \in BOOLEAN /\ (pcr[s].mode = 4 => C2AfterAccess(s) = FALSE)
      BY DEF C2AfterAccess, ViaHandshakeInv, ViaPinTypes
    <3>3. viaC2' \in [ViaSides -> BOOLEAN] /\ viaHeld' \in [ViaSides -> BOOLEAN]
      BY <3>1, <3>2 DEF ViaHandshakeInv, ViaPinTypes
    <3> QED
      BY <3>1, <3>2, <3>3 DEF ViaHandshakeInv, ViaPinTypes, ViaHandshakeHeld
  <2>5. ASSUME NEW f \in [ViaSides -> ViaControl], WritePcr(f) PROVE ViaHandshakeInv'
    BY <2>5 DEF WritePcr, ViaHandshakeInv, ViaPinTypes, ViaHandshakeHeld
  <2>6. ASSUME NEW n \in 0..ViaMaxTick, ViaTick(n) PROVE ViaHandshakeInv'
    <3>1. /\ viaC2' = [s \in ViaSides |-> viaC2[s] \/ (C1Hit(s) /\ pcr[s].mode = 4)]
          /\ viaHeld' = [s \in ViaSides |-> viaHeld[s] /\ ~C1Hit(s)]
          /\ pcr' = pcr
      BY <2>6 DEF ViaTick
    <3> QED
      BY <3>1 DEF ViaHandshakeInv, ViaPinTypes, ViaHandshakeHeld
  <2>7. ASSUME ViaReset PROVE ViaHandshakeInv'
    BY <2>7 DEF ViaReset, ResetRegs, ViaHandshakeInv, ViaPinTypes, ViaHandshakeHeld, ViaControl
  <2>8. ASSUME NEW t \in ViaTimers, NEW b \in ViaByte,
               ViaWriteLatchLow(t, b) \/ StartTimer(t, b)
        PROVE  ViaHandshakeInv'
    BY <2>1, <2>8 DEF ViaWriteLatchLow, StartTimer, pinVars
  <2>9. ASSUME NEW F \in SUBSET ViaFlags, NEW on \in BOOLEAN,
               WriteIfr(F) \/ WriteIer(on, F)
        PROVE  ViaHandshakeInv'
    BY <2>1, <2>9 DEF WriteIfr, WriteIer, pinVars
  <2>10. ASSUME NEW b \in ViaByte, ViaWriteLatchHigh(b) PROVE ViaHandshakeInv'
    BY <2>1, <2>10 DEF ViaWriteLatchHigh, pinVars
  <2>11. ASSUME NEW t \in ViaTimers, ReadCounter(t) PROVE ViaHandshakeInv'
    BY <2>1, <2>11 DEF ReadCounter, pinVars
  <2>12. ASSUME NEW on \in BOOLEAN, WriteAcr(on) PROVE ViaHandshakeInv'
    BY <2>1, <2>12 DEF WriteAcr, pinVars
  <2>13. CASE UNCHANGED viaVars
    BY <2>1, <2>13 DEF viaVars, pinVars
  <2> QED
    BY <2>2, <2>3, <2>4, <2>5, <2>6, <2>7, <2>8, <2>9, <2>10, <2>11, <2>12, <2>13
    DEF ViaNext
<1>3. ViaHandshakeInv => ViaHandshakeHeld
  BY DEF ViaHandshakeInv
<1> QED
  BY <1>1, <1>2, <1>3, PTL DEF ViaSpec

-----------------------------------------------------------------------------
\* A step that ends in updateIrq() leaves the line equal to "some enabled bit
\* is pending".
LEMMA CiaUpdateSets ==
  ASSUME CiaUpdateIrq PROVE IrqNotLost'
  BY DEF CiaUpdateIrq, IrqNotLost

\* A step that leaves pending bits, mask and line alone keeps the invariant.
LEMMA CiaQuietStep ==
  ASSUME IrqNotLost, UNCHANGED << pending, mask, ciaLine >> PROVE IrqNotLost'
  BY DEF IrqNotLost

(***************************************************************************)
(* The IRQ line is asserted exactly for the enabled pending bits, the      *)
(* serial port's excepted: readReg(), ioWrite(), tick(), flagTrigger() and *)
(* receiveSerialByte() of cia6526.cpp never leave it behind.               *)
(***************************************************************************)
THEOREM CiaIrqOutputCorrect == CiaSpec => []IrqNotLost
<1>1. CiaInit => IrqNotLost
  BY DEF CiaInit, IrqNotLost
<1>2. IrqNotLost /\ [CiaNext]_ciaVars => IrqNotLost'
  <2> SUFFICES ASSUME IrqNotLost, [CiaNext]_ciaVars PROVE IrqNotLost'
    OBVIOUS
  <2>1. CASE CiaReset
    BY <2>1 DEF CiaReset, IrqNotLost
  <2>2. CASE ReadIcr
    BY <2>2, CiaUpdateSets DEF ReadIcr
  <2>3. CASE \E set \in BOOLEAN, F \in SUBSET CiaFlags : WriteIcr(set, F)
    BY <2>3, CiaUpdateSets DEF WriteIcr
  <2>4. CASE \E t \in CiaTimers, b \in CiaByte : CiaWriteLatchLow(t, b)
    BY <2>4, CiaQuietStep DEF CiaWriteLatchLow
  <2>5. CASE \E t \in CiaTimers, b \in CiaByte : CiaWriteLatchHigh(t, b)
    BY <2>5, CiaUpdateSets DEF CiaWriteLatchHigh
  <2>6. CASE \E start, once, load, bit \in BOOLEAN :
               WriteCra(start, once, load, bit) \/ WriteCrb(start, once, load, bit)
    BY <2>6, CiaQuietStep DEF WriteCra, WriteCrb, CiaWriteControl
  <2>7. CASE WriteSdr
    BY <2>7 DEF WriteSdr, IrqNotLost
  <2>8. CASE ReceiveSerialByte
    BY <2>8, CiaUpdateSets DEF ReceiveSerialByte
  <2>9. CASE \E level \in BOOLEAN : SetFlag(level)
    BY <2>9, CiaUpdateSets, CiaQuietStep DEF SetFlag
  <2>10. ASSUME NEW n \in 0..CiaMaxTick, NEW alarm \in BOOLEAN, CiaTick(n, alarm)
         PROVE  IrqNotLost'
    <3>1. PICK events : /\ pending' = pending \cup events
                        /\ UNCHANGED mask
                        /\ IF events = {} THEN UNCHANGED ciaLine ELSE CiaUpdateIrq
      BY <2>10 DEF CiaTick
    <3>2. CASE events = {}
      BY <3>1, <3>2, CiaQuietStep
    <3>3. CASE events # {}
      BY <3>1, <3>3, CiaUpdateSets
    <3> QED BY <3>2, <3>3
  <2>11. CASE UNCHANGED ciaVars
    BY <2>11, CiaQuietStep DEF ciaVars
  <2> QED BY <2>1, <2>2, <2>3, <2>4, <2>5, <2>6, <2>7, <2>8, <2>9, <2>10, <2>11 DEF CiaNext
<1> QED BY <1>1, <1>2, PTL DEF CiaSpec

-----------------------------------------------------------------------------
\* What the PIA's argument needs of the types.
PiaTypes ==
  /\ cr \in [PiaSides -> PiaControl]
  /\ flag1 \in [PiaSides -> BOOLEAN] /\ flag2 \in [PiaSides -> BOOLEAN]
  /\ last \in [PiaSides -> BOOLEAN] /\ piaLine \in [PiaSides -> BOOLEAN]
  /\ orphan \in [PiaSides -> BOOLEAN]
  /\ piaC2 \in [PiaSides -> BOOLEAN] /\ piaHeld \in [PiaSides -> BOOLEAN]

PiaInv == PiaTypes /\ PiaLinesRight

\* updateIrq() sets the lines right from any flags, and leaves a line that reset()
\* orphaned alone until its output changes.
LEMMA PiaUpdateFollows ==
  ASSUME PiaTypes, PiaIrqFollowsFlags, PiaUpdateIrq,
         (/\ cr \in [PiaSides -> PiaControl]
          /\ flag1 \in [PiaSides -> BOOLEAN] /\ flag2 \in [PiaSides -> BOOLEAN])'
  PROVE  /\ PiaIrqFollowsFlags'
         /\ (/\ last \in [PiaSides -> BOOLEAN] /\ piaLine \in [PiaSides -> BOOLEAN]
             /\ orphan \in [PiaSides -> BOOLEAN])'
<1>1. \A s \in PiaSides : Asserts(s)' \in BOOLEAN
  BY DEF Asserts, PiaControl
<1>2. last' \in [PiaSides -> BOOLEAN] /\ \A s \in PiaSides : last'[s] = Asserts(s)'
  BY <1>1 DEF PiaUpdateIrq
<1>3. piaLine' \in [PiaSides -> BOOLEAN]
  BY <1>2 DEF PiaUpdateIrq, PiaTypes
<1>4. orphan' \in [PiaSides -> BOOLEAN]
  BY DEF PiaUpdateIrq, PiaTypes
<1>5. ASSUME NEW s \in PiaSides PROVE piaLine'[s] # last'[s] => orphan'[s] /\ piaLine'[s]
  <2>1. piaLine'[s] = IF last'[s] # last[s] THEN last'[s] ELSE piaLine[s]
    BY DEF PiaUpdateIrq
  <2>2. orphan'[s] = (orphan[s] /\ last'[s] = last[s])
    BY DEF PiaUpdateIrq
  <2>3. CASE last'[s] # last[s]
    BY <2>1, <2>3
  <2>4. CASE last'[s] = last[s] /\ piaLine[s] # last[s]
    <3>1. orphan[s] /\ piaLine[s]
      BY <2>4 DEF PiaIrqFollowsFlags
    <3> QED BY <2>1, <2>2, <2>4, <3>1
  <2> QED BY <2>1, <2>3, <2>4
<1> QED
  BY <1>2, <1>3, <1>4, <1>5 DEF PiaIrqFollowsFlags

\* For either side or both: the IRQ lines follow the flags and the enables, and a
\* handshake stays low until it is answered.
THEOREM PiaLinesCorrect == PiaSpec => []PiaLinesRight
<1>1. ASSUME PiaInit PROVE PiaInv
  <2>1. PiaTypes
    BY <1>1 DEF PiaInit, PiaTypes, All, Cleared, PiaControl
  <2>2. ASSUME NEW s \in PiaSides PROVE /\ Asserts(s) = FALSE /\ last[s] = FALSE
                                        /\ piaLine[s] = FALSE /\ ~piaHeld[s]
    BY <1>1, <2>2 DEF PiaInit, All, Asserts
  <2> QED BY <2>1, <2>2 DEF PiaInv, PiaLinesRight, PiaIrqFollowsFlags, PiaHandshakeHeld
<1>2. ASSUME PiaInv, [PiaNext]_piaVars PROVE PiaInv'
  <2> USE <1>2
  <2>0. PiaTypes /\ PiaIrqFollowsFlags /\ PiaHandshakeHeld
    BY DEF PiaInv, PiaLinesRight
  <2>1. ASSUME NEW s \in PiaSides, NEW level \in BOOLEAN, PiaSetC1(s, level) PROVE PiaInv'
    <3> DEFINE edge == Edge1(s, prev1[s], level)
    <3>1. /\ flag1' = [flag1 EXCEPT ![s] = @ \/ edge] /\ flag2' = flag2 /\ cr' = cr
          /\ piaC2' = [piaC2 EXCEPT ![s] = @ \/ (edge /\ Handshake(cr[s]))]
          /\ piaHeld' = [piaHeld EXCEPT ![s] = @ /\ ~edge]
          /\ PiaUpdateIrq
      BY <2>1 DEF PiaSetC1
    <3> HIDE DEF edge
    <3>2. (/\ cr \in [PiaSides -> PiaControl]
           /\ flag1 \in [PiaSides -> BOOLEAN] /\ flag2 \in [PiaSides -> BOOLEAN]
           /\ piaC2 \in [PiaSides -> BOOLEAN] /\ piaHeld \in [PiaSides -> BOOLEAN])'
      BY <2>0, <3>1 DEF PiaTypes
    <3>3. PiaHandshakeHeld'
      BY <2>0, <3>1 DEF PiaTypes, PiaHandshakeHeld
    <3> QED BY <2>0, <3>1, <3>2, <3>3, PiaUpdateFollows DEF PiaInv, PiaTypes, PiaLinesRight
  <2>2. ASSUME NEW s \in PiaSides, NEW level \in BOOLEAN, PiaSetC2(s, level) PROVE PiaInv'
    <3>1. PiaIrqFollowsFlags'
      BY <2>0, <2>2 DEF PiaSetC2, PiaIrqFollowsFlags, Asserts
    <3>2. PiaHandshakeHeld'
      BY <2>0, <2>2 DEF PiaSetC2, PiaHandshakeHeld, Handshake, PiaTypes
    <3>3. PiaTypes'
      BY <2>0, <2>2 DEF PiaSetC2, PiaTypes
    <3> QED BY <3>1, <3>2, <3>3 DEF PiaInv, PiaLinesRight
  <2>3. CASE PiaTick
    <3> DEFINE edge(s) == Edge1(s, prev1[s], piaC1[s])
               edge2(s) == Edge2(s, prev2[s], piaC2[s])
    <3>1. /\ flag1' = [s \in PiaSides |-> flag1[s] \/ edge(s)]
          /\ flag2' = [s \in PiaSides |-> flag2[s] \/ edge2(s)] /\ cr' = cr
          /\ piaC2' = [s \in PiaSides |-> piaC2[s] \/ (edge(s) /\ Handshake(cr[s]))]
          /\ piaHeld' = [s \in PiaSides |-> piaHeld[s] /\ ~edge(s)]
          /\ PiaUpdateIrq
      BY <2>3 DEF PiaTick
    <3> HIDE DEF edge, edge2
    <3>2. (/\ cr \in [PiaSides -> PiaControl]
           /\ flag1 \in [PiaSides -> BOOLEAN] /\ flag2 \in [PiaSides -> BOOLEAN]
           /\ piaC2 \in [PiaSides -> BOOLEAN] /\ piaHeld \in [PiaSides -> BOOLEAN])'
      BY <2>0, <3>1 DEF PiaTypes
    <3>3. PiaHandshakeHeld'
      BY <2>0, <3>1 DEF PiaTypes, PiaHandshakeHeld
    <3> QED BY <2>0, <3>1, <3>2, <3>3, PiaUpdateFollows DEF PiaInv, PiaTypes, PiaLinesRight
  <2>4. ASSUME NEW s \in PiaSides, ReadPort(s) \/ WritePort(s) PROVE PiaInv'
    <3>1. PICK starts \in BOOLEAN : StartHandshake(s, starts) /\ ClearFlags(s)
      BY <2>4 DEF ReadPort, WritePort
    <3> DEFINE go == starts /\ Handshake(cr[s])
    <3>2. /\ flag1' = [flag1 EXCEPT ![s] = FALSE] /\ cr' = cr
          /\ flag2' = [flag2 EXCEPT ![s] = @ /\ cr[s].b5]
          /\ piaC2' = [piaC2 EXCEPT ![s] = @ /\ ~go]
          /\ piaHeld' = [piaHeld EXCEPT ![s] = @ \/ go]
          /\ PiaUpdateIrq
      BY <3>1 DEF StartHandshake, ClearFlags
    <3>3. go => Handshake(cr[s])
      OBVIOUS
    <3> HIDE DEF go
    <3>4. (/\ cr \in [PiaSides -> PiaControl]
           /\ flag1 \in [PiaSides -> BOOLEAN] /\ flag2 \in [PiaSides -> BOOLEAN]
           /\ piaC2 \in [PiaSides -> BOOLEAN] /\ piaHeld \in [PiaSides -> BOOLEAN])'
      BY <2>0, <3>2 DEF PiaTypes
    <3>5. PiaHandshakeHeld'
      BY <2>0, <3>2, <3>3 DEF PiaTypes, PiaHandshakeHeld
    <3> QED BY <2>0, <3>2, <3>4, <3>5, PiaUpdateFollows DEF PiaInv, PiaTypes, PiaLinesRight
  <2>5. ASSUME NEW s \in PiaSides, NEW c \in PiaControl, PiaWriteControl(s, c) PROVE PiaInv'
    <3>1. /\ flag1' = flag1 /\ flag2' = flag2 /\ cr' = [cr EXCEPT ![s] = c]
          /\ piaC2' = [piaC2 EXCEPT ![s] = IF c.b5 /\ c.b4 THEN c.b3 ELSE @]
          /\ piaHeld' = [piaHeld EXCEPT ![s] = FALSE]
          /\ PiaUpdateIrq
      BY <2>5 DEF PiaWriteControl
    <3>2. (/\ cr \in [PiaSides -> PiaControl]
           /\ flag1 \in [PiaSides -> BOOLEAN] /\ flag2 \in [PiaSides -> BOOLEAN]
           /\ piaC2 \in [PiaSides -> BOOLEAN] /\ piaHeld \in [PiaSides -> BOOLEAN])'
      BY <2>0, <3>1 DEF PiaTypes, PiaControl
    <3>3. PiaHandshakeHeld'
      BY <2>0, <3>1 DEF PiaTypes, PiaHandshakeHeld
    <3> QED BY <2>0, <3>1, <3>2, <3>3, PiaUpdateFollows DEF PiaInv, PiaTypes, PiaLinesRight
  <2>6. CASE PiaReset
    <3>1. PiaTypes'
      BY <2>0, <2>6 DEF PiaReset, PiaTypes, All, Cleared, PiaControl
    <3>2. PiaIrqFollowsFlags'
      BY <2>0, <2>6 DEF PiaReset, PiaTypes, All, PiaIrqFollowsFlags, Asserts
    <3>3. PiaHandshakeHeld'
      BY <2>6 DEF PiaReset, All, PiaHandshakeHeld
    <3> QED BY <3>1, <3>2, <3>3 DEF PiaInv, PiaLinesRight
  <2>7. CASE UNCHANGED piaVars
    BY <2>0, <2>7 DEF piaVars, PiaInv, PiaTypes, PiaLinesRight, PiaIrqFollowsFlags,
       PiaHandshakeHeld, Asserts
  <2> QED BY <2>1, <2>2, <2>3, <2>4, <2>5, <2>6, <2>7 DEF PiaNext
<1>3. PiaInv => PiaLinesRight
  BY DEF PiaInv
<1> QED BY <1>1, <1>2, <1>3, PTL DEF PiaSpec

-----------------------------------------------------------------------------
\* A VIA timer that expired in one-shot mode is stopped until it is started again.
ViaTimerInv ==
  /\ active \in [ViaTimers -> BOOLEAN] /\ viaFired \in [ViaTimers -> BOOLEAN]
  /\ \A t \in ViaTimers : viaFired[t] => ~active[t]

\* A step that leaves the timers' activity alone.
LEMMA ViaTimersKept ==
  ASSUME ViaTimerInv, UNCHANGED << active, viaFired >> PROVE ViaTimerInv'
BY DEF ViaTimerInv

\* Every step keeps it, and raises no flag of a timer that expired.
LEMMA ViaTimerStep ==
  ASSUME ViaTimerInv, [ViaNext]_viaVars
  PROVE  /\ ViaTimerInv'
         /\ \A t \in ViaTimers : viaFired[t] /\ t \notin ifr => t \notin ifr'
<1> DEFINE Quiet == \A t \in ViaTimers : viaFired[t] /\ t \notin ifr => t \notin ifr'
<1>1. ASSUME NEW s \in ViaSides, NEW level \in BOOLEAN, ViaSetC1(s, level) PROVE ViaTimerInv' /\ Quiet
  <2>1. \A t \in ViaTimers : t # C1(s)
    BY ViaAssumption DEF C1
  <2> QED BY <1>1, <2>1, ViaTimersKept DEF ViaSetC1, viaTimerVars, irqVars
<1>2. ASSUME NEW s \in ViaSides, NEW level \in BOOLEAN, ViaSetC2(s, level) PROVE ViaTimerInv' /\ Quiet
  BY <1>2, ViaTimersKept DEF ViaSetC2, viaTimerVars, irqVars
<1>3. ASSUME NEW s \in ViaSides, AccessPort(s) PROVE ViaTimerInv' /\ Quiet
  BY <1>3, ViaTimersKept DEF AccessPort, viaTimerVars
<1>4. ASSUME NEW f \in [ViaSides -> ViaControl], WritePcr(f) PROVE ViaTimerInv' /\ Quiet
  BY <1>4, ViaTimersKept DEF WritePcr, viaTimerVars, irqVars
<1>5. ASSUME NEW run \in BOOLEAN, WriteAcr(run) PROVE ViaTimerInv' /\ Quiet
  BY <1>5, ViaTimersKept DEF WriteAcr, irqVars
<1>6. ASSUME NEW F \in SUBSET ViaFlags, NEW set \in BOOLEAN, WriteIfr(F) \/ WriteIer(set, F)
      PROVE  ViaTimerInv' /\ Quiet
  BY <1>6, ViaTimersKept DEF WriteIfr, WriteIer, viaTimerVars
<1>7. ASSUME NEW t \in ViaTimers, ReadCounter(t) PROVE ViaTimerInv' /\ Quiet
  BY <1>7, ViaTimersKept DEF ReadCounter, viaTimerVars
<1>8. ASSUME NEW t \in ViaTimers, NEW b \in ViaByte, ViaWriteLatchLow(t, b) PROVE ViaTimerInv' /\ Quiet
  BY <1>8, ViaTimersKept DEF ViaWriteLatchLow, irqVars
<1>9. ASSUME NEW t \in ViaTimers, NEW b \in ViaByte, StartTimer(t, b) PROVE ViaTimerInv' /\ Quiet
  <2>1. ViaTimerInv'
    BY <1>9 DEF StartTimer, ViaTimerInv
  <2>2. Quiet
    BY <1>9 DEF StartTimer
  <2> QED BY <2>1, <2>2
<1>10. ASSUME NEW b \in ViaByte, ViaWriteLatchHigh(b) PROVE ViaTimerInv' /\ Quiet
  BY <1>10, ViaTimersKept DEF ViaWriteLatchHigh
<1>11. ASSUME NEW n \in 0..ViaMaxTick, ViaTick(n) PROVE ViaTimerInv' /\ Quiet
  <2>1. ViaTimerInv'
    BY <1>11 DEF ViaTick, StaysActive, Expires, ViaTimerInv
  <2>2. \A t \in ViaTimers, s \in ViaSides : t # C1(s) /\ t # C2(s)
    BY ViaAssumption DEF C1, C2
  <2>3. \A t \in ViaTimers : viaFired[t] => ~Expires(t, n)
    BY DEF ViaTimerInv, Expires
  <2>4. Quiet
    BY <1>11, <2>2, <2>3 DEF ViaTick
  <2> QED BY <2>1, <2>4
<1>12. CASE ViaReset
  BY <1>12 DEF ViaReset, ResetRegs, ViaTimerInv
<1>13. CASE UNCHANGED viaVars
  BY <1>13, ViaTimersKept DEF viaVars, viaTimerVars, irqVars
<1> QED
  BY <1>1, <1>2, <1>3, <1>4, <1>5, <1>6, <1>7, <1>8, <1>9, <1>10, <1>11, <1>12, <1>13 DEF ViaNext

\* For every timer width and tick size, a one-shot timer of the VIA raises its flag
\* once per start.
THEOREM ViaOneShotCorrect == ViaSpec => ViaOneShotFiresOnce
<1>1. ViaInit => ViaTimerInv
  BY DEF ViaInit, ViaTimerInv
<1>2. ViaTimerInv /\ [ViaNext]_viaVars => ViaTimerInv'
  BY ViaTimerStep
<1>3. ViaTimerInv /\ [ViaNext]_viaVars
        => [\A t \in ViaTimers : viaFired[t] /\ t \notin ifr => t \notin ifr']_viaVars
  BY ViaTimerStep
<1> QED BY <1>1, <1>2, <1>3, PTL DEF ViaSpec, ViaOneShotFiresOnce

-----------------------------------------------------------------------------
\* Every non-empty set of naturals has a least element.
LEMMA LeastNatural ==
  ASSUME NEW T \in SUBSET Nat, T # {}
  PROVE  \E x \in T : \A y \in T : x <= y
<1>1. PICK x \in T : \A y \in T : ~(<<y, x>> \in OpToRel(<, Nat))
  BY NatLessThanWellFounded, WFMin
<1>2. ASSUME NEW y \in T PROVE ~(y < x)
  BY <1>1 DEF OpToRel
<1> QED BY <1>2

\* Division with remainder.
LEMMA DivMod ==
  ASSUME NEW x \in Nat, NEW l \in Nat \ {0}
  PROVE  x \div l \in Nat /\ x % l \in 0 .. l - 1 /\ x = (x \div l) * l + (x % l)
BY SMT

\* The remainder is unique.
LEMMA ModUnique ==
  ASSUME NEW l \in Nat \ {0}, NEW p \in Nat, NEW q \in Nat,
         NEW r \in 0 .. l - 1, NEW s \in 0 .. l - 1, p * l + r = q * l + s
  PROVE  r = s
<1>1. ASSUME NEW a \in Nat, NEW b \in Nat, a < b PROVE b * l >= a * l + l
  <2>1. PICK k \in Nat : b = a + 1 + k
    <3>1. b - a - 1 \in Nat /\ b = a + 1 + (b - a - 1)
      BY <1>1
    <3> QED BY <3>1
  <2>2. b * l = a * l + l + k * l /\ k * l >= 0
    BY <2>1
  <2> QED BY <2>2
<1>2. p * l \in Nat /\ q * l \in Nat
  OBVIOUS
<1>3. ~(p < q) /\ ~(q < p)
  BY <1>1, <1>2
<1> QED BY <1>2, <1>3

\* Adding the modulus does not change the remainder.
LEMMA ModPeriod ==
  ASSUME NEW d \in Nat, NEW l \in Nat \ {0}
  PROVE  (d + l) % l = d % l
<1>1. PICK p \in Nat, r \in 0 .. l - 1 : d = p * l + r /\ r = d % l
  BY DivMod
<1>2. PICK x \in Nat : x = d + l
  OBVIOUS
<1>3. PICK q \in Nat, s \in 0 .. l - 1 : x = q * l + s /\ s = x % l
  BY DivMod
<1>4. PICK k \in Nat : k = p + 1
  OBVIOUS
<1>5. k * l + r = q * l + s
  BY <1>1, <1>2, <1>3, <1>4
<1>6. r = s
  BY <1>5, ModUnique
<1> QED BY <1>1, <1>2, <1>3, <1>6

\* A function that counts down from l and starts again is l - (e % l): the loop of
\* tickTimerA and tickTimerB in closed form.
LEMMA ReloadLoop ==
  ASSUME NEW n \in Nat, NEW l \in Nat \ {0}, NEW f,
         f = [e \in 0..n |-> IF e < l THEN l - e ELSE f[e - l]]
  PROVE  \A e \in 0..n : f[e] = l - (e % l)
<1> DEFINE T == {e \in 0..n : f[e] # l - (e % l)}
<1>1. SUFFICES ASSUME T # {} PROVE FALSE
  OBVIOUS
<1>2. T \in SUBSET Nat
  OBVIOUS
<1>3. PICK e \in T : \A d \in T : e <= d
  BY <1>1, <1>2, LeastNatural
<1>4. e \in 0..n /\ f[e] = IF e < l THEN l - e ELSE f[e - l]
  OBVIOUS
<1>5. CASE e < l
  <2>1. e % l = e
    BY <1>4, <1>5
  <2> QED BY <1>4, <1>5, <2>1
<1>6. CASE ~(e < l)
  <2>1. PICK d \in 0..n : d = e - l
    BY <1>4, <1>6
  <2>2. d \notin T
    BY <1>3, <1>4, <2>1
  <2>3. f[d] = l - (d % l)
    BY <2>2
  <2>4. e % l = d % l
    BY <1>4, <2>1, ModPeriod
  <2> QED BY <1>4, <1>6, <2>1, <2>3, <2>4
<1> QED BY <1>5, <1>6

\* There is such a function.
LEMMA ReloadLoopExists ==
  ASSUME NEW n \in Nat, NEW l \in Nat \ {0}
  PROVE  \E f : f = [e \in 0..n |-> IF e < l THEN l - e ELSE f[e - l]]
<1> DEFINE g == [e \in 0..n |-> l - (e % l)]
<1>1. ASSUME NEW e \in 0..n PROVE l - (e % l) = IF e < l THEN l - e ELSE g[e - l]
  <2>1. CASE e < l
    <3>1. e % l = e
      BY <2>1
    <3> QED BY <2>1, <3>1
  <2>2. CASE ~(e < l)
    <3>1. PICK d \in 0..n : d = e - l
      BY <2>2
    <3>2. d \in Nat /\ e = d + l
      BY <3>1
    <3>4. e % l = d % l
      BY <3>2, ModPeriod
    <3>3. g[d] = l - (d % l)
      OBVIOUS
    <3> HIDE DEF g
    <3> QED BY <2>2, <3>1, <3>3, <3>4
  <2> QED BY <2>1, <2>2
<1>2. g = [e \in 0..n |-> IF e < l THEN l - e ELSE g[e - l]]
  BY <1>1
<1> QED BY <1>2

\* The words of the timers.
LEMMA TopFacts == Top \in Nat /\ Top > 1 /\ \A l \in CiaWord : Reload(l) \in CiaWord \ {0}
<1>1. Top \in Nat /\ Top > 1
  BY CiaAssumption DEF Top
<1> QED BY <1>1 DEF CiaWord, Reload

\* What a timer stands at after n cycles: the loop in closed form.
LEMMA CountFacts ==
  ASSUME NEW t \in CiaTimers, NEW n \in Nat, NEW c \in CiaWord, c = ciaCounter[t],
         NEW l \in CiaWord \ {0}, l = Reload(ciaLatch[t])
  PROVE  Count(t, n) = IF n = 0 THEN [counter |-> c, hit |-> FALSE]
                       ELSE IF n < c THEN [counter |-> c - n, hit |-> FALSE]
                       ELSE IF oneshot[t] THEN [counter |-> 0, hit |-> TRUE]
                       ELSE [counter |-> l - ((n - c) % l), hit |-> TRUE]
<1> DEFINE A == CHOOSE f : f = [e \in 0..n |->
                  IF e < Reload(ciaLatch[t]) THEN Reload(ciaLatch[t]) - e ELSE f[e - Reload(ciaLatch[t])]]
<1>1. l \in Nat \ {0} /\ c \in Nat
  BY TopFacts DEF CiaWord
<1>2. A = [e \in 0..n |-> IF e < l THEN l - e ELSE A[e - l]]
  BY <1>1, ReloadLoopExists
<1>3. Count(t, n) = IF n = 0 THEN [counter |-> c, hit |-> FALSE]
                    ELSE IF n < c THEN [counter |-> c - n, hit |-> FALSE]
                    ELSE IF oneshot[t] THEN [counter |-> 0, hit |-> TRUE]
                    ELSE [counter |-> A[n - c], hit |-> TRUE]
  BY DEF Count
<1> HIDE DEF A
<1>4. \A e \in 0..n : A[e] = l - (e % l)
  BY <1>1, <1>2, ReloadLoop
<1>5. ~(n < c) => A[n - c] = l - ((n - c) % l)
  BY <1>1, <1>4
<1> QED BY <1>3, <1>5

\* The types of the CIA's timers.
CiaTimerTypes ==
  /\ ciaLatch \in [CiaTimers -> CiaWord] /\ ciaCounter \in [CiaTimers -> CiaWord]
  /\ running \in [CiaTimers -> BOOLEAN] /\ oneshot \in [CiaTimers -> BOOLEAN]
  /\ ciaFired \in [CiaTimers -> BOOLEAN] /\ age \in [CiaTimers -> Nat \cup {-1}]

\* A timer that expired in one-shot mode is stopped; a counter whose age is known
\* is within its first period, where age and counter add up to the latch.
CiaTimerInv ==
  /\ CiaTimerTypes
  /\ \A t \in CiaTimers : ciaFired[t] => ~running[t]
  /\ \A t \in CiaTimers : age[t] >= 0 => age[t] < ciaLatch[t] /\ ciaCounter[t] = ciaLatch[t] - age[t]

\* No timer that expired in one-shot mode raises its bit.
CiaQuietBits == \A t \in CiaTimers : ciaFired[t] /\ t \notin pending => t \notin pending'

\* One byte of a latch is written.
LEMMA LatchBytes ==
  ASSUME NEW l \in CiaWord, NEW b \in CiaByte
  PROVE  (l \div CiaByteMod) * CiaByteMod + b \in CiaWord /\ b * CiaByteMod + (l % CiaByteMod) \in CiaWord
<1>1. PICK m \in Nat \ {0} : m = CiaByteMod
  BY CiaAssumption
<1>2. l \in Nat /\ l < m * m /\ b \in Nat /\ b <= m - 1
  BY <1>1 DEF CiaWord, Top, CiaByte
<1>3. PICK q \in Nat, r \in 0 .. m - 1 : q = l \div m /\ r = l % m /\ l = q * m + r
  BY <1>2, DivMod
<1>4. ASSUME NEW x \in Nat, NEW y \in Nat, x <= m - 1, y <= m - 1
      PROVE  x * m + y \in Nat /\ x * m + y <= m * m - 1
  <2>1. PICK k \in Nat : m = x + 1 + k
    <3>1. m - x - 1 \in Nat /\ m = x + 1 + (m - x - 1)
      BY <1>4
    <3> QED BY <3>1
  <2>2. m * m = x * m + m + k * m /\ k * m >= 0
    BY <2>1
  <2> QED BY <1>4, <2>2
<1>5. q <= m - 1
  <2>1. SUFFICES ASSUME q >= m PROVE FALSE
    OBVIOUS
  <2>2. PICK k \in Nat : q = m + k
    <3>1. q - m \in Nat /\ q = m + (q - m)
      BY <2>1
    <3> QED BY <3>1
  <2>3. q * m = m * m + k * m /\ k * m >= 0
    BY <2>2
  <2> QED BY <1>2, <1>3, <2>3
<1>6. q * m + b \in Nat /\ q * m + b <= m * m - 1
  BY <1>2, <1>4, <1>5
<1>7. b * m + r \in Nat /\ b * m + r <= m * m - 1
  BY <1>2, <1>4
<1> QED BY <1>1, <1>3, <1>6, <1>7 DEF CiaWord, Top

\* A step that leaves the timers alone.
LEMMA CiaTimersKept ==
  ASSUME CiaTimerInv, UNCHANGED ciaTimerVars PROVE CiaTimerInv'
BY DEF CiaTimerInv, CiaTimerTypes, ciaTimerVars

\* Writing CRA or CRB starts, stops or loads the timer.
LEMMA CiaWriteControlTimers ==
  ASSUME CiaTimerInv, NEW t \in CiaTimers, NEW start \in BOOLEAN, NEW once \in BOOLEAN, NEW load \in BOOLEAN,
         CiaWriteControl(t, start, once, load)
  PROVE  CiaTimerInv'
<1>1. CiaTimerTypes'
  BY DEF CiaTimerInv, CiaTimerTypes, CiaWriteControl, LoadedAge
<1>2. \A x \in CiaTimers : ciaFired'[x] => ~running'[x]
  BY DEF CiaTimerInv, CiaTimerTypes, CiaWriteControl
<1>3. ASSUME NEW x \in CiaTimers, age'[x] >= 0
      PROVE  age'[x] < ciaLatch'[x] /\ ciaCounter'[x] = ciaLatch'[x] - age'[x]
  BY <1>3, TopFacts DEF CiaTimerInv, CiaTimerTypes, CiaWriteControl, LoadedAge, CiaWord
<1> QED BY <1>1, <1>2, <1>3 DEF CiaTimerInv

\* TALO and TBLO: a latch that changes leaves the age unknown.
LEMMA CiaLatchLowTimers ==
  ASSUME CiaTimerInv, NEW t \in CiaTimers, NEW b \in CiaByte, CiaWriteLatchLow(t, b)
  PROVE  CiaTimerInv'
<1>1. PICK v \in CiaWord : v = (ciaLatch[t] \div CiaByteMod) * CiaByteMod + b
  BY LatchBytes DEF CiaTimerInv, CiaTimerTypes
<1>2. ciaLatch' = [ciaLatch EXCEPT ![t] = v]
  BY <1>1 DEF CiaWriteLatchLow
<1>3. age' = [age EXCEPT ![t] = IF v = ciaLatch[t] THEN @ ELSE -1]
  BY <1>2 DEF CiaWriteLatchLow, CiaTimerInv, CiaTimerTypes
<1> QED BY <1>2, <1>3 DEF CiaWriteLatchLow, CiaTimerInv, CiaTimerTypes

\* TAHI and TBHI: a stopped timer is loaded.
LEMMA CiaLatchHighTimers ==
  ASSUME CiaTimerInv, NEW t \in CiaTimers, NEW b \in CiaByte, CiaWriteLatchHigh(t, b)
  PROVE  CiaTimerInv'
<1>1. PICK v \in CiaWord : v = b * CiaByteMod + (ciaLatch[t] % CiaByteMod)
  BY LatchBytes DEF CiaTimerInv, CiaTimerTypes
<1>2. ciaLatch' = [ciaLatch EXCEPT ![t] = v] /\ UNCHANGED <<running, oneshot, ciaFired>>
  BY <1>1 DEF CiaWriteLatchHigh
<1>3. ciaLatch'[t] = v
  BY <1>2 DEF CiaTimerInv, CiaTimerTypes
<1>4. /\ age' = [age EXCEPT ![t] = IF ~running[t] THEN LoadedAge(v) ELSE IF v = ciaLatch[t] THEN @ ELSE -1]
      /\ ciaCounter' = [ciaCounter EXCEPT ![t] = IF running[t] THEN @ ELSE v]
  <2>1. /\ age' = [age EXCEPT ![t] = IF ~running[t] THEN LoadedAge(ciaLatch'[t])
                                     ELSE IF ciaLatch'[t] = ciaLatch[t] THEN @ ELSE -1]
        /\ ciaCounter' = [ciaCounter EXCEPT ![t] = IF running[t] THEN @ ELSE ciaLatch'[t]]
    BY DEF CiaWriteLatchHigh
  <2> QED BY <1>3, <2>1
<1>5. CiaTimerTypes'
  BY <1>2, <1>4 DEF CiaTimerInv, CiaTimerTypes, LoadedAge
<1>6. ASSUME NEW x \in CiaTimers, age'[x] >= 0
      PROVE  age'[x] < ciaLatch'[x] /\ ciaCounter'[x] = ciaLatch'[x] - age'[x]
  BY <1>2, <1>4, <1>6, TopFacts DEF CiaTimerInv, CiaTimerTypes, LoadedAge, CiaWord
<1> QED BY <1>2, <1>5, <1>6 DEF CiaTimerInv

\* One timer through a tick.
LEMMA CountKeepsTime ==
  ASSUME CiaTimerInv, NEW t \in CiaTimers, NEW k \in Nat
  PROVE  /\ Count(t, k).counter \in CiaWord /\ Count(t, k).hit \in BOOLEAN
         /\ k = 0 => Count(t, k) = [counter |-> ciaCounter[t], hit |-> FALSE]
         /\ age[t] >= 0 /\ ~oneshot[t] => Count(t, k).counter = ciaLatch[t] - ((age[t] + k) % ciaLatch[t])
<1>1. PICK c \in CiaWord : c = ciaCounter[t]
  BY DEF CiaTimerInv, CiaTimerTypes
<1>2. PICK l \in CiaWord \ {0} : l = Reload(ciaLatch[t])
  BY TopFacts DEF CiaTimerInv, CiaTimerTypes
<1>3. Count(t, k) = IF k = 0 THEN [counter |-> c, hit |-> FALSE]
                    ELSE IF k < c THEN [counter |-> c - k, hit |-> FALSE]
                    ELSE IF oneshot[t] THEN [counter |-> 0, hit |-> TRUE]
                    ELSE [counter |-> l - ((k - c) % l), hit |-> TRUE]
  BY <1>1, <1>2, CountFacts
<1>4. l \in Nat \ {0} /\ l <= Top /\ c \in Nat /\ c <= Top /\ Top \in Nat
  BY TopFacts DEF CiaWord
<1>5. ~(k < c) => (k - c) % l \in 0 .. l - 1
  <2> SUFFICES ASSUME ~(k < c) PROVE (k - c) % l \in 0 .. l - 1
    OBVIOUS
  <2>1. PICK d \in Nat : d = k - c
    BY <1>4
  <2> QED BY <1>4, <2>1, DivMod
<1>6. Count(t, k).counter \in CiaWord /\ Count(t, k).hit \in BOOLEAN
  BY <1>3, <1>4, <1>5 DEF CiaWord
<1>7. ASSUME age[t] >= 0, ~oneshot[t]
      PROVE  Count(t, k).counter = ciaLatch[t] - ((age[t] + k) % ciaLatch[t])
  <2>1. l = ciaLatch[t]
    BY <1>2, <1>7 DEF CiaTimerInv, CiaTimerTypes, CiaWord, Reload
  <2>2. PICK a \in 0 .. l - 1 : a = age[t] /\ c = l - a
    BY <1>1, <1>4, <1>7, <2>1 DEF CiaTimerInv, CiaTimerTypes
  <2>3. CASE k < c
    <3>1. PICK x \in 0 .. l - 1 : x = a + k
      BY <1>4, <2>2, <2>3
    <3>2. x % l = x
      BY <1>4, <3>1
    <3> QED BY <1>3, <1>4, <2>1, <2>2, <2>3, <3>1, <3>2
  <2>4. CASE ~(k < c)
    <3>1. PICK d \in Nat : d = k - c
      BY <1>4, <2>4
    <3>2. a + k = d + l /\ k # 0
      BY <1>4, <2>2, <2>4, <3>1
    <3>3. (a + k) % l = d % l
      BY <1>4, <3>1, <3>2, ModPeriod
    <3> QED BY <1>3, <1>7, <2>1, <2>2, <2>4, <3>1, <3>2, <3>3
  <2> QED BY <2>3, <2>4
<1> QED BY <1>1, <1>3, <1>6, <1>7

\* tick() keeps both timers right, and a timer that expired is not raised again.
LEMMA CiaTickTimers ==
  ASSUME CiaTimerInv, NEW n \in Nat, NEW alarm \in BOOLEAN, CiaTick(n, alarm)
  PROVE  CiaTimerInv' /\ CiaQuietBits
<1> DEFINE hitA == "TA" \in CiaTimers /\ Count("TA", Cycles("TA", n, FALSE)).hit
           k(t) == Cycles(t, n, hitA)
<1>1. ASSUME NEW t \in CiaTimers
      PROVE  k(t) \in Nat /\ (~running[t] => k(t) = 0) /\ (running[t] /\ ~(t = "TB" /\ cascade) => k(t) = n)
  BY DEF Cycles
<1>2. /\ ciaCounter' = [t \in CiaTimers |-> Count(t, k(t)).counter]
      /\ running' = [t \in CiaTimers |-> running[t] /\ ~(Count(t, k(t)).hit /\ oneshot[t])]
      /\ ciaFired' = [t \in CiaTimers |-> ciaFired[t] \/ (Count(t, k(t)).hit /\ oneshot[t])]
      /\ age' = [t \in CiaTimers |->
                   IF ~running[t] \/ age[t] = -1 THEN age[t]
                   ELSE IF oneshot[t] \/ (t = "TB" /\ cascade) THEN -1
                   ELSE (age[t] + n) % ciaLatch[t]]
      /\ UNCHANGED << ciaLatch, oneshot >>
  BY DEF CiaTick, Stops
<1>3. pending' = pending \cup {t \in CiaTimers : Count(t, k(t)).hit} \cup (IF alarm THEN {"TOD"} ELSE {})
  BY DEF CiaTick
<1> HIDE DEF k
<1>4. ASSUME NEW t \in CiaTimers
      PROVE  /\ Count(t, k(t)).counter \in CiaWord /\ Count(t, k(t)).hit \in BOOLEAN
             /\ ~running[t] => ~Count(t, k(t)).hit /\ Count(t, k(t)).counter = ciaCounter[t]
             /\ age[t] >= 0 /\ ~oneshot[t] => Count(t, k(t)).counter = ciaLatch[t] - ((age[t] + k(t)) % ciaLatch[t])
  BY <1>1, CountKeepsTime
<1>5. CiaQuietBits
  <2>1. \A t \in CiaTimers : t # "TOD"
    BY CiaAssumption
  <2> QED BY <1>3, <1>4, <2>1 DEF CiaTimerInv, CiaQuietBits
<1>6. ASSUME NEW t \in CiaTimers, age[t] >= 0
      PROVE  (age[t] + n) % ciaLatch[t] \in 0 .. ciaLatch[t] - 1
  <2>1. PICK l \in Nat \ {0} : l = ciaLatch[t]
    BY <1>6, TopFacts DEF CiaTimerInv, CiaTimerTypes, CiaWord
  <2>2. PICK x \in Nat : x = age[t] + n
    BY <1>6 DEF CiaTimerInv, CiaTimerTypes
  <2> QED BY <2>1, <2>2, DivMod
<1>7. ASSUME NEW t \in CiaTimers
      PROVE  /\ age'[t] \in Nat \cup {-1}
             /\ age'[t] >= 0 => age'[t] < ciaLatch'[t] /\ ciaCounter'[t] = ciaLatch'[t] - age'[t]
  <2>1. ciaCounter'[t] = Count(t, k(t)).counter /\ ciaLatch'[t] = ciaLatch[t] /\ ciaLatch[t] \in Int
        /\ age[t] \in Nat \cup {-1}
    BY <1>2, TopFacts DEF CiaTimerInv, CiaTimerTypes, CiaWord
  <2>2. CASE ~running[t]
    BY <1>2, <1>4, <2>1, <2>2 DEF CiaTimerInv
  <2>3. CASE running[t] /\ (age[t] < 0 \/ oneshot[t] \/ (t = "TB" /\ cascade))
    BY <1>2, <2>1, <2>3 DEF CiaTimerInv
  <2>4. CASE running[t] /\ age[t] >= 0 /\ ~oneshot[t] /\ ~(t = "TB" /\ cascade)
    BY <1>1, <1>2, <1>4, <1>6, <2>1, <2>4
  <2> QED BY <2>1, <2>2, <2>3, <2>4
<1>8. CiaTimerTypes'
  BY <1>2, <1>4, <1>7 DEF CiaTimerInv, CiaTimerTypes
<1>9. \A t \in CiaTimers : ciaFired'[t] => ~running'[t]
  BY <1>2 DEF CiaTimerInv
<1> QED BY <1>5, <1>7, <1>8, <1>9 DEF CiaTimerInv

\* Every access, input and tick keeps the timers right.
LEMMA CiaTimerStep ==
  ASSUME CiaTimerInv, [CiaNext]_ciaVars
  PROVE  CiaTimerInv' /\ CiaQuietBits
<1>1. CASE CiaReset
  <2>1. CiaTimerTypes'
    BY <1>1, TopFacts DEF CiaReset, CiaTimerTypes, CiaWord
  <2>2. CiaTimerInv'
    BY <1>1, <2>1, TopFacts DEF CiaReset, CiaTimerInv
  <2> QED BY <1>1, <2>2 DEF CiaReset, CiaQuietBits
<1>2. CASE ReadIcr \/ UNCHANGED ciaVars
  BY <1>2, CiaTimersKept DEF ReadIcr, ciaVars, ciaTimerVars, CiaQuietBits
<1>3. ASSUME NEW set \in BOOLEAN, NEW F \in SUBSET CiaFlags, WriteIcr(set, F) PROVE CiaTimerInv' /\ CiaQuietBits
  BY <1>3, CiaTimersKept DEF WriteIcr, CiaQuietBits
<1>4. ASSUME NEW t \in CiaTimers, NEW b \in CiaByte, CiaWriteLatchLow(t, b) PROVE CiaTimerInv' /\ CiaQuietBits
  BY <1>4, CiaLatchLowTimers DEF CiaWriteLatchLow, CiaQuietBits
<1>5. ASSUME NEW t \in CiaTimers, NEW b \in CiaByte, CiaWriteLatchHigh(t, b) PROVE CiaTimerInv' /\ CiaQuietBits
  BY <1>5, CiaLatchHighTimers DEF CiaWriteLatchHigh, CiaQuietBits
<1>6. ASSUME NEW start \in BOOLEAN, NEW once \in BOOLEAN, NEW load \in BOOLEAN, NEW bit \in BOOLEAN,
             WriteCra(start, once, load, bit) \/ WriteCrb(start, once, load, bit)
      PROVE  CiaTimerInv' /\ CiaQuietBits
  <2>1. PICK t \in CiaTimers : CiaWriteControl(t, start, once, load)
    BY <1>6 DEF WriteCra, WriteCrb
  <2> QED BY <2>1, CiaWriteControlTimers DEF CiaWriteControl, CiaQuietBits
<1>7. CASE WriteSdr \/ ReceiveSerialByte
  BY <1>7, CiaTimersKept, CiaAssumption DEF WriteSdr, ReceiveSerialByte, CiaQuietBits
<1>8. ASSUME NEW level \in BOOLEAN, SetFlag(level) PROVE CiaTimerInv' /\ CiaQuietBits
  BY <1>8, CiaTimersKept, CiaAssumption DEF SetFlag, CiaQuietBits
<1>9. ASSUME NEW n \in 0..CiaMaxTick, NEW alarm \in BOOLEAN, CiaTick(n, alarm) PROVE CiaTimerInv' /\ CiaQuietBits
  BY <1>9, CiaTickTimers, CiaAssumption
<1> QED BY <1>1, <1>2, <1>3, <1>4, <1>5, <1>6, <1>7, <1>8, <1>9 DEF CiaNext

\* The power-on state.
LEMMA CiaTimerInit == CiaInit => CiaTimerInv
<1> SUFFICES ASSUME CiaInit PROVE CiaTimerInv
  OBVIOUS
<1>1. CiaTimerTypes
  BY TopFacts DEF CiaInit, CiaTimerTypes, CiaWord
<1> QED BY <1>1, TopFacts DEF CiaInit, CiaTimerInv

\* For every timer width and every way of cutting time into ticks, a continuous timer
\* stands where the cycles since it was loaded put it: no underflow is gained or lost.
THEOREM CiaTimersCorrect == CiaSpec => []TimerKeepsTime
<1>1. CiaTimerInv /\ [CiaNext]_ciaVars => CiaTimerInv'
  BY CiaTimerStep
<1>2. CiaTimerInv => TimerKeepsTime
  BY DEF CiaTimerInv, TimerKeepsTime
<1> QED BY CiaTimerInit, <1>1, <1>2, PTL DEF CiaSpec

\* For every timer width and tick size, a one-shot timer of the CIA raises its bit
\* once per start.
THEOREM CiaOneShotCorrect == CiaSpec => CiaOneShotFiresOnce
<1>1. CiaTimerInv /\ [CiaNext]_ciaVars => CiaTimerInv'
  BY CiaTimerStep
<1>2. CiaTimerInv /\ [CiaNext]_ciaVars
        => [\A t \in CiaTimers : ciaFired[t] /\ t \notin pending => t \notin pending']_ciaVars
  BY CiaTimerStep DEF CiaQuietBits
<1> QED BY CiaTimerInit, <1>1, <1>2, PTL DEF CiaSpec, CiaOneShotFiresOnce
-----------------------------------------------------------------------------
\* The registers of a time of day: BCD minutes and seconds up to 59, hours from
\* 1 to 12 with bit 7 for PM, and tenths.
TodMinutes == {16 * t + u : t \in 0 .. 5, u \in 0 .. 9}
TodHours == {128 * p + b : p \in 0 .. 1, b \in (1 .. 9) \cup (16 .. 18)}
TodTimes == [hr : TodHours, min : TodMinutes, sec : TodMinutes, ten : 0 .. 9]

\* The hour of the day.
TodHour(h) == (TodDecimal(h % 32) % 12) + 12 * (h \div 128)

LEMMA TodMinuteNext ==
  ASSUME NEW b \in TodMinutes
  PROVE  /\ TodDecimal(b) \in 0 .. 59
         /\ TodBcdInc(b, 59) \in TodMinutes
         /\ TodBcdInc(b, 59) = 0 <=> TodDecimal(b) = 59
         /\ TodDecimal(TodBcdInc(b, 59)) = IF TodDecimal(b) = 59 THEN 0 ELSE TodDecimal(b) + 1
<1>1. PICK t \in 0 .. 5, u \in 0 .. 9 : b = 16 * t + u
  BY DEF TodMinutes
<1>2. ASSUME NEW s \in 0 .. 5, NEW v \in 0 .. 9
      PROVE  /\ (16 * s + v) % 16 = v /\ (16 * s + v) \div 16 = s
             /\ 16 * s + v \in TodMinutes /\ TodDecimal(16 * s + v) = 10 * s + v
  <2>1. (16 * s + v) % 16 = v /\ (16 * s + v) \div 16 = s
    OBVIOUS
  <2> QED BY <2>1 DEF TodDecimal, TodMinutes
<1>3. TodBcdInc(b, 59) = IF u < 9 THEN 16 * t + (u + 1) ELSE IF t < 5 THEN 16 * (t + 1) + 0 ELSE 16 * 0 + 0
  BY <1>1, <1>2 DEF TodBcdInc
<1>4. TodDecimal(b) = 10 * t + u
  BY <1>1, <1>2
<1>5. CASE u < 9
  <2>1. u + 1 \in 0 .. 9
    BY <1>5
  <2>2. 16 * t + (u + 1) \in TodMinutes /\ TodDecimal(16 * t + (u + 1)) = 10 * t + (u + 1)
    BY <1>2, <2>1
  <2> QED BY <1>3, <1>4, <1>5, <2>2
<1>6. CASE u = 9 /\ t < 5
  <2>1. t + 1 \in 0 .. 5 /\ 0 \in 0 .. 9
    BY <1>6
  <2>2. 16 * (t + 1) + 0 \in TodMinutes /\ TodDecimal(16 * (t + 1) + 0) = 10 * (t + 1) + 0
    BY <1>2, <2>1
  <2> QED BY <1>3, <1>4, <1>6, <2>2
<1>7. CASE u = 9 /\ t = 5
  <2>1. 0 \in 0 .. 5 /\ 0 \in 0 .. 9
    OBVIOUS
  <2>2. 16 * 0 + 0 \in TodMinutes /\ TodDecimal(16 * 0 + 0) = 10 * 0 + 0
    BY <1>2, <2>1
  <2> QED BY <1>3, <1>4, <1>7, <2>2
<1> QED BY <1>5, <1>6, <1>7

\* Two times with the same minutes show the same register.
LEMMA TodMinuteOne ==
  ASSUME NEW b \in TodMinutes, NEW c \in TodMinutes, TodDecimal(b) = TodDecimal(c)
  PROVE  b = c
<1>1. PICK t \in 0 .. 5, u \in 0 .. 9 : b = 16 * t + u
  BY DEF TodMinutes
<1>2. PICK s \in 0 .. 5, v \in 0 .. 9 : c = 16 * s + v
  BY DEF TodMinutes
<1>3. TodDecimal(b) = 10 * t + u /\ TodDecimal(c) = 10 * s + v
  <2>1. (16 * t + u) % 16 = u /\ (16 * t + u) \div 16 = t
    OBVIOUS
  <2>2. (16 * s + v) % 16 = v /\ (16 * s + v) \div 16 = s
    OBVIOUS
  <2> QED BY <1>1, <1>2, <2>1, <2>2 DEF TodDecimal
<1> QED BY <1>1, <1>2, <1>3

\* The registers of the hours, split.
LEMMA TodHourParts ==
  ASSUME NEW p \in 0 .. 1, NEW b \in (1 .. 9) \cup (16 .. 18)
  PROVE  /\ (128 * p + b) % 32 = b /\ (128 * p + b) \div 128 = p
         /\ TodHour(128 * p + b) = (IF b = 18 THEN 0 ELSE IF b > 9 THEN b - 6 ELSE b) + 12 * p
<1>1. (128 * p + b) % 32 = b /\ (128 * p + b) \div 128 = p
  OBVIOUS
<1>2. TodDecimal(b) % 12 = IF b = 18 THEN 0 ELSE IF b > 9 THEN b - 6 ELSE b
  BY DEF TodDecimal
<1> QED BY <1>1, <1>2 DEF TodHour

LEMMA TodHourNext ==
  ASSUME NEW h \in TodHours
  PROVE  /\ TodHour(h) \in 0 .. 23
         /\ TodNextHour(h) \in TodHours
         /\ TodHour(TodNextHour(h)) = IF TodHour(h) = 23 THEN 0 ELSE TodHour(h) + 1
<1>1. PICK p \in 0 .. 1, b \in (1 .. 9) \cup (16 .. 18) : h = 128 * p + b
  BY DEF TodHours
<1>2. TodHour(h) = (IF b = 18 THEN 0 ELSE IF b > 9 THEN b - 6 ELSE b) + 12 * p
  BY <1>1, TodHourParts
<1> DEFINE n == IF b = 18 THEN 1 ELSE IF b = 9 THEN 16 ELSE b + 1
           q == IF b = 17 THEN 1 - p ELSE p
<1>3. n \in (1 .. 9) \cup (16 .. 18) /\ q \in 0 .. 1
  OBVIOUS
<1>4. TodBcdInc(b, 12) = IF b = 18 THEN 0 ELSE n
  BY DEF TodBcdInc
<1>5. (p + (IF b = 17 THEN 1 ELSE 0)) % 2 = q
  OBVIOUS
<1>6. h % 32 = b /\ h \div 128 = p
  BY <1>1, TodHourParts
<1>7. TodNextHour(h) = 128 * q + n
  BY <1>3, <1>4, <1>5, <1>6 DEF TodNextHour
<1>8. TodNextHour(h) \in TodHours
  BY <1>3, <1>7 DEF TodHours
<1>9. TodHour(TodNextHour(h)) = (IF n = 18 THEN 0 ELSE IF n > 9 THEN n - 6 ELSE n) + 12 * q
  BY <1>3, <1>7, TodHourParts
<1> QED BY <1>2, <1>8, <1>9

LEMMA TodHourOne ==
  ASSUME NEW h \in TodHours, NEW k \in TodHours, TodHour(h) = TodHour(k)
  PROVE  h = k
<1>1. PICK p \in 0 .. 1, b \in (1 .. 9) \cup (16 .. 18) : h = 128 * p + b
  BY DEF TodHours
<1>2. PICK q \in 0 .. 1, c \in (1 .. 9) \cup (16 .. 18) : k = 128 * q + c
  BY DEF TodHours
<1> QED BY <1>1, <1>2, TodHourParts

\* The tenths of a day.
TodDay == 864000

LEMMA TodDayMod ==
  ASSUME NEW x \in Nat
  PROVE  /\ TodDay \in Nat \ {0} /\ x % TodDay \in Nat /\ x % TodDay < TodDay
         /\ ((x % TodDay) + 1) % TodDay = (x + 1) % TodDay
         /\ x < TodDay => x % TodDay = x
         /\ x < TodDay => (x + 1) % TodDay = IF x + 1 = TodDay THEN 0 ELSE x + 1
BY SMT DEF TodDay

\* One tenth of a second: tickTOD's carries, from the tenths to the hours.
LEMMA TodAdvanceTenth ==
  ASSUME NEW c \in TodTimes
  PROVE  /\ TodTenths(c) \in Nat /\ TodTenths(c) < TodDay
         /\ TodAdvance(c) \in TodTimes
         /\ TodTenths(TodAdvance(c)) = (TodTenths(c) + 1) % TodDay
<1>1. /\ c.hr \in TodHours /\ c.min \in TodMinutes /\ c.sec \in TodMinutes /\ c.ten \in 0 .. 9
  BY DEF TodTimes
<1>2. PICK h \in 0 .. 23, m \in 0 .. 59, s \in 0 .. 59, t \in 0 .. 9 :
         h = TodHour(c.hr) /\ m = TodDecimal(c.min) /\ s = TodDecimal(c.sec) /\ t = c.ten
  BY <1>1, TodHourNext, TodMinuteNext
<1>3. ASSUME NEW d PROVE TodTenths(d) = ((TodHour(d.hr) * 60 + TodDecimal(d.min)) * 60 + TodDecimal(d.sec)) * 10 + d.ten
  BY DEF TodTenths, TodHour
<1>4. TodTenths(c) = ((h * 60 + m) * 60 + s) * 10 + t
  BY <1>2, <1>3
<1> DEFINE carry == t = 9
           full == carry /\ s = 59
<1>5. /\ TodTenths(c) \in Nat /\ TodTenths(c) < TodDay
      /\ TodTenths(c) + 1 = TodDay <=> full /\ m = 59 /\ h = 23
  <2>1. /\ TodTenths(c) \in Nat /\ TodTenths(c) < TodDay
        /\ TodTenths(c) + 1 = TodDay <=> h = 23 /\ m = 59 /\ s = 59 /\ t = 9
    <3>1. PICK x : x = TodTenths(c) /\ x = ((h * 60 + m) * 60 + s) * 10 + t
      BY <1>4
    <3>2. x \in Nat /\ x < TodDay /\ (x + 1 = TodDay <=> h = 23 /\ m = 59 /\ s = 59 /\ t = 9)
      BY <3>1, SMT DEF TodDay
    <3> QED BY <3>1, <3>2
  <2> QED BY <2>1
<1> DEFINE sec == IF carry THEN TodBcdInc(c.sec, 59) ELSE c.sec
           min == IF full THEN TodBcdInc(c.min, 59) ELSE c.min
           hr == IF full /\ m = 59 THEN TodNextHour(c.hr) ELSE c.hr
           ten == IF carry THEN 0 ELSE t + 1
<1>6. ((c.ten + 1) % 256 > 9 <=> carry) /\ (~carry => (c.ten + 1) % 256 = t + 1)
  <2>1. (t + 1) % 256 = t + 1
    OBVIOUS
  <2> QED BY <1>2, <2>1
<1>7. (carry /\ sec = 0 <=> full) /\ (full /\ min = 0 <=> full /\ m = 59)
  BY <1>1, <1>2, TodMinuteNext
<1>8. TodAdvance(c) = [ten |-> ten, sec |-> sec, min |-> min, hr |-> hr]
  BY <1>6, <1>7 DEF TodAdvance
<1>9. /\ sec \in TodMinutes
      /\ TodDecimal(sec) = IF ~carry THEN s ELSE IF s = 59 THEN 0 ELSE s + 1
  BY <1>1, <1>2, TodMinuteNext
<1>10. /\ min \in TodMinutes
       /\ TodDecimal(min) = IF ~full THEN m ELSE IF m = 59 THEN 0 ELSE m + 1
  BY <1>1, <1>2, TodMinuteNext
<1>11. /\ hr \in TodHours
       /\ TodHour(hr) = IF ~(full /\ m = 59) THEN h ELSE IF h = 23 THEN 0 ELSE h + 1
  BY <1>1, <1>2, TodHourNext
<1>12. ten \in 0 .. 9
  OBVIOUS
<1> HIDE DEF sec, min, hr, ten
<1>13. TodAdvance(c) \in TodTimes
  BY <1>8, <1>9, <1>10, <1>11, <1>12 DEF TodTimes
<1>14. TodTenths(TodAdvance(c)) = ((TodHour(hr) * 60 + TodDecimal(min)) * 60 + TodDecimal(sec)) * 10 + ten
  BY <1>3, <1>8
<1>15. TodTenths(TodAdvance(c)) = IF full /\ m = 59 /\ h = 23 THEN 0 ELSE TodTenths(c) + 1
  BY <1>4, <1>9, <1>10, <1>11, <1>14 DEF ten
<1>16. (TodTenths(c) + 1) % TodDay = IF TodTenths(c) + 1 = TodDay THEN 0 ELSE TodTenths(c) + 1
  BY <1>5, TodDayMod
<1> QED BY <1>5, <1>13, <1>15, <1>16

\* A time of day is what its registers show.
LEMMA TodTimeOne ==
  ASSUME NEW c \in TodTimes, NEW d \in TodTimes, TodTenths(c) = TodTenths(d)
  PROVE  c = d
<1>1. /\ c.hr \in TodHours /\ c.min \in TodMinutes /\ c.sec \in TodMinutes /\ c.ten \in 0 .. 9
      /\ d.hr \in TodHours /\ d.min \in TodMinutes /\ d.sec \in TodMinutes /\ d.ten \in 0 .. 9
  BY DEF TodTimes
<1>2. PICK h \in 0 .. 23, m \in 0 .. 59, s \in 0 .. 59, t \in 0 .. 9 :
         h = TodHour(c.hr) /\ m = TodDecimal(c.min) /\ s = TodDecimal(c.sec) /\ t = c.ten
  BY <1>1, TodHourNext, TodMinuteNext
<1>3. PICK i \in 0 .. 23, n \in 0 .. 59, u \in 0 .. 59, v \in 0 .. 9 :
         i = TodHour(d.hr) /\ n = TodDecimal(d.min) /\ u = TodDecimal(d.sec) /\ v = d.ten
  BY <1>1, TodHourNext, TodMinuteNext
<1>4. ((h * 60 + m) * 60 + s) * 10 + t = ((i * 60 + n) * 60 + u) * 10 + v
  BY <1>2, <1>3 DEF TodTenths, TodHour
<1>5. h = i /\ m = n /\ s = u /\ t = v
  BY <1>4
<1>6. c.hr = d.hr /\ c.min = d.min /\ c.sec = d.sec /\ c.ten = d.ten
  BY <1>1, <1>2, <1>3, <1>5, TodHourOne, TodMinuteOne
<1> QED BY <1>6 DEF TodTimes

\* The time that is k tenths after midnight.
TodOf(k) == CHOOSE c \in TodTimes : TodTenths(c) = k

\* tickTOD's loop, as a function of the tenths counted: n turns move the clock by n tenths.
LEMMA TodLoop ==
  ASSUME todClock \in TodTimes, NEW n \in Nat
  PROVE  TodAfter[n] \in TodTimes /\ TodTenths(TodAfter[n]) = (TodTenths(todClock) + n) % TodDay
<1> DEFINE start == TodTenths(todClock)
           at(k) == (start + k) % TodDay
           there(k) == \E c \in TodTimes : TodTenths(c) = at(k)
<1>1. start \in Nat /\ start < TodDay
  BY TodAdvanceTenth
<1>2. ASSUME NEW k \in Nat PROVE (at(k) + 1) % TodDay = at(k + 1)
  <2>1. PICK x \in Nat : x = start + k
    BY <1>1
  <2>2. PICK y \in Nat : y = start + (k + 1) /\ y = x + 1
    BY <1>1, <2>1
  <2> QED BY <2>1, <2>2, TodDayMod
<1>3. at(0) = start
  BY <1>1, TodDayMod
<1> HIDE DEF start, at
<1>4. \A k \in Nat : there(k)
  <2> DEFINE T == {k \in Nat : ~there(k)}
  <2> SUFFICES ASSUME T # {} PROVE FALSE
    OBVIOUS
  <2>1. PICK k \in T : \A j \in T : k <= j
    BY LeastNatural
  <2>2. k # 0
    <3>1. there(0)
      BY <1>3 DEF start
    <3> QED BY <2>1, <3>1
  <2>3. PICK j \in Nat : k = j + 1
    BY <2>1, <2>2
  <2>4. there(j)
    BY <2>1, <2>3
  <2>5. PICK c \in TodTimes : TodTenths(c) = at(j)
    BY <2>4
  <2>6. TodAdvance(c) \in TodTimes /\ TodTenths(TodAdvance(c)) = at(j + 1)
    BY <1>2, <2>5, TodAdvanceTenth
  <2> QED BY <2>1, <2>3, <2>6
<1> DEFINE f == [k \in Nat |-> TodOf(at(k))]
<1>5. ASSUME NEW k \in Nat PROVE f[k] \in TodTimes /\ TodTenths(f[k]) = at(k)
  BY <1>4 DEF TodOf
<1>6. f[0] = todClock
  BY <1>3, <1>5, TodTimeOne DEF start
<1>7. ASSUME NEW k \in Nat \ {0} PROVE f[k] = TodAdvance(f[k - 1])
  <2>1. PICK j \in Nat : j = k - 1 /\ k = j + 1
    <3>1. k - 1 \in Nat /\ k = (k - 1) + 1
      OBVIOUS
    <3> QED BY <3>1
  <2>2. TodAdvance(f[j]) \in TodTimes /\ TodTenths(TodAdvance(f[j])) = at(k)
    BY <1>2, <1>5, <2>1, TodAdvanceTenth
  <2> QED BY <1>5, <2>1, <2>2, TodTimeOne
<1> HIDE DEF there
<1>8. f = [k \in Nat |-> IF k = 0 THEN todClock ELSE TodAdvance(f[k - 1])]
  <2>1. ASSUME NEW k \in Nat PROVE TodOf(at(k)) = IF k = 0 THEN todClock ELSE TodAdvance(f[k - 1])
    BY <1>6, <1>7
  <2> QED BY <2>1
<1> DEFINE R(g) == g = [k \in Nat |-> IF k = 0 THEN todClock ELSE TodAdvance(g[k - 1])]
<1>9. R(TodAfter)
  <2>1. R(f)
    BY <1>8
  <2>2. TodAfter = CHOOSE g : R(g)
    BY DEF TodAfter
  <2> HIDE DEF R
  <2> QED BY <2>1, <2>2
<1>10. \A k \in Nat : TodAfter[k] = f[k]
  <2> DEFINE T == {k \in Nat : TodAfter[k] # f[k]}
  <2> SUFFICES ASSUME T # {} PROVE FALSE
    OBVIOUS
  <2>1. PICK k \in T : \A j \in T : k <= j
    BY LeastNatural
  <2>2. TodAfter[0] = todClock
    BY <1>9
  <2>3. k # 0
    BY <1>6, <2>1, <2>2
  <2>4. PICK j \in Nat : j = k - 1 /\ k = j + 1
    <3>1. k - 1 \in Nat /\ k = (k - 1) + 1
      BY <2>1, <2>3
    <3> QED BY <3>1
  <2>5. TodAfter[j] = f[j]
    BY <2>1, <2>4
  <2>6. TodAfter[k] = TodAdvance(TodAfter[k - 1])
    BY <1>9, <2>1, <2>3
  <2>7. f[k] = TodAdvance(f[k - 1])
    BY <1>7, <2>1, <2>3
  <2> HIDE DEF f
  <2> QED BY <2>1, <2>4, <2>5, <2>6, <2>7
<1> QED BY <1>5, <1>10 DEF at, start
-----------------------------------------------------------------------------
\* What a register of a time of day may hold.
TodLegal(r) == CASE r = "hr" -> TodHours [] r = "ten" -> 0 .. 9 [] OTHER -> TodMinutes

(***************************************************************************)
(* The clock is a time of day and less than a tenth is carried over; while *)
(* the program is between the hours and the tenths the latch is closed on  *)
(* the time that it asked for.                                             *)
(***************************************************************************)
TodInv ==
  /\ todClock \in TodTimes /\ todAccum \in Nat /\ todAccum < TodPeriod /\ todTicks \in Nat
  /\ todRead \subseteq TodRegs
  /\ todRead # {} => todLatch = todAsked /\ todAsked \in TodTimes
  /\ ~todTorn

LEMMA TodTimesRegs ==
  ASSUME NEW c \in TodTimes
  PROVE  /\ \A r \in TodRegs : \A v \in TodLegal(r) : [c EXCEPT ![r] = v] \in TodTimes
         /\ c # TodOpen
<1>1. ASSUME NEW r \in TodRegs, NEW v \in TodLegal(r) PROVE [c EXCEPT ![r] = v] \in TodTimes
  <2>1. CASE r = "hr"
    BY <1>1, <2>1 DEF TodTimes, TodLegal
  <2>2. CASE r = "min"
    BY <1>1, <2>2 DEF TodTimes, TodLegal
  <2>3. CASE r = "sec"
    BY <1>1, <2>3 DEF TodTimes, TodLegal
  <2>4. CASE r = "ten"
    BY <1>1, <2>4 DEF TodTimes, TodLegal
  <2> QED BY <2>1, <2>2, <2>3, <2>4 DEF TodRegs
<1>2. c # TodOpen
  <2>1. "hr" \in DOMAIN c
    BY DEF TodTimes
  <2>2. "hr" \notin DOMAIN TodOpen
    BY DEF TodOpen
  <2> QED BY <2>1, <2>2
<1> QED BY <1>1, <1>2

\* The tenths a tick counts.
LEMMA TodTickCounts ==
  ASSUME TodInv, NEW c \in 1 .. TodPeriod + 1, TodTick(c)
  PROVE  /\ todClock' \in TodTimes /\ todAccum' \in Nat /\ todAccum' < TodPeriod
         /\ todTicks' \in Nat
         /\ TodTenths(todClock') = (TodTenths(todClock) + todTicks' - todTicks) % TodDay
<1>1. PICK all \in Nat : all = todAccum + c
  BY TodAssumption DEF TodInv
<1>2. PICK n \in Nat : n = all \div TodPeriod /\ all % TodPeriod \in 0 .. TodPeriod - 1
  BY DivMod, TodAssumption
<1>3. todClock' = TodAfter[n] /\ todTicks' = todTicks + n /\ todAccum' = all % TodPeriod
  BY <1>1, <1>2 DEF TodTick
<1>4. todClock' \in TodTimes /\ TodTenths(todClock') = (TodTenths(todClock) + n) % TodDay
  BY <1>3, TodLoop DEF TodInv
<1>5. TodTenths(todClock) + todTicks' - todTicks = TodTenths(todClock) + n
  <2>1. TodTenths(todClock) \in Nat /\ todTicks \in Nat
    BY TodAdvanceTenth DEF TodInv
  <2> QED BY <1>3, <2>1
<1> QED BY <1>2, <1>3, <1>4, <1>5, TodAssumption DEF TodInv

LEMMA TodStep ==
  ASSUME \A r \in TodRegs : TodValues[r] \subseteq TodLegal(r), TodInv, [TodNext]_todVars
  PROVE  /\ TodInv'
         /\ todTicks' > todTicks => TodTenths(todClock') = (TodTenths(todClock) + todTicks' - todTicks) % TodDay
<1>1. ASSUME NEW c \in 1 .. TodPeriod + 1, TodTick(c)
      PROVE  /\ TodInv'
             /\ TodTenths(todClock') = (TodTenths(todClock) + todTicks' - todTicks) % TodDay
  BY <1>1, TodTickCounts DEF TodInv, TodTick
<1>2. ASSUME NEW r \in TodRegs, NEW v \in TodValues[r], TodWrite(r, v)
      PROVE  TodInv' /\ todTicks' = todTicks
  <2>1. [todClock EXCEPT ![r] = v] \in TodTimes
    BY TodTimesRegs DEF TodInv
  <2> QED BY <1>2, <2>1 DEF TodInv, TodWrite
<1>3. CASE TodReadHours
  BY <1>3 DEF TodInv, TodReadHours, TodRegs
<1>4. ASSUME NEW r \in {"min", "sec", "ten"}, TodReadNext(r)
      PROVE  TodInv' /\ todTicks' = todTicks
  <2>1. todRead # {}
    BY <1>4 DEF TodReadNext
  <2>2. todLatch = todAsked /\ todLatch # TodOpen
    BY <2>1, TodTimesRegs DEF TodInv
  <2>3. TodShown(r) = todAsked[r]
    BY <2>2 DEF TodShown
  <2>4. ~todTorn'
    BY <1>4, <2>3 DEF TodReadNext, TodInv
  <2>5. CASE r = "ten"
    BY <1>4, <2>4, <2>5 DEF TodReadNext, TodInv
  <2>6. CASE r # "ten"
    <3>1. todRead' = todRead \cup {r} /\ todLatch' = todLatch /\ todAsked' = todAsked
      BY <1>4, <2>6 DEF TodReadNext
    <3>2. todRead' \subseteq TodRegs
      BY <3>1 DEF TodInv, TodRegs
    <3> QED BY <1>4, <2>1, <2>4, <3>1, <3>2 DEF TodReadNext, TodInv
  <2> QED BY <2>5, <2>6
<1>5. CASE (\E on \in BOOLEAN : TodSelect(on)) \/ TodTakeAlarm \/ UNCHANGED todVars
  BY <1>5 DEF TodInv, TodSelect, TodTakeAlarm, todVars
<1>6. TodReadHours \/ (\E on \in BOOLEAN : TodSelect(on)) \/ TodTakeAlarm \/ UNCHANGED todVars => todTicks' = todTicks
  BY DEF TodReadHours, TodSelect, TodTakeAlarm, todVars
<1>7. todTicks \in Nat
  BY DEF TodInv
<1> QED BY <1>1, <1>2, <1>3, <1>4, <1>5, <1>6, <1>7 DEF TodNext

\* For a program that sets times of day: the registers that it reads from the hours to
\* the tenths are those of one moment, and however the cycles fall into ticks the clock
\* moves by exactly the tenths that have passed, modulo a day (tickTOD, readReg).
THEOREM TodCorrect ==
  ASSUME \A r \in TodRegs : TodValues[r] \subseteq TodLegal(r)
  PROVE  TodSpec => TodRight
<1>1. TodInit => TodInv
  <2>1. TodReset \in TodTimes
    <3>1. 128 * 0 + 1 \in TodHours /\ 16 * 0 + 0 \in TodMinutes
      BY DEF TodHours, TodMinutes
    <3> QED BY <3>1 DEF TodReset, TodTimes
  <2> QED BY <2>1, TodAssumption DEF TodInit, TodInv
<1>2. TodInv /\ [TodNext]_todVars => TodInv'
  BY TodStep
<1>3. TodInv /\ [TodNext]_todVars
        => [todTicks' > todTicks => TodTenths(todClock') = (TodTenths(todClock) + todTicks' - todTicks) % 864000]_todVars
  BY TodStep, SMT DEF TodDay
<1>4. TodInv => TodNotTorn
  BY DEF TodInv, TodNotTorn
<1> QED BY <1>1, <1>2, <1>3, <1>4, PTL DEF TodSpec, TodRight, TodKeepsTime
=============================================================================
