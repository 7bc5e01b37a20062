------------------------------- MODULE VIA6522 -------------------------------
(***************************************************************************)
(* The 6522 VIA (plugins/devices/via6522/main/via6522.cpp): interrupt      *)
(* flags, the two timers, and the CA1/CA2, CB1/CB2 control lines with      *)
(* their handshakes.  Port data and data direction registers only pass     *)
(* values to the port devices and are left out.                            *)
(*                                                                         *)
(* The two sides behave alike.  C1 of a side is driven through the chip's  *)
(* own CA1Conduit / CB1Conduit, whose set() detects the edge at once; the  *)
(* same level is looked at again by tick() with m_ca1Prev / m_cb1Prev.     *)
(***************************************************************************)
EXTENDS Integers

CONSTANTS
  ViaSides,     \* the sides whose control lines are used
  ViaTimers,    \* the timers the program uses
  ViaByteMod,   \* number of values of a timer byte (256 in the code)
  ViaMaxTick    \* bound: the most cycles one tick() passes

ASSUME ViaAssumption ==
  /\ ViaSides \subseteq {"A", "B"}
  /\ ViaTimers \subseteq {"T1", "T2"}
  /\ ViaByteMod \in Nat \ {0}
  /\ ViaMaxTick \in Nat

ViaByte == 0 .. ViaByteMod - 1
ViaWord == 0 .. ViaByteMod * ViaByteMod - 1

\* The IFR / IER bits, by name.
C1(s) == IF s = "A" THEN "CA1" ELSE "CB1"
C2(s) == IF s = "A" THEN "CA2" ELSE "CB2"
ViaFlags == ViaTimers \cup {C1(s) : s \in ViaSides} \cup {C2(s) : s \in ViaSides}

\* The PCR field of a side: c1Up, the active edge of C1, and the C2 mode.
\* Modes 0-3 are inputs (odd ones independent, 2 and 3 positive edge), 4 is
\* the handshake output, 5 the pulse output, 6 and 7 the manual outputs.
ViaControl == [c1Up : BOOLEAN, mode : 0..7]

VARIABLES
  ifr, ier, irqBit,       \* m_regs[IFR] bits 0-6, m_regs[IER], IFR bit 7
  lastIrq, viaLine,          \* m_lastIrq and the level of the IRQ line it drives
  pcr, acrRun,            \* m_regs[PCR]; ACR bit 6, T1 continuous mode
  viaC1, c1Prev, viaC2, c2Prev, \* line levels and the levels tick() last saw
  viaLatch, viaCounter, active, \* the timers
  viaHeld,                   \* history: a port access asserted C2 in handshake
                          \* mode and C1 has not answered
  viaFired                   \* history: the timer expired in one-shot mode and
                          \* was not started again

irqVars == << ifr, ier, irqBit, lastIrq, viaLine >>
pinVars == << viaC1, c1Prev, viaC2, c2Prev, viaHeld >>
viaTimerVars == << viaLatch, viaCounter, active, acrRun, viaFired >>
viaVars == << irqVars, pcr, pinVars, viaTimerVars >>

ViaTypeOK ==
  /\ ifr \subseteq ViaFlags /\ ier \subseteq ViaFlags
  /\ irqBit \in BOOLEAN /\ lastIrq \in BOOLEAN /\ viaLine \in BOOLEAN
  /\ pcr \in [ViaSides -> ViaControl] /\ acrRun \in BOOLEAN
  /\ viaC1 \in [ViaSides -> BOOLEAN] /\ c1Prev \in [ViaSides -> BOOLEAN]
  /\ viaC2 \in [ViaSides -> BOOLEAN] /\ c2Prev \in [ViaSides -> BOOLEAN]
  /\ viaLatch \in [ViaTimers -> [lo : ViaByte, hi : ViaByte]]
  /\ viaCounter \in [ViaTimers -> ViaWord] /\ active \in [ViaTimers -> BOOLEAN]
  /\ viaHeld \in [ViaSides -> BOOLEAN] /\ viaFired \in [ViaTimers -> BOOLEAN]

Value(l) == l.hi * ViaByteMod + l.lo

\* The registers reset() writes, without the IRQ line and the pins.
ResetRegs ==
  /\ ifr' = {} /\ ier' = {} /\ irqBit' = FALSE /\ lastIrq' = FALSE
  /\ pcr' = [s \in ViaSides |-> [c1Up |-> FALSE, mode |-> 0]]
  /\ acrRun' = FALSE
  /\ viaLatch' = [t \in ViaTimers |->
       IF t = "T1" THEN [lo |-> ViaByteMod - 1, hi |-> ViaByteMod - 1] ELSE [lo |-> 0, hi |-> 0]]
  /\ viaCounter' = [t \in ViaTimers |-> 0]
  /\ active' = [t \in ViaTimers |-> FALSE]
  /\ viaFired' = [t \in ViaTimers |-> FALSE]

ViaInit ==
  /\ ifr = {} /\ ier = {} /\ irqBit = FALSE /\ lastIrq = FALSE /\ viaLine = FALSE
  /\ pcr = [s \in ViaSides |-> [c1Up |-> FALSE, mode |-> 0]]
  /\ acrRun = FALSE
  /\ viaC1 = [s \in ViaSides |-> TRUE] /\ c1Prev = [s \in ViaSides |-> TRUE]
  /\ viaC2 = [s \in ViaSides |-> TRUE] /\ c2Prev = [s \in ViaSides |-> TRUE]
  /\ viaLatch = [t \in ViaTimers |-> IF t = "T1" THEN [lo |-> ViaByteMod - 1, hi |-> ViaByteMod - 1]
                                           ELSE [lo |-> 0, hi |-> 0]]
  /\ viaCounter = [t \in ViaTimers |-> 0]
  /\ active = [t \in ViaTimers |-> FALSE]
  /\ viaHeld = [s \in ViaSides |-> FALSE] /\ viaFired = [t \in ViaTimers |-> FALSE]

\* updateIrq(), after ifr or ier changed: bit 7 follows, and the line is set
\* only when the output changes.
ViaUpdateIrq ==
  LET on == ifr' \cap ier' # {}
  IN  /\ irqBit' = on
      /\ lastIrq' = on
      /\ viaLine' = IF on # lastIrq THEN on ELSE viaLine

IsInput(mode) == mode < 4

\* The edge the side's C1 control bit selects, from level old to level new.
C1Edge(s, old, new) == IF pcr[s].c1Up THEN ~old /\ new ELSE old /\ ~new

\* Likewise for C2 as an input.
C2Edge(s, old, new) == IF pcr[s].mode \in {2, 3} THEN ~old /\ new ELSE old /\ ~new

-----------------------------------------------------------------------------
\* CA1Conduit::set / CB1Conduit::set: an active edge raises the flag and, in
\* handshake mode, releases C2.
ViaSetC1(s, level) ==
  LET edge == C1Edge(s, viaC1[s], level)
      released == edge /\ pcr[s].mode = 4
  IN  /\ viaC1' = [viaC1 EXCEPT ![s] = level]
      /\ c1Prev' = [c1Prev EXCEPT ![s] = level]
      /\ viaC2' = [viaC2 EXCEPT ![s] = @ \/ released]
      /\ viaHeld' = [viaHeld EXCEPT ![s] = @ /\ ~edge]
      /\ IF edge THEN ifr' = ifr \cup {C1(s)} /\ UNCHANGED ier /\ ViaUpdateIrq
                 ELSE UNCHANGED irqVars
      /\ UNCHANGED << c2Prev, pcr, viaTimerVars >>

\* A device drives C2 of a side that listens to it.
ViaSetC2(s, level) ==
  /\ IsInput(pcr[s].mode)
  /\ viaC2' = [viaC2 EXCEPT ![s] = level]
  /\ UNCHANGED << irqVars, pcr, viaC1, c1Prev, c2Prev, viaHeld, viaTimerVars >>

\* Faulty: the port access does not assert C2.
C2AfterAccessKept(s) == viaC2[s]

\* A port access asserts C2 in handshake mode and pulses it in pulse mode.
C2AfterAccess(s) == pcr[s].mode # 4 /\ (viaC2[s] \/ pcr[s].mode = 5)

\* Reading or writing ORA or ORB: clears C1's flag, and C2's when C2 is a
\* dependent input.
AccessPort(s) ==
  /\ ifr' = ifr \ ({C1(s)} \cup (IF pcr[s].mode \in {0, 2} THEN {C2(s)} ELSE {}))
  /\ viaC2' = [viaC2 EXCEPT ![s] = C2AfterAccess(s)]
  /\ viaHeld' = [viaHeld EXCEPT ![s] = @ \/ pcr[s].mode = 4]
  /\ UNCHANGED ier
  /\ ViaUpdateIrq
  /\ UNCHANGED << pcr, viaC1, c1Prev, c2Prev, viaTimerVars >>

\* Writing PCR: the manual output modes drive C2 at once.
WritePcr(f) ==
  /\ pcr' = f
  /\ viaC2' = [s \in ViaSides |-> IF f[s].mode = 6 THEN FALSE
                            ELSE IF f[s].mode = 7 THEN TRUE ELSE viaC2[s]]
  /\ viaHeld' = [s \in ViaSides |-> FALSE]
  /\ UNCHANGED << irqVars, viaC1, c1Prev, c2Prev, viaTimerVars >>

WriteAcr(run) ==
  /\ acrRun' = run
  /\ UNCHANGED << irqVars, pcr, pinVars, viaLatch, viaCounter, active, viaFired >>

\* Writing ones to IFR clears those flags.
WriteIfr(F) ==
  /\ ifr' = ifr \ F
  /\ UNCHANGED ier
  /\ ViaUpdateIrq
  /\ UNCHANGED << pcr, pinVars, viaTimerVars >>

\* Faulty: the enable register is written without updateIrq().
WriteIerNoUpdate(set, F) ==
  /\ ier' = IF set THEN ier \cup F ELSE ier \ F
  /\ UNCHANGED << ifr, irqBit, lastIrq, viaLine, pcr, pinVars, viaTimerVars >>

\* Writing IER sets or clears the chosen enables.
WriteIer(set, F) ==
  /\ ier' = IF set THEN ier \cup F ELSE ier \ F
  /\ UNCHANGED ifr
  /\ ViaUpdateIrq
  /\ UNCHANGED << pcr, pinVars, viaTimerVars >>

\* Reading the low counter byte clears the timer's flag.
ReadCounter(t) ==
  /\ ifr' = ifr \ {t}
  /\ UNCHANGED ier
  /\ ViaUpdateIrq
  /\ UNCHANGED << pcr, pinVars, viaTimerVars >>

\* T1CL, T1LL, T2CL: the low latch byte.
ViaWriteLatchLow(t, b) ==
  /\ viaLatch' = [viaLatch EXCEPT ![t].lo = b]
  /\ UNCHANGED << irqVars, pcr, pinVars, viaCounter, active, acrRun, viaFired >>

\* T1LH: the high latch byte of timer 1, which also clears its flag.
ViaWriteLatchHigh(b) ==
  /\ "T1" \in ViaTimers
  /\ viaLatch' = [viaLatch EXCEPT !["T1"].hi = b]
  /\ ifr' = ifr \ {"T1"}
  /\ UNCHANGED ier
  /\ ViaUpdateIrq
  /\ UNCHANGED << pcr, pinVars, viaCounter, active, acrRun, viaFired >>

\* T1CH, T2CH: load the counter from the latch and start the timer.
StartTimer(t, b) ==
  /\ viaLatch' = [viaLatch EXCEPT ![t].hi = IF t = "T1" THEN b ELSE @]
  /\ viaCounter' = [viaCounter EXCEPT ![t] = Value([viaLatch[t] EXCEPT !.hi = b])]
  /\ active' = [active EXCEPT ![t] = TRUE]
  /\ viaFired' = [viaFired EXCEPT ![t] = FALSE]
  /\ ifr' = ifr \ {t}
  /\ UNCHANGED ier
  /\ ViaUpdateIrq
  /\ UNCHANGED << pcr, pinVars, acrRun >>

\* What tick() finds on the control lines: an edge between the level of the
\* last tick and the level now.
C1Hit(s) == C1Edge(s, c1Prev[s], viaC1[s])
C2Hit(s) == IsInput(pcr[s].mode) /\ C2Edge(s, c2Prev[s], viaC2[s])

\* The timer underflows within the next n cycles; only timer 1 in continuous
\* mode is reloaded then.
Expires(t, n) == active[t] /\ viaCounter[t] < n
Reloads(t) == t = "T1" /\ acrRun

\* Faulty: the subtraction does not wrap.
CountDownNoWrap(c, n) == c - n

\* The uint16_t subtraction.
CountDown(c, n) == (c - n) % (ViaByteMod * ViaByteMod)

\* Faulty: a one-shot timer goes on counting after it expired.
StaysActiveAlways(t, n) == active[t]

\* A timer that underflows without being reloaded stops.
StaysActive(t, n) == active[t] /\ (Expires(t, n) => Reloads(t))

\* tick(n): the control lines, then both timers.  Flags are only set, so the
\* IRQ line moves at most once.
ViaTick(n) ==
  /\ ifr' = ifr \cup {C1(s) : s \in {x \in ViaSides : C1Hit(x)}}
                \cup {C2(s) : s \in {x \in ViaSides : C2Hit(x)}}
                \cup {t \in ViaTimers : Expires(t, n)}
  /\ UNCHANGED ier
  /\ ViaUpdateIrq
  /\ c1Prev' = viaC1
  /\ viaC2' = [s \in ViaSides |-> viaC2[s] \/ (C1Hit(s) /\ pcr[s].mode = 4)]
  /\ c2Prev' = [s \in ViaSides |-> IF IsInput(pcr[s].mode) THEN viaC2[s] ELSE c2Prev[s]]
  /\ viaHeld' = [s \in ViaSides |-> viaHeld[s] /\ ~C1Hit(s)]
  /\ viaCounter' = [t \in ViaTimers |->
                   IF Expires(t, n) /\ Reloads(t) THEN Value(viaLatch[t])
                   ELSE IF active[t] THEN CountDown(viaCounter[t], n)
                   ELSE viaCounter[t]]
  /\ active' = [t \in ViaTimers |-> StaysActive(t, n)]
  /\ viaFired' = [t \in ViaTimers |-> viaFired[t] \/ (Expires(t, n) /\ ~Reloads(t))]
  /\ UNCHANGED << pcr, viaC1, viaLatch, acrRun >>

\* reset(): registers, then the IRQ line and both C2 lines.  The levels that
\* drive C1 are not the chip's to reset, but m_ca1Prev and m_cb1Prev are.
ViaReset ==
  /\ ResetRegs
  /\ viaLine' = FALSE
  /\ c1Prev' = [s \in ViaSides |-> TRUE] /\ c2Prev' = [s \in ViaSides |-> TRUE]
  /\ viaC2' = [s \in ViaSides |-> TRUE]
  /\ viaHeld' = [s \in ViaSides |-> FALSE]
  /\ UNCHANGED viaC1

ViaNext ==
  \/ \E s \in ViaSides, level \in BOOLEAN : ViaSetC1(s, level) \/ ViaSetC2(s, level)
  \/ \E s \in ViaSides : AccessPort(s)
  \/ \E f \in [ViaSides -> ViaControl] : WritePcr(f)
  \/ \E run \in BOOLEAN : WriteAcr(run)
  \/ \E F \in SUBSET ViaFlags : WriteIfr(F)
  \/ \E F \in SUBSET ViaFlags, set \in BOOLEAN : WriteIer(set, F)
  \/ \E t \in ViaTimers : ReadCounter(t)
  \/ \E t \in ViaTimers, b \in ViaByte : ViaWriteLatchLow(t, b) \/ StartTimer(t, b)
  \/ \E b \in ViaByte : ViaWriteLatchHigh(b)
  \/ \E n \in 0..ViaMaxTick : ViaTick(n)
  \/ ViaReset

ViaSpec == ViaInit /\ [][ViaNext]_viaVars

-----------------------------------------------------------------------------
\* The IRQ output, its cached copy and IFR bit 7 all equal "some enabled flag
\* is set" after every register access, edge, tick and reset, although
\* updateIrq() touches the line only on a change.
ViaIrqFollowsFlags ==
  LET on == ifr \cap ier # {}
  IN  irqBit = on /\ lastIrq = on /\ viaLine = on

\* The CA2/CB2 handshake: from the port access that asserts it until the
\* active C1 edge that answers it (seen by the conduit or by tick), C2 stays
\* asserted.
ViaHandshakeHeld == \A s \in ViaSides : viaHeld[s] => pcr[s].mode = 4 /\ ~viaC2[s]

\* A timer in one-shot mode interrupts once per start: after it expired, its
\* flag is not raised again before the program writes T1CH / T2CH, whatever
\* it does to the latch, to ACR and to the flag.
ViaOneShotFiresOnce ==
  [][\A t \in ViaTimers : viaFired[t] /\ t \notin ifr => t \notin ifr']_viaVars
=============================================================================
