------------------------------- MODULE MCChips -------------------------------
(***************************************************************************)
(* The interface chips for TLC, one chip at a time: a behaviour is a       *)
(* behaviour of the chip chosen at the start.                              *)
(***************************************************************************)
EXTENDS VIA6522, CIA6526, PIA6520, FiniteSets

VARIABLE unit   \* the chip this behaviour is about

vars == <<unit, viaVars, ciaVars, todVars, piaVars>>

Init ==
    /\ unit \in {"via", "cia", "tod", "pia"}
    /\ ViaInit /\ CiaInit /\ TodInit /\ PiaInit

Next ==
    /\ UNCHANGED unit
    /\ \/ unit = "via" /\ ViaNext /\ UNCHANGED <<ciaVars, todVars, piaVars>>
       \/ unit = "cia" /\ CiaNext /\ UNCHANGED <<viaVars, todVars, piaVars>>
       \/ unit = "tod" /\ TodNext /\ UNCHANGED <<viaVars, ciaVars, piaVars>>
       \/ unit = "pia" /\ PiaNext /\ UNCHANGED <<viaVars, ciaVars, todVars>>

Spec == Init /\ [][Next]_vars
-----------------------------------------------------------------------------
(***************************************************************************)
(* VIA.  The two sides and the pair of timers meet only in IFR and IER, so *)
(* the search follows behaviours that use one of them at a time; the       *)
(* theorems of Chips_proofs cover every combination.                       *)
(***************************************************************************)
ViaSideUsed(s) ==
  \/ {C1(s), C2(s)} \cap (ifr \cup ier) # {}
  \/ pcr[s] # [c1Up |-> FALSE, mode |-> 0]
  \/ ~(viaC1[s] /\ c1Prev[s] /\ viaC2[s] /\ c2Prev[s])

ViaTimersUsed ==
  \/ ViaTimers \cap (ifr \cup ier) # {}
  \/ acrRun
  \/ \E t \in ViaTimers :
        \/ active[t] \/ viaCounter[t] # 0
        \/ Value(viaLatch[t]) # IF t = "T1" THEN ViaByteMod * ViaByteMod - 1 ELSE 0

ViaOneUnitAtATime ==
  \A s \in ViaSides : ViaSideUsed(s) =>
      ~ViaTimersUsed /\ \A x \in ViaSides \ {s} : ~ViaSideUsed(x)
-----------------------------------------------------------------------------
(***************************************************************************)
(* CIA: either both timers with the cascade, where timer A counts on, with *)
(* a period of one or three cycles, and does not interrupt; or timer A     *)
(* (whose control register also turns the serial port) with one other      *)
(* source; or two other sources, enough to have one pending while another  *)
(* is raised.                                                              *)
(***************************************************************************)
CiaTimerBUsed ==
  \/ "TB" \in pending \cup mask
  \/ cascade \/ oneshot["TB"] \/ running["TB"]
  \/ ciaLatch["TB"] # Top \/ ciaCounter["TB"] # Top

CiaEventsUsed == Events \cap (pending \cup mask) # {} \/ serialOut \/ ~flagLevel

CiaTimerBOrEvents == ~(CiaTimerBUsed /\ CiaEventsUsed)
CiaTimerAQuiet ==
  CiaTimerBUsed => "TA" \notin mask /\ ~oneshot["TA"] /\ ~ciaFired["TA"] /\ ciaLatch["TA"] # 2
CiaTwoEvents ==
  LET n == Cardinality(Events \cap (pending \cup mask))
  IN  n < 2 \/ (n = 2 /\ ~running["TA"] /\ ciaLatch["TA"] = Top)
-----------------------------------------------------------------------------
\* Time of day: hours on both sides of noon, the other registers at their ends;
\* the alarm is set or the time is read.
MCTodValues == [hr |-> {17, 145}, min |-> {89}, sec |-> {89}, ten |-> {9}]
TodReadOrAlarm == todLatch = TodOpen \/ todAlarm = TodReset
-----------------------------------------------------------------------------
\* PIA: the sides share no state, one of them has left its reset state.
PiaSideUsed(s) ==
  \/ cr[s] # Cleared \/ flag1[s] \/ flag2[s] \/ piaLine[s]
  \/ ~(piaC1[s] /\ piaC2[s] /\ prev1[s] /\ prev2[s])

PiaOneSideAtATime ==
  \A s \in PiaSides : PiaSideUsed(s) => \A x \in PiaSides \ {s} : ~PiaSideUsed(x)
=============================================================================
