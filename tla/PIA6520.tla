------------------------------- MODULE PIA6520 -------------------------------
(***************************************************************************)
(* The 6520 PIA (plugins/devices/pia6520/main/pia6520.cpp): the interrupt  *)
(* flags, IRQ outputs, control lines and handshakes of its two sides.      *)
(* Port data and data direction registers only pass values to the port     *)
(* devices and are left out.  The sides differ in one thing: reading ORA   *)
(* starts the handshake on side A, writing ORB on side B.                  *)
(***************************************************************************)
EXTENDS Naturals

CONSTANT PiaSides   \* the sides in use

ASSUME SidesAssumption == PiaSides \subseteq {"A", "B"}

VARIABLES
  cr,           \* m_cra, m_crb: bits 5 to 0
  flag1, flag2, \* their bits 7 and 6
  last, piaLine, \* m_lastIrqA, m_lastIrqB and the level of the lines they drive
  piaC1, piaC2, \* the levels of CA1 / CB1 and CA2 / CB2
  prev1, prev2, \* m_ca1Prev, m_ca2Prev, m_cb1Prev, m_cb2Prev
  piaHeld,      \* history: the handshake was started, C1 has not answered
  orphan        \* history: reset() ran with the line asserted, no set() since

piaVars == << cr, flag1, flag2, last, piaLine, piaC1, piaC2, prev1, prev2, piaHeld, orphan >>

\* b5 to b3 choose the C2 mode, data makes the port register accessible
\* instead of its direction register, up chooses C1's edge, en its interrupt.
PiaControl == [b5 : BOOLEAN, b4 : BOOLEAN, b3 : BOOLEAN,
            data : BOOLEAN, up : BOOLEAN, en : BOOLEAN]

Cleared == [b5 |-> FALSE, b4 |-> FALSE, b3 |-> FALSE,
            data |-> FALSE, up |-> FALSE, en |-> FALSE]

Handshake(c) == c.b5 /\ ~c.b4 /\ ~c.b3

All(v) == [s \in PiaSides |-> v]

PiaInit ==
  /\ cr = All(Cleared) /\ flag1 = All(FALSE) /\ flag2 = All(FALSE)
  /\ last = All(FALSE) /\ piaLine = All(FALSE)
  /\ piaC1 = All(TRUE) /\ piaC2 = All(TRUE) /\ prev1 = All(TRUE) /\ prev2 = All(TRUE)
  /\ piaHeld = All(FALSE) /\ orphan = All(FALSE)

Asserts(s) == (flag1[s] /\ cr[s].en) \/ (flag2[s] /\ cr[s].b3)

\* updateIrq(), on the registers just written: each line is set only when its
\* output changes.
PiaUpdateIrq ==
  /\ last' = [s \in PiaSides |-> Asserts(s)']
  /\ piaLine' = [s \in PiaSides |-> IF last'[s] # last[s] THEN last'[s] ELSE piaLine[s]]
  /\ orphan' = [s \in PiaSides |-> orphan[s] /\ last'[s] = last[s]]
-----------------------------------------------------------------------------
\* The edge the control register selects, from level old to level new.
Edge1(s, old, new) == IF cr[s].up THEN ~old /\ new ELSE old /\ ~new
Edge2(s, old, new) ==
  ~cr[s].b5 /\ IF cr[s].b4 THEN ~old /\ new ELSE old /\ ~new

\* CA1Conduit::set / CB1Conduit::set and setCA1 / setCB1: the active edge
\* raises the flag and answers the handshake.
PiaSetC1(s, level) ==
  LET edge == Edge1(s, prev1[s], level)
  IN  /\ piaC1' = [piaC1 EXCEPT ![s] = level]
      /\ prev1' = [prev1 EXCEPT ![s] = level]
      /\ flag1' = [flag1 EXCEPT ![s] = @ \/ edge]
      /\ piaC2' = [piaC2 EXCEPT ![s] = @ \/ (edge /\ Handshake(cr[s]))]
      /\ piaHeld' = [piaHeld EXCEPT ![s] = @ /\ ~edge]
      /\ UNCHANGED << cr, flag2, prev2 >>
      /\ PiaUpdateIrq

\* A device moves C2 of a side that listens to it; tick() will notice.
PiaSetC2(s, level) ==
  /\ ~cr[s].b5
  /\ piaC2' = [piaC2 EXCEPT ![s] = level]
  /\ UNCHANGED << cr, flag1, flag2, last, piaLine, piaC1, prev1, prev2, piaHeld, orphan >>

\* tick(): both lines of both sides are looked at again.
PiaTick ==
  LET edge1(s) == Edge1(s, prev1[s], piaC1[s])
  IN  /\ flag1' = [s \in PiaSides |-> flag1[s] \/ edge1(s)]
      /\ piaC2' = [s \in PiaSides |-> piaC2[s] \/ (edge1(s) /\ Handshake(cr[s]))]
      /\ flag2' = [s \in PiaSides |-> flag2[s] \/ Edge2(s, prev2[s], piaC2[s])]
      /\ prev1' = piaC1 /\ prev2' = piaC2'
      /\ piaHeld' = [s \in PiaSides |-> piaHeld[s] /\ ~edge1(s)]
      /\ UNCHANGED << cr, piaC1 >>
      /\ PiaUpdateIrq
-----------------------------------------------------------------------------
\* Reading or writing the port register clears C1's flag, and C2's flag while
\* C2 is an input.
ClearFlags(s) ==
  /\ flag1' = [flag1 EXCEPT ![s] = FALSE]
  /\ flag2' = [flag2 EXCEPT ![s] = @ /\ cr[s].b5]
  /\ UNCHANGED << cr, piaC1, prev1, prev2 >>
  /\ PiaUpdateIrq

\* Faulty: the access does not pull C2 low.
StartHandshakeNoDrive(s, starts) ==
  /\ piaHeld' = [piaHeld EXCEPT ![s] = @ \/ (starts /\ Handshake(cr[s]))]
  /\ UNCHANGED piaC2

\* driveCA2(false) / driveCB2(false) in handshake mode.
StartHandshake(s, starts) ==
  /\ piaHeld' = [piaHeld EXCEPT ![s] = @ \/ (starts /\ Handshake(cr[s]))]
  /\ piaC2' = [piaC2 EXCEPT ![s] = @ /\ ~(starts /\ Handshake(cr[s]))]

ReadPort(s) ==
  /\ cr[s].data
  /\ StartHandshake(s, s = "A")
  /\ ClearFlags(s)

\* Writing ORA does nothing to the lines and flags.
WritePort(s) ==
  /\ cr[s].data /\ s = "B"
  /\ StartHandshake(s, TRUE)
  /\ ClearFlags(s)

\* Faulty: the new enables are not applied.
WriteControlNoUpdate(s, c) ==
  /\ cr' = [cr EXCEPT ![s] = c]
  /\ piaC2' = [piaC2 EXCEPT ![s] = IF c.b5 /\ c.b4 THEN c.b3 ELSE @]
  /\ piaHeld' = [piaHeld EXCEPT ![s] = FALSE]
  /\ UNCHANGED << flag1, flag2, last, piaLine, piaC1, prev1, prev2, orphan >>

\* Writing CRA or CRB: bits 7 and 6 stay, the manual modes drive C2.
PiaWriteControl(s, c) ==
  /\ cr' = [cr EXCEPT ![s] = c]
  /\ piaC2' = [piaC2 EXCEPT ![s] = IF c.b5 /\ c.b4 THEN c.b3 ELSE @]
  /\ piaHeld' = [piaHeld EXCEPT ![s] = FALSE]
  /\ UNCHANGED << flag1, flag2, piaC1, prev1, prev2 >>
  /\ PiaUpdateIrq

\* reset() neither drives the IRQ lines nor touches the control lines.
PiaReset ==
  /\ cr' = All(Cleared) /\ flag1' = All(FALSE) /\ flag2' = All(FALSE)
  /\ prev1' = All(TRUE) /\ prev2' = All(TRUE) /\ last' = All(FALSE)
  /\ piaHeld' = All(FALSE) /\ orphan' = piaLine
  /\ UNCHANGED << piaLine, piaC1, piaC2 >>

PiaNext ==
  \/ \E s \in PiaSides, level \in BOOLEAN : PiaSetC1(s, level) \/ PiaSetC2(s, level)
  \/ \E s \in PiaSides : ReadPort(s) \/ WritePort(s)
  \/ \E s \in PiaSides, c \in PiaControl : PiaWriteControl(s, c)
  \/ PiaTick \/ PiaReset

PiaSpec == PiaInit /\ [][PiaNext]_piaVars
-----------------------------------------------------------------------------
(***************************************************************************)
(* Each IRQ output is "an enabled flag is set", and so is the level on the *)
(* line, although updateIrq() touches the line only on a change; the one   *)
(* exception is a line that was asserted when reset() ran.                 *)
(***************************************************************************)
PiaIrqFollowsFlags ==
  \A s \in PiaSides :
     /\ last[s] = Asserts(s)
     /\ piaLine[s] # last[s] => orphan[s] /\ piaLine[s]

(***************************************************************************)
(* From the port access that starts it to the active C1 edge that answers  *)
(* it, the CA2 / CB2 handshake stays low.                                  *)
(***************************************************************************)
PiaHandshakeHeld == \A s \in PiaSides : piaHeld[s] => Handshake(cr[s]) /\ ~piaC2[s]

(***************************************************************************)
(* The PIA's interrupt and handshake lines follow its flags and its        *)
(* handshakes.                                                             *)
(***************************************************************************)
PiaLinesRight == PiaIrqFollowsFlags /\ PiaHandshakeHeld
=============================================================================
