------------------------------- MODULE CbmDos -------------------------------
(***************************************************************************)
(* What a Commodore drive's bus needs of its DOS (ICbmDos, the calls that  *)
(* CbmHostDos and CbmImageDos answer alike): LISTEN and TALK states, the   *)
(* channel a secondary address selects, and files read byte by byte.  The  *)
(* files themselves are in CbmHostDos and CbmImageDos.                     *)
(*                                                                         *)
(* A byte on the bus is a pair <<kind, n>>: a command, a secondary address *)
(* with its channel, or the n-th byte of a file or of what is written.     *)
(***************************************************************************)
EXTENDS Integers, Sequences

CONSTANTS DosChannels,   \* secondary addresses in use
          FileLen        \* bytes in the file each of them opens

ASSUME DosAssumption == DosChannels # {} /\ DosChannels \subseteq 0 .. 15 /\ FileLen \in Nat \ {0}

VARIABLES dos,     \* *m_dos
          got,     \* history: bytes the computer accepted from each open file
          dropped  \* history: channels whose kept byte the drive has forgotten

hist == <<got, dropped>>
dosVars == <<dos, got, dropped>>

Byte(n) == <<"byte", n>>
Secondary(kind, c) == <<kind, c>>
SecondaryKinds == {"data", "open", "close"}

\* No file is open: acptr finds nothing to read.
DosReset ==
    [listening |-> FALSE, talking |-> FALSE, opening |-> FALSE,
     chan |-> CHOOSE c \in DosChannels : TRUE,
     pos |-> [c \in DosChannels |-> FileLen],
     in |-> <<>>]          \* what ciout received since LISTEN (history)

DosInit ==
    /\ dos = DosReset
    /\ got = [c \in DosChannels |-> <<>>] /\ dropped = {}

DosListen(d) == [d EXCEPT !.listening = TRUE, !.in = <<>>]
DosTalk(d) == [d EXCEPT !.talking = TRUE]
DosUntalk(d) == [d EXCEPT !.talking = FALSE]

\* second(): "open" expects a name, "close" ends the channel, "data" selects it.
DosSecond(d, b) ==
    IF ~d.listening THEN d
    ELSE [d EXCEPT !.chan = b[2], !.opening = b[1] = "open",
                   !.pos[b[2]] = IF b[1] = "close" THEN FileLen ELSE @]

DosTksa(d, b) == IF d.talking THEN [d EXCEPT !.chan = b[2]] ELSE d

DosCiout(d, b) == IF d.listening THEN [d EXCEPT !.in = Append(@, b)] ELSE d

\* unlsn(): the name is complete, so the file is opened.
DosUnlisten(d) ==
    IF ~d.listening THEN d
    ELSE [d EXCEPT !.listening = FALSE, !.opening = FALSE,
                   !.pos[d.chan] = IF d.opening THEN 0 ELSE @]

\* acptr(): a byte, whether it is the last (EOI), or nothing to send.
DosHasByte(d) == d.talking /\ d.pos[d.chan] < FileLen
DosAcptr(d) == [d EXCEPT !.pos[d.chan] = @ + 1]
DosByte(d) == Byte(d.pos[d.chan] + 1)
DosLast(d) == d.pos[d.chan] + 1 = FileLen

\* The bytes accepted from every channel are the first ones of its file.
InOrder == \A c \in DosChannels \ dropped : got[c] = [i \in 1 .. Len(got[c]) |-> Byte(i)]
=============================================================================
