----------------------------- MODULE Ieee488Bus -----------------------------
(***************************************************************************)
(* The PET's IEEE-488 bus with a drive on it                               *)
(* (plugins/devices/ieee488/main/ieee488_bus.cpp) and the computer's side  *)
(* of the three-wire handshake as the PET uses it (external: its ROM; the  *)
(* order of line changes is that of test_ieee488_bus.cpp).                 *)
(*                                                                         *)
(* Lines are wired-AND, TRUE is high (released).  Every change the         *)
(* computer makes runs step() until the drive's lines settle.              *)
(***************************************************************************)
EXTENDS CbmDos

CONSTANT MaxData   \* bound: data bytes the computer writes or reads in one go

VARIABLES ctl,     \* m_ctl: the computer's lines
          ieee,    \* the drive: m_drv and its flags
          pet      \* the computer: where it is in a transfer

ieeeVars == <<ctl, ieee, pet, dosVars>>

Free == <<"free", 0>>
Commands == {<<"listen", 8>>, <<"unlisten", 0>>, <<"talk", 8>>, <<"untalk", 0>>,
             <<"listen", 9>>, <<"talk", 9>>}
Lines == {"dav", "eoi", "nrfd", "ndac", "data"}

IeeeReset ==
    [dav |-> TRUE, eoi |-> TRUE, nrfd |-> TRUE, ndac |-> TRUE, data |-> Free,
     listener |-> FALSE, talker |-> FALSE,
     ourListen |-> FALSE, ourTalk |-> FALSE,   \* m_lastWasOurListen, m_lastWasOurTalk
     prevAtn |-> TRUE, taken |-> FALSE,        \* m_prevAtn, m_byteTaken
     onBus |-> FALSE, ended |-> FALSE,         \* m_byteOnBus, m_talkEnded
     pending |-> FALSE, tentative |-> FALSE,
     pbyte |-> Free, plast |-> FALSE,          \* m_pendingByte, m_pendingStatus & 0x40
     pchan |-> -1]                             \* m_pendingChannel

PetIdle == [at |-> "idle", todo |-> <<>>, next |-> "done", left |-> 0, sent |-> <<>>,
            chan |-> 0, swapped |-> FALSE]

CtlReset == [atn |-> TRUE, dav |-> TRUE, eoi |-> TRUE, nrfd |-> TRUE, ndac |-> TRUE, data |-> Free]

IeeeInit ==
    /\ ctl = CtlReset
    /\ ieee = IeeeReset
    /\ pet = PetIdle
    /\ DosInit
-----------------------------------------------------------------------------
(***************************************************************************)
(* The drive: functions from [d |-> drive, s |-> DOS] to the same, given   *)
(* the computer's lines c.                                                 *)
(***************************************************************************)
Level(c, d, line) == c[line] /\ d[line]
DataOnBus(c, d) == IF c.data = Free THEN d.data ELSE c.data

Released(d) == [d EXCEPT !.dav = TRUE, !.eoi = TRUE, !.nrfd = TRUE, !.ndac = TRUE, !.data = Free]

\* A byte on the bus or only tentatively taken is sent again.
ReleaseAll(d) ==
    [Released(d) EXCEPT !.ended = @ /\ ~d.onBus /\ ~d.tentative,
                        !.tentative = FALSE, !.taken = FALSE, !.onBus = FALSE]

AtnEdge(c, x) ==
    IF c.atn = x.d.prevAtn THEN x
    ELSE [x EXCEPT !.d = [ReleaseAll(x.d) EXCEPT !.prevAtn = c.atn,
                                                 !.ndac = c.atn /\ ~x.d.listener]]

\* command(): a byte under ATN.
Command(x, b) ==
    LET d == x.d
        s == x.s
        mine == b[2] = 8
    IN CASE b[1] = "listen" ->
              [d |-> [d EXCEPT !.ourListen = mine, !.ourTalk = FALSE, !.listener = @ \/ mine],
               s |-> IF mine THEN DosListen(s) ELSE s]
         [] b[1] = "unlisten" ->
              [d |-> [d EXCEPT !.ourListen = FALSE, !.ourTalk = FALSE, !.listener = FALSE],
               s |-> IF d.listener THEN DosUnlisten(s) ELSE s]
         [] b[1] = "talk" ->
              [d |-> [d EXCEPT !.ourTalk = mine, !.ourListen = FALSE, !.talker = mine,
                               !.ended = @ /\ ~mine],
               s |-> IF mine THEN DosTalk(s) ELSE IF d.talker THEN DosUntalk(s) ELSE s]
         [] b[1] = "untalk" ->
              [d |-> [d EXCEPT !.ourListen = FALSE, !.ourTalk = FALSE, !.talker = FALSE],
               s |-> IF d.talker THEN DosUntalk(s) ELSE s]
         [] b[1] \in SecondaryKinds /\ d.ourListen ->
              [d |-> [d EXCEPT !.pending = FALSE], s |-> DosSecond(s, b)]
         [] b[1] \in SecondaryKinds /\ ~d.ourListen /\ d.ourTalk ->
              [d |-> [d EXCEPT !.pending = @ /\ b[2] = d.pchan, !.pchan = b[2]],
               s |-> DosTksa(s, b)]
         [] OTHER -> x

\* Faulty: DAV still low after the byte was taken gives the byte again.
ListenerStepRetakes(c, x) ==
    LET b == DataOnBus(c, x.d)
        y == IF c.atn THEN [x EXCEPT !.s = DosCiout(@, b)] ELSE Command(x, b)
    IN  IF c.dav /\ x.d.dav THEN [x EXCEPT !.d.nrfd = TRUE, !.d.ndac = FALSE]
        ELSE [y EXCEPT !.d.nrfd = FALSE, !.d.ndac = TRUE]

ListenerStep(c, x) ==
    LET d == x.d
        b == DataOnBus(c, d)
    IN CASE ~d.taken /\ c.dav /\ d.dav ->
              [x EXCEPT !.d.nrfd = TRUE, !.d.ndac = FALSE]
         [] ~d.taken /\ ~(c.dav /\ d.dav) ->
              LET y == IF c.atn THEN [x EXCEPT !.s = DosCiout(@, b)] ELSE Command(x, b)
              IN  [y EXCEPT !.d.nrfd = FALSE, !.d.taken = TRUE, !.d.ndac = TRUE]
         [] d.taken /\ c.dav /\ d.dav ->
              [x EXCEPT !.d.taken = FALSE, !.d.ndac = FALSE, !.d.nrfd = TRUE]
         [] OTHER -> x

\* Faulty: the byte counts as taken whenever NDAC goes up.
TakeAwayAlways(c, x) ==
    [x EXCEPT !.d = [Released(@) EXCEPT !.onBus = FALSE, !.pending = FALSE]]

\* NDAC went up: a busy listener took the byte, one that is not may not have.
TakeAway(c, x) ==
    [x EXCEPT !.d = [Released(x.d) EXCEPT !.onBus = FALSE, !.pending = x.d.pending /\ c.nrfd,
                                          !.tentative = x.d.tentative \/ c.nrfd]]

Present(x, b, last) ==
    [x EXCEPT !.d = [x.d EXCEPT !.data = b, !.eoi = ~last, !.dav = FALSE, !.onBus = TRUE,
                                !.pending = TRUE, !.pbyte = b, !.plast = last,
                                !.ended = x.d.ended \/ last]]

\* The listener is ready: the byte not taken last time, or the DOS's next one.
SendByte(x) ==
    LET again == x.d.pending /\ ~x.d.tentative
        y == [x EXCEPT !.d.tentative = FALSE, !.d.pending = again]
    IN  CASE again -> Present(y, x.d.pbyte, x.d.plast)
          [] ~again /\ DosHasByte(x.s) ->
               Present([y EXCEPT !.s = DosAcptr(@)], DosByte(x.s), DosLast(x.s))
          [] OTHER -> [y EXCEPT !.d.ended = TRUE]

TalkerStep(c, x) ==
    LET y == [x EXCEPT !.d.nrfd = TRUE, !.d.ndac = TRUE]
    IN  CASE x.d.onBus /\ c.ndac -> TakeAway(c, y)
          [] x.d.onBus /\ ~c.ndac -> y
          [] ~x.d.onBus /\ (x.d.ended \/ ~c.nrfd \/ c.ndac) -> y
          [] OTHER -> SendByte(y)

\* One round of step()'s loop.
StepOnce(c, x) ==
    LET y == AtnEdge(c, x)
    IN  CASE ~c.atn \/ y.d.listener -> ListenerStep(c, y)
          [] c.atn /\ ~y.d.listener /\ y.d.talker -> TalkerStep(c, y)
          [] OTHER -> y

DriveLines(d) == [l \in Lines |-> d[l]]

\* step(): at most 16 rounds, and no more once the drive's lines stay.
Step(c, x) ==
    LET run[k \in 0 .. 16] ==
          IF k = 0 THEN [x |-> x, same |-> FALSE]
          ELSE LET p == run[k - 1]
                   y == StepOnce(c, p.x)
               IN  IF p.same THEN p
                   ELSE [x |-> y, same |-> DriveLines(y.d) = DriveLines(p.x.d)]
    IN  run[16].x

\* setCtl() and setCtlData(): nothing happens unless the line changes.
SetLines(c) ==
    LET x == [d |-> ieee, s |-> dos]
        y == IF c = ctl THEN x ELSE Step(c, x)
    IN  ctl' = c /\ ieee' = y.d /\ dos' = y.s
-----------------------------------------------------------------------------
(***************************************************************************)
(* The computer (external).  A transfer is a list of bytes under ATN, then *)
(* data written, data read, or the bus let go.  swapped: a disk was mounted*)
(* or ejected during the transfer.                                         *)
(***************************************************************************)
Goto(at) == pet' = [pet EXCEPT !.at = at]
Set(line, level) == SetLines([ctl EXCEPT ![line] = level])

Transfer(cmds, next, c, n) ==
    /\ pet.at = "idle"
    /\ Set("atn", FALSE)
    /\ pet' = [PetIdle EXCEPT !.at = "send", !.todo = cmds, !.next = next,
                           !.chan = c, !.left = n]

\* The channel whose kept byte a secondary address for c makes the drive forget.
Forgotten == IF ieee.pending THEN {ieee.pchan} ELSE {}

\* OPEN: the file is read from its start.  Its name is one byte.
PetOpen(c) ==
    /\ Transfer(<<<<"listen", 8>>, Secondary("open", c)>>, "write", c, 1)
    /\ got' = [got EXCEPT ![c] = <<>>]
    /\ dropped' = (dropped \cup Forgotten) \ {c}

PetClose(c) ==
    /\ Transfer(<<<<"listen", 8>>, Secondary("close", c), <<"unlisten", 0>>>>, "done", c, 0)
    /\ dropped' = dropped \cup Forgotten
    /\ UNCHANGED got

PetWrite(c, n) ==
    /\ Transfer(<<<<"listen", 8>>, Secondary("data", c)>>, "write", c, n)
    /\ dropped' = dropped \cup Forgotten
    /\ UNCHANGED got

PetRead(c, n) ==
    /\ Transfer(<<<<"talk", 8>>, Secondary("data", c)>>, "read", c, n)
    /\ dropped' = dropped \cup (Forgotten \ {c})
    /\ UNCHANGED got

\* Another drive's LISTEN or TALK, with its secondary address.
PetOther(b, c) ==
    /\ b \in {<<"listen", 9>>, <<"talk", 9>>}
    /\ Transfer(<<b, Secondary("data", c)>>, "done", c, 0)
    /\ UNCHANGED <<got, dropped>>

\* A byte: wait for NRFD, present it, DAV low, wait for NDAC, DAV high.
PetPut ==
    /\ pet.at = "send" /\ pet.todo # <<>>
    /\ Level(ctl, ieee, "nrfd")
    /\ Set("data", Head(pet.todo))
    /\ Goto("dav") /\ UNCHANGED hist

PetDav ==
    /\ pet.at = "dav"
    /\ Set("dav", FALSE)
    /\ Goto("accepted") /\ UNCHANGED hist

PetAccepted ==
    /\ pet.at = "accepted"
    /\ Level(ctl, ieee, "ndac")
    /\ Set("dav", TRUE)
    /\ Goto("clear") /\ UNCHANGED hist

PetClear ==
    /\ pet.at = "clear"
    /\ Set("data", Free)
    /\ pet' = [pet EXCEPT !.at = "send", !.todo = Tail(@),
                          !.sent = IF ctl.atn THEN Append(@, Head(pet.todo)) ELSE @]
    /\ UNCHANGED hist

\* The commands are out: release ATN and send data, or finish.
PetWriteData ==
    /\ pet.at = "send" /\ pet.todo = <<>> /\ ~ctl.atn
    /\ pet.next \in {"write", "done"}
    /\ Set("atn", TRUE)
    /\ pet' = [pet EXCEPT !.at = IF pet.next = "write" THEN "send" ELSE "idle",
                          !.todo = IF pet.next = "write" THEN [i \in 1 .. pet.left |-> Byte(i)]
                                   ELSE <<>>]
    /\ UNCHANGED hist

PetUnlisten ==
    /\ pet.at = "send" /\ pet.todo = <<>> /\ ctl.atn
    /\ Set("atn", FALSE)
    /\ pet' = [pet EXCEPT !.todo = <<<<"unlisten", 0>>>>, !.next = "done"]
    /\ UNCHANGED hist

\* Turnaround: NRFD and NDAC low, then ATN high.
PetTurnNrfd ==
    /\ pet.at = "send" /\ pet.todo = <<>> /\ ~ctl.atn /\ pet.next = "read"
    /\ Set("nrfd", FALSE)
    /\ Goto("turn") /\ UNCHANGED hist

PetTurnNdac == pet.at = "turn" /\ Set("ndac", FALSE) /\ Goto("turned") /\ UNCHANGED hist

PetTurnAtn == pet.at = "turned" /\ Set("atn", TRUE) /\ Goto("recv") /\ UNCHANGED hist

\* Receiving: NRFD high, wait for DAV low, busy, accept, wait for DAV high.
PetReady ==
    /\ pet.at = "recv" /\ pet.left > 0
    /\ Set("nrfd", TRUE)
    /\ Goto("ready") /\ UNCHANGED hist

PetBusy ==
    /\ pet.at = "ready"
    /\ ~Level(ctl, ieee, "dav")
    /\ Set("nrfd", FALSE)
    /\ Goto("busy") /\ UNCHANGED hist

PetTake ==
    /\ pet.at = "busy"
    /\ got' = [got EXCEPT ![pet.chan] = Append(@, DataOnBus(ctl, ieee))]
    /\ UNCHANGED dropped
    /\ pet' = [pet EXCEPT !.at = "took", !.left = IF ~Level(ctl, ieee, "eoi") THEN 0 ELSE @ - 1]
    /\ Set("ndac", TRUE)

PetTaken ==
    /\ pet.at = "took"
    /\ Level(ctl, ieee, "dav")
    /\ Set("ndac", FALSE)
    /\ Goto("recv") /\ UNCHANGED hist

(***************************************************************************)
(* Before UNTALK the computer lets go of NDAC and NRFD, in either order,   *)
(* when it has what it wants, or when no byte comes and the read times out.*)
(***************************************************************************)
PetLetGo ==
    /\ \/ pet.at = "recv"
       \/ pet.at = "ready" /\ Level(ctl, ieee, "dav")
    /\ Goto("letgo") /\ UNCHANGED <<ctl, ieee, dos, hist>>

PetRelease(line) ==
    /\ pet.at = "letgo" /\ ~ctl[line]
    /\ Set(line, TRUE)
    /\ UNCHANGED <<pet, hist>>

PetUntalk ==
    /\ pet.at = "letgo" /\ ctl.nrfd /\ ctl.ndac
    /\ Set("atn", FALSE)
    /\ pet' = [pet EXCEPT !.at = "send", !.todo = <<<<"untalk", 0>>>>, !.next = "done", !.left = 0]
    /\ UNCHANGED hist

\* The computer's timeout while it writes: it stops and sends UNLISTEN.
PetGivesUp ==
    /\ ctl.atn
    /\ \/ pet.at = "accepted" /\ ~Level(ctl, ieee, "ndac")
       \/ pet.at = "send" /\ pet.todo # <<>> /\ ~Level(ctl, ieee, "nrfd")
    /\ SetLines([ctl EXCEPT !.dav = TRUE, !.data = Free])
    /\ pet' = [pet EXCEPT !.at = "send", !.todo = <<>>]
    /\ UNCHANGED hist

\* The computer waits for DAV to go high and the drive left it low.
PetStuckTalker ==
    /\ pet.at = "took" /\ ~Level(ctl, ieee, "dav")
    /\ Goto("letgo") /\ UNCHANGED <<ctl, ieee, dos, hist>>
-----------------------------------------------------------------------------
\* mountDisk(): a new DOS, nobody addressed; the lines stay as they are.
MountDisk ==
    /\ dos' = [DosReset EXCEPT !.in = dos.in]
    /\ ieee' = [ieee EXCEPT !.listener = FALSE, !.talker = FALSE, !.pending = FALSE,
                            !.tentative = FALSE, !.ended = FALSE]
    /\ pet' = [pet EXCEPT !.swapped = pet.at # "idle"]
    /\ UNCHANGED <<ctl, hist>>

\* ejectDisk(): back to the host folder; the drive stays addressed.
EjectDisk ==
    /\ dos' = [DosReset EXCEPT !.in = dos.in]
    /\ pet' = [pet EXCEPT !.swapped = pet.at # "idle"]
    /\ UNCHANGED <<ieee, ctl, hist>>

\* reset() of the machine: drive and computer.
IeeeMachineReset ==
    /\ ctl' = CtlReset
    /\ ieee' = IeeeReset /\ dos' = DosReset
    /\ pet' = PetIdle
    /\ got' = [c \in DosChannels |-> <<>>] /\ dropped' = {}

PetStep ==
    \/ PetPut \/ PetDav \/ PetAccepted \/ PetClear \/ PetWriteData \/ PetUnlisten
    \/ PetTurnNrfd \/ PetTurnNdac \/ PetTurnAtn
    \/ PetReady \/ PetBusy \/ PetTake \/ PetTaken
    \/ PetLetGo \/ PetRelease("ndac") \/ PetRelease("nrfd") \/ PetUntalk
    \/ PetGivesUp \/ PetStuckTalker

PetStart ==
    \E c \in DosChannels :
        \/ PetOpen(c) \/ PetClose(c)
        \/ \E n \in 1 .. MaxData : PetWrite(c, n) \/ PetRead(c, n)
        \/ \E b \in Commands : PetOther(b, c)

IeeeNext == PetStart \/ PetStep \/ MountDisk \/ EjectDisk \/ IeeeMachineReset

IeeeSpec == IeeeInit /\ [][IeeeNext]_ieeeVars
-----------------------------------------------------------------------------
(***************************************************************************)
(* The bytes a program reads from a file are its first ones, in order, none*)
(* missing and none twice, however often it stops in between: a byte the   *)
(* drive had already put on the bus when the computer let go is sent again *)
(* (talkerStep, releaseAll), unless the program used another channel first.*)
(***************************************************************************)
IeeeBytesInOrder == InOrder

(***************************************************************************)
(* What the computer has written to the drive in this transfer is what its *)
(* DOS received: each byte once, also the one under way (listenerStep).    *)
(***************************************************************************)
IeeeWritesArrive ==
    (pet.next = "write" /\ ~pet.swapped /\ ctl.atn)
        => \/ dos.in = pet.sent
           \/ pet.todo # <<>> /\ dos.in = Append(pet.sent, Head(pet.todo))

(***************************************************************************)
(* The drive answers every step of the handshake at once, so the computer  *)
(* never waits, unless a disk was changed during the transfer; and under   *)
(* ATN not even then.                                                      *)
(***************************************************************************)
IeeeAnswered ==
    (~pet.swapped \/ ~ctl.atn) =>
        /\ (pet.at = "send" /\ pet.todo # <<>>) => Level(ctl, ieee, "nrfd")
        /\ pet.at = "accepted" => Level(ctl, ieee, "ndac")
        /\ pet.at = "took" => Level(ctl, ieee, "dav")

(***************************************************************************)
(* A program reads a file's bytes in order, none twice and none left out,  *)
(* what it writes arrives, and the drive answers, wherever ATN cuts a      *)
(* transfer (IEEE488Bus::step, listenerStep, talkerStep).                  *)
(***************************************************************************)
IeeeRight == IeeeBytesInOrder /\ IeeeWritesArrive /\ IeeeAnswered
=============================================================================
