------------------------------ MODULE IecDrive ------------------------------
(***************************************************************************)
(* The serial-bus drive (plugins/devices/iec_drive/main/iec_drive.cpp):    *)
(* ATN, CLK and DATA, bit by bit, with its timeouts, and the computer's    *)
(* KERNAL at the other end (external).  Lines are TRUE when asserted.      *)
(*                                                                         *)
(* Time passes in units of about 100 us, the least the drive waits for.    *)
(* The KERNAL runs with interrupts off while it transfers a byte: it takes *)
(* the step it is ready for before a unit has passed.  Between bytes the   *)
(* program may take as long as it likes.                                   *)
(***************************************************************************)
EXTENDS TLC, CbmDos

(***************************************************************************)
(* The virtual serial-bus drive (plugins/devices/virtual_iec/main/         *)
(* virtual_iec.cpp): one file, loaded whole when the drive is told to      *)
(* talk, sent and received bit by bit.  Functions on the drive's record d  *)
(* given the computer's lines h; lines are TRUE when asserted.  The        *)
(* computer at the other end is the KERNAL of IecDrive.  The code's waits  *)
(* of 20, 60, 80 and 100 cycles are one unit of time, 250 two.             *)
(***************************************************************************)

CONSTANTS ByteBits,   \* bits in a byte
          VirtFiles   \* files on the mounted disk, for its listing

ASSUME VirtAssumption == ByteBits \in Nat \ {0} /\ VirtFiles \in Nat

VirtShort == 1
VirtEoiHold == 2
VirtFrameTime == 6

Bit(code, i) == (code \div 2 ^ i) % 2 = 1

\* Names: one byte each; every other name is not on the disk.
VirtFileName == <<1>>
VirtDirName == <<2>>

\* What reset() leaves: the buffer, the secondary address and the mounted disk.
VirtReset(d) ==
    [d EXCEPT !.st = "IDLE", !.nst = "IDLE", !.addressed = FALSE, !.clk = FALSE, !.data = FALSE,
              !.prevClk = FALSE, !.byte = 0, !.bits = 0, !.us = 0, !.idx = 0, !.last = FALSE,
              !.ph = 0, !.name = <<>>]

VirtNew(disk) ==
    [virtual |-> TRUE, disk |-> disk, buf |-> <<>>, sa |-> 0, idx |-> 0, name |-> <<>>,
     st |-> "IDLE", nst |-> "IDLE", addressed |-> FALSE, clk |-> FALSE, data |-> FALSE,
     prevClk |-> FALSE, byte |-> 0, bits |-> 0, us |-> 0, last |-> FALSE, ph |-> 0,
     pending |-> FALSE, pchan |-> -1]
-----------------------------------------------------------------------------
(***************************************************************************)
(* The directory as a BASIC program.  A cell is a byte, a two-byte address *)
(* or a text of non-zero bytes; links are relative to the start of BASIC.  *)
(***************************************************************************)
ListingText == 5
ListingLine(number) == <<0, number, ListingText, 0>>

RECURSIVE ListingEnd(_, _)
ListingEnd(b, pos) == IF pos > Len(b) \/ b[pos] = 0 THEN pos ELSE ListingEnd(b, pos + 1)

\* The fix-up walks the buffer: a line ends at its zero byte.
RECURSIVE ListingLinked(_, _)
ListingLinked(b, pos) ==
    LET next == ListingEnd(b, pos + 2) + 1
    IN  IF pos + 2 > Len(b) \/ next > Len(b) + 1 THEN b
        ELSE IF next + 2 > Len(b) THEN [b EXCEPT ![pos] = 0]
        ELSE ListingLinked([b EXCEPT ![pos] = next], next)

\* Faulty: the last line gets a link too.
RECURSIVE ListingLinkedOn(_, _)
ListingLinkedOn(b, pos) ==
    LET next == ListingEnd(b, pos + 2) + 1
    IN  IF pos + 2 > Len(b) THEN b ELSE ListingLinkedOn([b EXCEPT ![pos] = next], next)

DirectoryListingOpen(files) ==
    LET lines == [i \in 1 .. 4 * (files + 2) |-> ListingLine(1)[((i - 1) % 4) + 1]]
    IN  ListingLinkedOn(<<1>> \o lines, 2)

\* generateDirectoryListing(): load address, header, a line a file, footer.
DirectoryListing(files) ==
    LET lines == [i \in 1 .. 4 * (files + 2) |-> ListingLine(1)[((i - 1) % 4) + 1]]
    IN  ListingLinked(<<1>> \o lines, 2)
-----------------------------------------------------------------------------
VirtGo(d, st) == [d EXCEPT !.st = st, !.us = 0]
VirtPhase(d, ph) == [d EXCEPT !.ph = ph, !.us = 0]

\* ATN interrupts whatever the drive is doing; it shows itself on DATA.
VirtAttend(d) == VirtGo([d EXCEPT !.data = TRUE, !.clk = FALSE], "ATTENTION")

\* TALK: the file named last is loaded from its start; a name that is not on
\* the disk, or no disk, leaves the old bytes, and no name leaves the place too.
VirtLoad(d) ==
    IF d.name = <<>> THEN d
    ELSE [d EXCEPT !.idx = 0,
                   !.buf = IF d.name = VirtDirName THEN DirectoryListing(IF d.disk THEN VirtFiles ELSE 0)
                           ELSE IF d.disk /\ d.name = VirtFileName THEN [i \in 1 .. FileLen |-> i]
                           ELSE @]

\* processCommand(); another device's LISTEN or TALK leaves m_nextState.
VirtCommand(d, b) ==
    CASE b[1] = "unlisten" -> [d EXCEPT !.nst = "IDLE", !.addressed = FALSE]
      [] b[1] = "untalk"   -> [d EXCEPT !.nst = "IDLE", !.addressed = FALSE, !.clk = FALSE]
      [] b[1] = "listen" /\ b[2] = 8 ->
            [d EXCEPT !.addressed = TRUE, !.nst = "LISTENING", !.name = <<>>]
      [] b[1] = "talk" /\ b[2] = 8 -> VirtLoad([d EXCEPT !.addressed = TRUE, !.nst = "TURNAROUND"])
      [] b[1] \in {"listen", "talk"} /\ b[2] # 8 -> [d EXCEPT !.addressed = FALSE]
      [] b[1] = "open" /\ d.addressed -> [d EXCEPT !.sa = b[2], !.name = <<>>]
      [] b[1] = "close" /\ d.addressed ->
            [d EXCEPT !.sa = b[2], !.name = <<>>, !.buf = <<>>, !.idx = 0]
      [] b[1] = "data" /\ d.addressed -> [d EXCEPT !.sa = b[2]]
      [] OTHER -> d

\* handleByteReceived()
VirtReceived(d) == IF d.sa \in {0, 1} THEN [d EXCEPT !.name = Append(@, d.byte)] ELSE d

\* Faulty: a bit a tick while CLK is up.
VirtBitLevel(h, d) ==
    IF ~h.clk THEN [d EXCEPT !.bits = @ + 1,
                             !.byte = (@ \div 2) + (IF h.data THEN 0 ELSE 2 ^ (ByteBits - 1))]
    ELSE d

\* handleBitTransfer(): a bit is valid when CLK goes up.
VirtBit(h, d) ==
    IF d.prevClk /\ ~h.clk
    THEN [d EXCEPT !.prevClk = FALSE, !.bits = @ + 1,
                   !.byte = (@ \div 2) + (IF h.data THEN 0 ELSE 2 ^ (ByteBits - 1))]
    ELSE [d EXCEPT !.prevClk = h.clk]

\* A byte, under ATN (cmds names what it means) or as data, and its acknowledgement.
VirtWholeByte(d, cmds) ==
    IF d.bits # ByteBits THEN d
    ELSE VirtGo([(IF d.st = "ADDRESSING" THEN VirtCommand(d, cmds[d.byte + 1]) ELSE VirtReceived(d))
                    EXCEPT !.data = TRUE, !.bits = 0, !.byte = 0], "ACKNOWLEDGE")

\* The phases of receiving: CLK up, CLK down or EOI, bits, the EOI pulse.
VirtReceive(h, d, cmds) ==
    CASE d.ph = 0 -> IF h.clk THEN d ELSE VirtPhase([d EXCEPT !.data = FALSE], 1)
      [] d.ph = 1 -> IF h.clk THEN [d EXCEPT !.prevClk = TRUE, !.ph = 2]
                     ELSE IF d.us > VirtEoiHold THEN VirtPhase([d EXCEPT !.data = TRUE], 3) ELSE d
      [] d.ph = 2 -> VirtWholeByte(VirtBit(h, d), cmds)
      [] d.ph = 3 -> IF d.us >= VirtShort THEN [d EXCEPT !.data = FALSE, !.ph = 4] ELSE d
      [] d.ph = 4 -> IF h.clk THEN [d EXCEPT !.prevClk = TRUE, !.ph = 2] ELSE d

\* ATN gone in mid-byte: on to the state of the last command, phase and all.
VirtAddressing(h, d, cmds) == IF h.atn THEN VirtReceive(h, d, cmds) ELSE VirtGo(d, d.nst)

VirtAcknowledge(h, d) ==
    IF d.us < VirtShort THEN d
    ELSE VirtGo([d EXCEPT !.bits = 0, !.byte = 0, !.ph = 0,
                          !.prevClk = IF h.atn THEN h.clk ELSE @],
                IF h.atn THEN "ADDRESSING" ELSE d.nst)

VirtTurnaround(h, d) ==
    IF h.clk THEN d ELSE VirtGo([d EXCEPT !.clk = TRUE, !.data = FALSE, !.ph = 0], "TALK_READY")

VirtTalkBit(d) == [d EXCEPT !.clk = TRUE, !.data = ~Bit(d.byte, d.bits)]
VirtTalkByte(d) == VirtGo(VirtTalkBit([d EXCEPT !.bits = 0]), "TALKING")

\* getNextByte(): past the end, zero, sent as the last byte.
VirtNextByte(d) ==
    LET more == d.idx < Len(d.buf)
        idx == IF more THEN d.idx + 1 ELSE d.idx
    IN  [d EXCEPT !.byte = IF more THEN d.buf[idx] % 2 ^ ByteBits ELSE 0,
                  !.idx = idx, !.last = idx >= Len(d.buf)]

\* Faulty: the byte is fetched as soon as CLK is let go.
VirtTalkReadyEarly(h, d) ==
    CASE d.ph = 0 -> IF h.data /\ d.us >= VirtShort
                     THEN VirtPhase(VirtNextByte([d EXCEPT !.clk = FALSE, !.data = FALSE]), 1)
                     ELSE [d EXCEPT !.clk = TRUE, !.data = FALSE]
      [] d.ph = 1 -> IF h.data THEN d ELSE IF d.last THEN VirtPhase(d, 2) ELSE VirtTalkByte(d)
      [] d.ph = 2 -> IF d.us >= VirtEoiHold THEN [d EXCEPT !.ph = 3] ELSE d
      [] d.ph = 3 -> IF h.data THEN VirtPhase(d, 4) ELSE d
      [] d.ph = 4 -> IF h.data THEN d ELSE VirtTalkByte(d)

\* CLK held; let go when the listener holds DATA; the byte when it lets DATA go,
\* the last one after the listener has acknowledged EOI.
VirtTalkReady(h, d) ==
    CASE d.ph = 0 -> IF h.data /\ d.us >= VirtShort
                     THEN VirtPhase([d EXCEPT !.clk = FALSE, !.data = FALSE], 1)
                     ELSE [d EXCEPT !.clk = TRUE, !.data = FALSE]
      [] d.ph = 1 -> IF h.data THEN d
                     ELSE LET e == VirtNextByte(d)
                          IN  IF e.last THEN VirtPhase(e, 2) ELSE VirtTalkByte(e)
      [] d.ph = 2 -> IF d.us >= VirtEoiHold THEN [d EXCEPT !.ph = 3] ELSE d
      [] d.ph = 3 -> IF h.data THEN VirtPhase(d, 4) ELSE d
      [] d.ph = 4 -> IF h.data THEN d ELSE VirtTalkByte(d)

VirtTalking(h, d) ==
    IF d.us < VirtShort THEN d
    ELSE IF d.clk THEN VirtGo([d EXCEPT !.clk = FALSE], "TALKING")
    ELSE IF d.bits + 1 = ByteBits
         THEN VirtGo([d EXCEPT !.bits = @ + 1, !.clk = TRUE, !.data = FALSE], "TALK_FRAME")
         ELSE VirtGo(VirtTalkBit([d EXCEPT !.bits = @ + 1]), "TALKING")

\* ERROR is left only by reset().
VirtTalkFrame(h, d) ==
    IF h.data THEN IF d.last THEN [d EXCEPT !.st = "IDLE", !.clk = FALSE, !.data = FALSE]
                   ELSE VirtGo([d EXCEPT !.ph = 0], "TALK_READY")
    ELSE IF d.us > VirtFrameTime THEN [d EXCEPT !.st = "ERROR"] ELSE d

\* tick(): the timer has been advanced by the caller.
VirtStep(h, d, cmds) ==
    IF h.atn /\ d.st \in {"IDLE", "LISTENING", "TURNAROUND", "TALK_READY", "TALKING", "TALK_FRAME"}
    THEN VirtAttend(d)
    ELSE CASE d.st = "ATTENTION" ->
                 IF h.clk /\ d.us >= VirtShort
                 THEN VirtGo([d EXCEPT !.data = TRUE, !.bits = 0, !.byte = 0, !.ph = 0,
                                       !.prevClk = TRUE], "ADDRESSING")
                 ELSE [d EXCEPT !.data = TRUE]
           [] d.st = "ADDRESSING"  -> VirtAddressing(h, d, cmds)
           [] d.st = "ACKNOWLEDGE" -> VirtAcknowledge(h, d)
           [] d.st = "LISTENING"   -> VirtReceive(h, d, cmds)
           [] d.st = "TURNAROUND"  -> VirtTurnaround(h, d)
           [] d.st = "TALK_READY"  -> VirtTalkReady(h, d)
           [] d.st = "TALKING"     -> VirtTalking(h, d)
           [] d.st = "TALK_FRAME"  -> VirtTalkFrame(h, d)
           [] OTHER -> d

\* mountDisk() and ejectDisk()
VirtMount(d, disk) == [d EXCEPT !.disk = disk, !.buf = IF disk THEN @ ELSE <<>>]

\* What a computer that has accepted n bytes since the file was loaded should have.
VirtSent(d, n) ==
    [i \in 1 .. n |-> Byte(IF i <= Len(d.buf) THEN d.buf[i] % 2 ^ ByteBits ELSE 0)]

\* The links of a listing lead from each line to the next and end at the last.
LinksChain(b) ==
    \A i \in {k \in 2 .. Len(b) : k % 4 = 2} : b[i] = IF i + 4 > Len(b) THEN 0 ELSE i + 4
-----------------------------------------------------------------------------

CONSTANT MaxBytes    \* bound: bytes written or asked for in one transfer

ASSUME IecAssumption == MaxBytes \in Nat

VARIABLES iecHost,    \* the lines the computer drives
          iec,        \* the drive
          kernal      \* the computer: where it is in a transfer

iecVars == <<iecHost, iec, kernal, dosVars>>

\* The drive's waiting times, and the KERNAL's for a talker that stays silent.
BitTime == 1
BetweenBytes == 1
EoiTime == 2
EoiAckTime == 1
FrameTime == 6
ListenerTimeout == 2
W1ms == 0

\* A byte is a number of ByteBits bits; under ATN it stands for a command.
Commands3 == <<<<"listen", 8>>, <<"unlisten", 0>>, <<"talk", 8>>, <<"untalk", 0>>,
               <<"data", 0>>, <<"open", 0>>, <<"data", 2>>, <<"talk", 9>>>>
CommandsOf(d) == IF d.virtual THEN [Commands3 EXCEPT ![7] = <<"close", 0>>] ELSE Commands3
CodeOf(b) == IF b[1] = "byte" THEN b[2]
             ELSE (CHOOSE i \in 1 .. 8 : CommandsOf(iec)[i] = b) - 1

Off == [atn |-> FALSE, clk |-> FALSE, data |-> FALSE]

DriveReset ==
    [virtual |-> FALSE, st |-> "Idle", us |-> 0, clk |-> FALSE, data |-> FALSE,
     prevAtn |-> FALSE, prevClk |-> FALSE,
     byte |-> 0, bits |-> 0, eoi |-> FALSE, underAtn |-> FALSE,
     listener |-> FALSE, talker |-> FALSE, ourListen |-> FALSE, ourTalk |-> FALSE,
     pending |-> FALSE, pbyte |-> 0, plast |-> FALSE, pchan |-> -1]

KernalIdle == [at |-> "idle", todo |-> <<>>, next |-> "done", left |-> 0, chan |-> 0,
               base |-> 0, sent |-> <<>>, bits |-> 0, byte |-> 0, eoi |-> FALSE, timer |-> 0]

IecInit ==
    /\ iecHost = Off /\ iec \in {DriveReset, VirtNew(TRUE)} /\ kernal = KernalIdle
    /\ DosInit
-----------------------------------------------------------------------------
(***************************************************************************)
(* The drive: functions on [d |-> drive, s |-> DOS] given the lines h.     *)
(***************************************************************************)
BusClk(h, d) == h.clk \/ d.clk
BusData(h, d) == h.data \/ d.data

Enter(x, st) == [x EXCEPT !.d.st = st, !.d.us = 0]
Drive(x, clk, data) == [x EXCEPT !.d.clk = clk, !.d.data = data]

AtnStart(h, x) ==
    LET y == Drive(x, FALSE, TRUE)
    IN  Enter([y EXCEPT !.d.underAtn = TRUE, !.d.prevClk = BusClk(h, y.d)], "RxWaitReady")

\* The drive still holds DATA, its last acknowledgement, when it turns around.
AtnEnd(x) ==
    LET y == [x EXCEPT !.d.underAtn = FALSE]
    IN  IF x.d.talker THEN Enter(y, "Turnaround")
        ELSE IF x.d.listener THEN Enter(Drive(y, x.d.clk, TRUE), "RxWaitReady")
        ELSE Enter(Drive(y, FALSE, FALSE), "Idle")

AtnChange(h, x) ==
    IF h.atn = x.d.prevAtn THEN x
    ELSE LET y == [x EXCEPT !.d.prevAtn = h.atn]
         IN  IF h.atn THEN AtnStart(h, y) ELSE AtnEnd(y)

\* command(): LISTEN to us ends our own TALK, unlike on the IEEE-488 bus.
IecCommand(x, b) ==
    LET d == x.d
        s == x.s
        mine == b[2] = 8
        untalked == IF d.talker THEN DosUntalk(s) ELSE s
    IN CASE b[1] = "listen" ->
              [d |-> [d EXCEPT !.ourListen = mine, !.ourTalk = FALSE,
                               !.listener = @ \/ mine, !.talker = @ /\ ~mine],
               s |-> IF mine THEN DosListen(untalked) ELSE s]
         [] b[1] = "unlisten" ->
              [d |-> [d EXCEPT !.ourListen = FALSE, !.ourTalk = FALSE, !.listener = FALSE],
               s |-> IF d.listener THEN DosUnlisten(s) ELSE s]
         [] b[1] = "talk" ->
              [d |-> [d EXCEPT !.ourTalk = mine, !.ourListen = FALSE, !.talker = mine],
               s |-> IF mine THEN DosTalk(s) ELSE untalked]
         [] b[1] = "untalk" ->
              [d |-> [d EXCEPT !.ourListen = FALSE, !.ourTalk = FALSE, !.talker = FALSE],
               s |-> untalked]
         [] b[1] \in SecondaryKinds /\ d.ourListen ->
              [d |-> [d EXCEPT !.pending = FALSE], s |-> DosSecond(s, b)]
         [] b[1] \in SecondaryKinds /\ ~d.ourListen /\ d.ourTalk ->
              [d |-> [d EXCEPT !.pending = @ /\ b[2] = d.pchan, !.pchan = b[2]],
               s |-> DosTksa(s, b)]
         [] OTHER -> x

\* A complete byte: a command, or data if the drive is addressed to listen.
Received(x) ==
    IF x.d.underAtn THEN IecCommand(x, Commands3[x.d.byte + 1])
    ELSE IF x.d.listener THEN [x EXCEPT !.s = DosCiout(@, Byte(x.d.byte))] ELSE x

\* Faulty: the state moves on without the edge.
RxWaitReadyLevel(h, x, rose) ==
    IF ~BusClk(h, x.d) THEN Enter([x EXCEPT !.d.data = FALSE, !.d.eoi = FALSE], "RxWaitStart")
    ELSE [x EXCEPT !.d.data = TRUE]

\* Hold DATA until the talker, having pulled CLK, lets it go.
RxWaitReady(h, x, rose) ==
    IF rose THEN Enter([x EXCEPT !.d.data = FALSE, !.d.eoi = FALSE], "RxWaitStart")
    ELSE [x EXCEPT !.d.data = TRUE]

RxWaitStart(h, x, rose) ==
    IF BusClk(h, x.d) THEN Enter([x EXCEPT !.d.bits = 0, !.d.byte = 0], "RxBits")
    ELSE IF ~x.d.eoi /\ x.d.us > EoiTime
         THEN Enter([x EXCEPT !.d.eoi = TRUE, !.d.data = TRUE], "RxEoiAck")
         ELSE x

RxEoiAck(h, x, rose) ==
    IF x.d.us >= EoiAckTime THEN Enter([x EXCEPT !.d.data = FALSE], "RxWaitStart") ELSE x

\* LSB first; DATA released is a 1.
RxBits(h, x, rose) ==
    IF ~rose THEN x
    ELSE LET one == IF BusData(h, x.d) THEN 0 ELSE 2 ^ (ByteBits - 1)
             y == [x EXCEPT !.d.byte = (@ \div 2) + one, !.d.bits = @ + 1]
         IN  IF y.d.bits = ByteBits THEN Enter(y, "RxFrameEnd") ELSE y

\* Faulty: the byte is taken when its last bit is, and again at the frame's end.
RxFrameEndTwice(h, x, rose) ==
    IF BusClk(h, x.d) THEN Received(Enter([x EXCEPT !.d.data = TRUE], "RxWaitReady")) ELSE Received(x)

RxFrameEnd(h, x, rose) ==
    IF BusClk(h, x.d) THEN Received(Enter([x EXCEPT !.d.data = TRUE], "RxWaitReady")) ELSE x

Turnaround(h, x, rose) == IF h.clk THEN x ELSE Enter(Drive(x, TRUE, FALSE), "TxStart")

\* Faulty: a byte not acknowledged is forgotten.
NextByteFresh(x) ==
    IF DosHasByte(x.s)
    THEN [d |-> [x.d EXCEPT !.pending = TRUE, !.pbyte = DosByte(x.s)[2], !.plast = DosLast(x.s)],
          s |-> DosAcptr(x.s)]
    ELSE [x EXCEPT !.d.pending = FALSE]

\* The byte kept from last time, the DOS's next one, or none (pending FALSE).
NextByte(x) ==
    IF x.d.pending THEN x
    ELSE IF DosHasByte(x.s)
         THEN [d |-> [x.d EXCEPT !.pending = TRUE, !.pbyte = DosByte(x.s)[2],
                                 !.plast = DosLast(x.s)],
               s |-> DosAcptr(x.s)]
         ELSE x

TxStart(h, x, rose) ==
    LET y == Drive(x, TRUE, FALSE)
        z == NextByte(y)
    IN  IF ~(h.data /\ x.d.us >= BetweenBytes) THEN y
        ELSE IF z.d.pending THEN Enter([z EXCEPT !.d.clk = FALSE], "TxWaitListener")
        ELSE Enter(z, "Silent")

TxWaitListener(h, x, rose) ==
    IF BusData(h, x.d) THEN x
    ELSE Enter([x EXCEPT !.d.bits = 0], IF x.d.plast THEN "TxEoiWait" ELSE "TxBitSetup")

TxEoiWait(h, x, rose) == IF BusData(h, x.d) THEN Enter(x, "TxEoiRelease") ELSE x

TxEoiRelease(h, x, rose) ==
    IF BusData(h, x.d) THEN x ELSE Enter([x EXCEPT !.d.bits = 0], "TxBitSetup")

\* Pull DATA for a 0.
TxBit(x) == Drive(x, TRUE, ~Bit(x.d.pbyte, x.d.bits))

TxBitSetup(h, x, rose) ==
    IF x.d.us >= BitTime THEN Enter([TxBit(x) EXCEPT !.d.clk = FALSE], "TxBitValid") ELSE TxBit(x)

TxBitValid(h, x, rose) ==
    LET y == [x EXCEPT !.d.bits = @ + 1]
    IN  IF x.d.us < BitTime THEN x
        ELSE IF y.d.bits = ByteBits THEN Enter(Drive(y, TRUE, FALSE), "TxFrame")
        ELSE TxBit(Enter(y, "TxBitSetup"))

TxFrame(h, x, rose) ==
    IF BusData(h, x.d)
    THEN LET y == [x EXCEPT !.d.pending = FALSE]
         IN  IF x.d.plast THEN Enter(Drive(y, FALSE, FALSE), "Silent") ELSE Enter(y, "TxStart")
    ELSE IF x.d.us > FrameTime THEN Enter(Drive(x, FALSE, FALSE), "Silent") ELSE x

StateStep(h, x, rose) ==
    CASE x.d.st \in {"Idle", "Silent"} -> Drive(x, FALSE, FALSE)
      [] x.d.st = "RxWaitReady"    -> RxWaitReady(h, x, rose)
      [] x.d.st = "RxWaitStart"    -> RxWaitStart(h, x, rose)
      [] x.d.st = "RxEoiAck"       -> RxEoiAck(h, x, rose)
      [] x.d.st = "RxBits"         -> RxBits(h, x, rose)
      [] x.d.st = "RxFrameEnd"     -> RxFrameEnd(h, x, rose)
      [] x.d.st = "Turnaround"     -> Turnaround(h, x, rose)
      [] x.d.st = "TxStart"        -> TxStart(h, x, rose)
      [] x.d.st = "TxWaitListener" -> TxWaitListener(h, x, rose)
      [] x.d.st = "TxEoiWait"      -> TxEoiWait(h, x, rose)
      [] x.d.st = "TxEoiRelease"   -> TxEoiRelease(h, x, rose)
      [] x.d.st = "TxBitSetup"     -> TxBitSetup(h, x, rose)
      [] x.d.st = "TxBitValid"     -> TxBitValid(h, x, rose)
      [] x.d.st = "TxFrame"        -> TxFrame(h, x, rose)

\* step(): ATN first, then one transition on the clock edge just seen.
DriveStep(h, x) ==
    LET y == AtnChange(h, x)
        clk == BusClk(h, y.d)
    IN  StateStep(h, [y EXCEPT !.d.prevClk = clk], y.d.prevClk /\ ~clk)

\* The drive on the bus: the sector-level one, or the virtual one.
IecStep(h, x) ==
    IF x.d.virtual THEN [x EXCEPT !.d = VirtStep(h, @, CommandsOf(@))] ELSE DriveStep(h, x)

\* setComputerLines()
HostLines(h) ==
    LET y == IecStep(h, [d |-> iec, s |-> dos])
    IN  iecHost' = h /\ iec' = y.d /\ dos' = y.s
-----------------------------------------------------------------------------
(***************************************************************************)
(* The computer (external): the KERNAL's serial routines.  A transfer is   *)
(* bytes under ATN, then data written (the last with EOI) or read.         *)
(***************************************************************************)
Host(atn, clk, data) == HostLines([atn |-> atn, clk |-> clk, data |-> data])
KGoto(at) == kernal' = [kernal EXCEPT !.at = at]
ClkLow == BusClk(iecHost, iec)
DataLow == BusData(iecHost, iec)

\* Before UNLISTEN the KERNAL lets CLK go; otherwise ATN comes first.
StartTransfer(cmds, next, c, n, base) ==
    /\ kernal.at = "idle"
    /\ Host(TRUE, FALSE, FALSE)
    /\ kernal' = [KernalIdle EXCEPT !.at = "atn", !.todo = cmds, !.next = next,
                                    !.chan = c, !.left = n, !.base = base]

KForgotten == IF iec.pending THEN {iec.pchan} ELSE {}

\* The name is one byte, n; the virtual drive keeps its file until TALK.
KOpen(c, n) ==
    /\ StartTransfer(<<<<"listen", 8>>, <<"open", c>>>>, "write", c, 1, n - 1)
    /\ got' = IF iec.virtual THEN got ELSE [got EXCEPT ![c] = <<>>]
    /\ dropped' = (dropped \cup KForgotten) \ {c}

KWrite(c, n) ==
    /\ StartTransfer(<<<<"listen", 8>>, <<"data", c>>>>, "write", c, n, 0)
    /\ dropped' = dropped \cup KForgotten
    /\ UNCHANGED got

\* (Bound: the virtual drive's file is not read on long after its end.)
KRead(c, n) ==
    /\ iec.virtual => iec.name # <<>> \/ Len(got[c]) <= FileLen
    /\ StartTransfer(<<<<"talk", 8>>, <<"data", c>>>>, "read", c, n, 0)
    /\ dropped' = dropped \cup (KForgotten \ {c})
    /\ got' = IF iec.virtual /\ iec.name # <<>> THEN [got EXCEPT ![c] = <<>>] ELSE got

KClose(c) ==
    /\ iec.virtual
    /\ StartTransfer(<<<<"listen", 8>>, <<"close", c>>>>, "write", c, 0, 0)
    /\ got' = [got EXCEPT ![c] = <<>>] /\ UNCHANGED dropped

\* Another drive talks; this one only hears its address.
KTalkOther ==
    /\ StartTransfer(<<<<"talk", 9>>>>, "done", 0, 0, 0)
    /\ UNCHANGED hist

KAtnClock ==
    /\ kernal.at = "atn"
    /\ Host(TRUE, TRUE, FALSE)
    /\ kernal' = [kernal EXCEPT !.at = "w1ms", !.timer = 0]
    /\ UNCHANGED hist

\* A millisecond for every drive to notice.
KWaited ==
    /\ kernal.at = "w1ms" /\ kernal.timer > W1ms
    /\ KGoto("send") /\ UNCHANGED <<iecHost, iec, dos, hist>>

\* Is a device there?  It holds DATA; then CLK goes up: ready to send.
KReadyToSend ==
    /\ kernal.at = "send" /\ kernal.todo # <<>> /\ DataLow
    /\ Host(iecHost.atn, FALSE, FALSE)
    /\ KGoto("rts") /\ UNCHANGED hist

LastByte == kernal.next = "write" /\ ~iecHost.atn /\ Len(kernal.todo) = 1

\* The listener is ready; the last byte waits for its EOI acknowledgement.
KListenerReady ==
    /\ kernal.at = "rts" /\ ~DataLow
    /\ IF LastByte /\ ~kernal.eoi
       THEN UNCHANGED <<iecHost, iec, dos>> /\ KGoto("eoi")
       ELSE /\ Host(iecHost.atn, TRUE, FALSE)
            /\ kernal' = [kernal EXCEPT !.at = "bit", !.bits = 0]
    /\ UNCHANGED hist

KEoiAcknowledged ==
    /\ kernal.at = "eoi" /\ DataLow
    /\ kernal' = [kernal EXCEPT !.at = "rts", !.eoi = TRUE]
    /\ UNCHANGED <<iecHost, iec, dos, hist>>

\* A bit: set DATA with CLK low, let CLK go, pull it and let DATA go.
KBit ==
    /\ kernal.at = "bit"
    /\ Host(iecHost.atn, TRUE, ~Bit(CodeOf(Head(kernal.todo)), kernal.bits))
    /\ KGoto("valid") /\ UNCHANGED hist

KBitValid ==
    /\ kernal.at = "valid"
    /\ Host(iecHost.atn, FALSE, iecHost.data)
    /\ KGoto("bitend") /\ UNCHANGED hist

KBitEnd ==
    /\ kernal.at = "bitend"
    /\ Host(iecHost.atn, TRUE, FALSE)
    /\ kernal' = [kernal EXCEPT !.bits = @ + 1,
                                !.at = IF kernal.bits + 1 = ByteBits THEN "frame" ELSE "bit"]
    /\ UNCHANGED hist

KFrame ==
    /\ kernal.at = "frame" /\ DataLow
    /\ kernal' = [kernal EXCEPT !.at = "send", !.todo = Tail(@), !.eoi = FALSE,
                                !.sent = IF iecHost.atn THEN @ ELSE Append(@, Head(kernal.todo))]
    /\ UNCHANGED <<iecHost, iec, dos, hist>>

\* The commands are out: release ATN and write, or release everything.
KCommandsSent ==
    /\ kernal.at = "send" /\ kernal.todo = <<>> /\ iecHost.atn
    /\ \/ /\ kernal.next = "write"
          /\ Host(FALSE, TRUE, FALSE)
          /\ kernal' = [kernal EXCEPT !.todo = [i \in 1 .. kernal.left |-> Byte(kernal.base + i)]]
       \/ /\ kernal.next = "done"
          /\ Host(FALSE, FALSE, FALSE)
          /\ KGoto("idle")
       \/ /\ kernal.next = "read"
          /\ Host(TRUE, TRUE, TRUE)
          /\ KGoto("turn")
    /\ UNCHANGED hist

KUnlisten ==
    /\ kernal.at = "send" /\ kernal.todo = <<>> /\ ~iecHost.atn
    /\ Host(FALSE, FALSE, FALSE)
    /\ kernal' = [kernal EXCEPT !.at = "unlisten", !.todo = <<<<"unlisten", 0>>>>, !.next = "done"]
    /\ UNCHANGED hist

KUnlistenAtn ==
    /\ kernal.at = "unlisten"
    /\ Host(TRUE, FALSE, FALSE)
    /\ KGoto("atn") /\ UNCHANGED hist

\* Turnaround: DATA is held, ATN and then CLK let go; the drive takes CLK.
KTurnAtn == kernal.at = "turn" /\ Host(FALSE, TRUE, TRUE) /\ KGoto("turnclk") /\ UNCHANGED hist

KTurnClk == kernal.at = "turnclk" /\ Host(FALSE, FALSE, TRUE) /\ KGoto("turned") /\ UNCHANGED hist

KTurned ==
    /\ kernal.at = "turned" /\ ClkLow
    /\ KGoto("recv") /\ UNCHANGED <<iecHost, iec, dos, hist>>

\* The talker is ready (CLK up): let DATA go.
KReadyForData ==
    /\ kernal.at = "recv" /\ kernal.left > 0 /\ ~ClkLow
    /\ Host(FALSE, FALSE, FALSE)
    /\ kernal' = [kernal EXCEPT !.at = "await", !.timer = 0, !.eoi = FALSE]
    /\ UNCHANGED hist

KByteStarts ==
    /\ kernal.at = "await" /\ ClkLow
    /\ kernal' = [kernal EXCEPT !.at = "low", !.bits = 0, !.byte = 0]
    /\ UNCHANGED <<iecHost, iec, dos, hist>>

\* No CLK in time: the first time that is EOI, acknowledged with a DATA pulse;
\* the second time nothing will come.
KSilence ==
    /\ kernal.at = "await" /\ ~ClkLow /\ kernal.timer > ListenerTimeout
    /\ IF kernal.eoi
       THEN KGoto("stop") /\ UNCHANGED <<iecHost, iec, dos>>
       ELSE Host(FALSE, FALSE, TRUE) /\ KGoto("eoipulse")
    /\ UNCHANGED hist

KEoiPulseEnds ==
    /\ kernal.at = "eoipulse"
    /\ Host(FALSE, FALSE, FALSE)
    /\ kernal' = [kernal EXCEPT !.at = "await", !.eoi = TRUE, !.timer = 0]
    /\ UNCHANGED hist

KSample ==
    /\ kernal.at = "low" /\ ~ClkLow
    /\ kernal' = [kernal EXCEPT !.at = "high", !.bits = @ + 1,
                                !.byte = (@ \div 2) + (IF DataLow THEN 0 ELSE 2 ^ (ByteBits - 1))]
    /\ UNCHANGED <<iecHost, iec, dos, hist>>

\* CLK low again: the next bit, or the whole byte, acknowledged with DATA.
KBitOver ==
    /\ kernal.at = "high" /\ ClkLow
    /\ IF kernal.bits < ByteBits
       THEN KGoto("low") /\ UNCHANGED <<iecHost, iec, dos, got>>
       ELSE /\ Host(FALSE, FALSE, TRUE)
            /\ got' = [got EXCEPT ![kernal.chan] = Append(@, Byte(kernal.byte))]
            /\ kernal' = [kernal EXCEPT !.at = IF kernal.eoi THEN "stop" ELSE "recv", !.left = @ - 1]
    /\ UNCHANGED dropped

\* The program has what it wants, or the file has ended: UNTALK.
KUntalk ==
    /\ kernal.at \in {"recv", "stop"}
    /\ Host(TRUE, FALSE, iecHost.data)
    /\ kernal' = [kernal EXCEPT !.at = "atn", !.todo = <<<<"untalk", 0>>>>, !.next = "done"]
    /\ UNCHANGED hist

\* Where the program, not the KERNAL, decides when to go on.
AtLeisure == kernal.at \in {"idle", "recv", "stop"} \/ (kernal.at = "send" /\ ~iecHost.atn)

\* The KERNAL waits for a line to change, or for its timer.
Waiting ==
    \/ kernal.at = "rts" /\ DataLow
    \/ kernal.at \in {"eoi", "frame"} /\ ~DataLow
    \/ kernal.at = "send" /\ kernal.todo # <<>> /\ ~DataLow
    \/ kernal.at \in {"turned", "high"} /\ ~ClkLow
    \/ kernal.at = "low" /\ ClkLow
    \/ kernal.at = "await" /\ ~ClkLow /\ kernal.timer <= ListenerTimeout
    \/ kernal.at = "w1ms" /\ kernal.timer <= W1ms

\* tick() runs every few cycles: the drive has seen the lines before a unit of
\* time passes (n = 1), and the KERNAL, if it is not waiting, has gone on.
Tick(n) ==
    LET now == [d |-> iec, s |-> dos]
        later == [iec EXCEPT !.us = IF @ > FrameTime THEN @ ELSE @ + n]
        y == IecStep(iecHost, [d |-> later, s |-> dos])
    IN  /\ n = 1 => (AtLeisure \/ Waiting) /\ IecStep(iecHost, now) = now
        /\ iec' = y.d /\ dos' = y.s
        /\ kernal' = [kernal EXCEPT !.timer = IF kernal.at \in {"await", "w1ms"} THEN @ + n ELSE @]
        /\ UNCHANGED <<iecHost, hist>>

\* mountDisk(): a new DOS; the protocol state and the lines stay.  (Bound: disks
\* are changed between transfers.)
IecMount ==
    /\ kernal.at = "idle" /\ ~iec.virtual
    /\ dos' = DosReset
    /\ iec' = [iec EXCEPT !.listener = FALSE, !.talker = FALSE, !.pending = FALSE]
    /\ UNCHANGED <<iecHost, kernal, hist>>

\* ejectDisk(): back to the host folder, whose DOS is reset; the drive keeps
\* the byte it had read from the old disk.
IecEject ==
    /\ kernal.at = "idle" /\ ~iec.virtual
    /\ dos' = DosReset
    /\ UNCHANGED <<iecHost, iec, kernal, hist>>

\* The virtual drive's disk, in or out; what was read so far is forgotten.
IecSwap ==
    /\ kernal.at = "idle" /\ iec.virtual
    /\ iec' = VirtMount(iec, ~iec.disk)
    /\ got' = IF iec.disk THEN [c \in DosChannels |-> <<>>] ELSE got
    /\ UNCHANGED <<iecHost, kernal, dos, dropped>>

IecReset ==
    /\ iec' = IF iec.virtual THEN VirtReset(iec) ELSE DriveReset
    /\ iecHost' = Off /\ kernal' = KernalIdle
    /\ dos' = DosReset /\ got' = [c \in DosChannels |-> <<>>] /\ dropped' = {}

KernalStep ==
    \/ KAtnClock \/ KWaited \/ KReadyToSend \/ KListenerReady \/ KEoiAcknowledged
    \/ KBit \/ KBitValid \/ KBitEnd \/ KFrame \/ KCommandsSent \/ KUnlisten \/ KUnlistenAtn
    \/ KTurnAtn \/ KTurnClk \/ KTurned \/ KReadyForData \/ KByteStarts \/ KSilence
    \/ KEoiPulseEnds \/ KSample \/ KBitOver \/ KUntalk

KernalStart ==
    \/ KTalkOther
    \/ \E n \in 1 .. (IF iec.virtual THEN 3 ELSE 1) : KOpen(0, n)
    \/ \E c \in (IF iec.virtual THEN {0} ELSE DosChannels), n \in 1 .. MaxBytes :
          KWrite(c, n) \/ KRead(c, n)
    \/ KClose(0)

IecNext == KernalStart \/ KernalStep \/ (\E n \in 0 .. 1 : Tick(n))
           \/ IecMount \/ IecEject \/ IecSwap \/ IecReset

\* The KERNAL does not stop in the middle of a byte, and time passes.
IecFairness == WF_iecVars(KernalStep) /\ \A n \in 0 .. 1 : WF_iecVars(Tick(n))

IecSpec == IecInit /\ [][IecNext]_iecVars /\ IecFairness
-----------------------------------------------------------------------------
(***************************************************************************)
(* The bytes a program reads from a file over the serial bus are its first *)
(* ones, in order, none missing and none twice, bit by bit and however     *)
(* often it stops in between (nextByte, TxFrame), unless the program used  *)
(* another channel first; from the virtual drive (getNextByte, TALK_FRAME) *)
(* they are those of what its last TALK with a name loaded.                *)
(***************************************************************************)
IecBytesInOrder == IF iec.virtual THEN got[0] = VirtSent(iec, Len(got[0])) ELSE InOrder

(***************************************************************************)
(* The virtual drive's directory, as the BASIC program it is sent as, is a *)
(* chain of lines: every link leads to the next one and the last is zero   *)
(* (generateDirectoryListing's second pass).                               *)
(***************************************************************************)
VirtLinksChain == (iec.virtual /\ Len(iec.buf) > FileLen) => LinksChain(iec.buf)

\* The virtual drive takes everything written to it for a name.
Arrived == IF iec.virtual THEN [i \in 1 .. Len(iec.name) |-> Byte(iec.name[i])] ELSE dos.in

(***************************************************************************)
(* What the computer has written in this transfer is what the DOS received,*)
(* each byte once, also when its last one pauses for EOI (RxWaitStart,     *)
(* RxEoiAck).                                                              *)
(***************************************************************************)
IecWritesArrive ==
    (kernal.next = "write" /\ ~iecHost.atn)
        => \/ Arrived = kernal.sent
           \/ kernal.todo # <<>> /\ Arrived = Append(kernal.sent, Head(kernal.todo))

(***************************************************************************)
(* No transfer hangs: whatever the drive was doing when ATN fell, the      *)
(* KERNAL's waits for CLK and DATA end and the program gets its turn again.*)
(***************************************************************************)
IecTransferEnds == ~AtLeisure ~> AtLeisure
=============================================================================
