-------------------------------- MODULE X16 ---------------------------------
(***************************************************************************)
(* The Commander X16 outside VERA: the bank latches (machine_x16.cpp) and  *)
(* what is behind VIA 1's port A (x16_i2c.cpp): the I2C bus with the       *)
(* system management controller (SMC: keyboard, mouse, reset) and the      *)
(* clock, and the game pads.                                               *)
(***************************************************************************)
EXTENDS Integers, Sequences, FiniteSets

LineBit(v, n) == (v \div 2^n) % 2 = 1

(***************************************************************************)
(* X16Bus: addresses 0 and 1 are RAM and select the banks.  An interrupt's *)
(* vector fetch clears the ROM latch alone.                                *)
(***************************************************************************)
CONSTANT X16Banks   \* banks a program selects

VARIABLES xbus,     \* m_ram[0], m_ram[1], m_ramBank, m_romBank, a snapshot
          xirq      \* history: an interrupt has cleared the ROM latch since address 1 was written

busVars == <<xbus, xirq>>

BusInit == xbus = [at0 |-> 0, at1 |-> 0, ram |-> 0, rom |-> 0, snap |-> <<>>] /\ xirq = FALSE

\* Faulty: a store to address 0 changes RAM only.
BusStoreRam(a, v) ==
    /\ xbus' = IF a = 0 THEN [xbus EXCEPT !.at0 = v] ELSE [xbus EXCEPT !.at1 = v, !.rom = v]
    /\ xirq' = (xirq /\ a = 0)

BusStore(a, v) ==
    /\ xbus' = IF a = 0 THEN [xbus EXCEPT !.at0 = v, !.ram = v] ELSE [xbus EXCEPT !.at1 = v, !.rom = v]
    /\ xirq' = (xirq /\ a = 0)

VectorPull == xbus' = [xbus EXCEPT !.rom = 0] /\ xirq' = TRUE
BusReset == xbus' = [xbus EXCEPT !.at0 = 0, !.at1 = 0, !.ram = 0, !.rom = 0] /\ xirq' = FALSE
BusSave == xbus' = [xbus EXCEPT !.snap = <<xbus.at0, xbus.at1>>] /\ UNCHANGED xirq
BusLoad ==
    /\ xbus.snap # <<>>
    /\ xbus' = [xbus EXCEPT !.at0 = xbus.snap[1], !.at1 = xbus.snap[2], !.ram = xbus.snap[1], !.rom = xbus.snap[2]]
    /\ xirq' = FALSE

BusNext ==
    \/ \E a \in 0 .. 1, v \in X16Banks : BusStore(a, v)
    \/ VectorPull \/ BusReset \/ BusSave \/ BusLoad

(***************************************************************************)
(* A program, and an interrupt handler that has to return, find the banks  *)
(* in addresses 0 and 1: the RAM latch always, the ROM latch unless an     *)
(* interrupt put the KERNAL's bank in its place (read, write8, loadState,  *)
(* vectorPull).                                                            *)
(***************************************************************************)
BanksTold == xbus.ram = xbus.at0 /\ xbus.rom = IF xirq THEN 0 ELSE xbus.at1
-----------------------------------------------------------------------------
(***************************************************************************)
(* Smc.  A queue is the slots from tail to head; one slot stays free.  A   *)
(* key event is <<who, number>> with who "text" or "user"; a byte of a     *)
(* mouse packet is its index in the packet.  Codes of registers:           *)
(*   0 keys ($41), 1 mouse ($42, $21), 2 keys and mouse ($43), 3 version,  *)
(*   4 default read ($40), 6 mouse type ($20), 7 keys ($07).               *)
(***************************************************************************)
CONSTANTS KbdSize, MseSize,     \* slots of the queues
          CountWrap,            \* m_mseCount counts modulo this
          MaxEvents             \* bound: key events

ASSUME SmcSizes ==
    /\ KbdSize \in Nat /\ KbdSize > 1
    /\ MseSize \in Nat /\ MseSize > 4
    /\ CountWrap \in Nat /\ CountWrap > 4

VARIABLES smc,      \* m_kbd, m_mse, m_mseCount, m_mouseId, m_defaultReadOp, m_defaultReadState
          xtext,    \* X16Keyboard::m_queue
          xseen     \* history: events typed, what the program got, and whether a packet was cut

smcVars == <<smc, xtext, xseen>>

SmcReset ==
    [kbd |-> <<>>, mse |-> <<>>, count |-> 0, id |-> 3, defop |-> 0, second |-> FALSE]

SmcInit == smc = SmcReset /\ xtext = <<>> /\ xseen = [typed |-> <<>>, got |-> <<>>, made |-> 0, cut |-> FALSE]

PacketSize(s) == IF s.id \in {3, 4} THEN 4 ELSE 3

\* keyAdd(): dropped when the queue is full.
KeyAdd(s, e) == IF Len(s.kbd) = KbdSize - 1 THEN s ELSE [s EXCEPT !.kbd = Append(@, e)]

SmcKey ==
    /\ xseen.made < MaxEvents
    /\ smc' = KeyAdd(smc, <<"user", 0>>)
    /\ xseen' = [xseen EXCEPT !.made = @ + 1]
    /\ UNCHANGED xtext

\* queueKey(): a key with SHIFT is four events, one without is two; events are numbered.
SmcType(n) ==
    LET events == [i \in 1 .. n |-> <<"text", Len(xseen.typed) + i>>]
    IN  /\ xseen.made + n <= MaxEvents
        /\ xtext' = xtext \o events
        /\ xseen' = [xseen EXCEPT !.typed = @ \o events, !.made = @ + n]
        /\ UNCHANGED smc

\* Faulty: events are handed over whether the SMC has taken the last one or not.
TypeTickEager ==
    /\ xtext # <<>>
    /\ smc' = KeyAdd(smc, Head(xtext)) /\ xtext' = Tail(xtext)
    /\ UNCHANGED xseen

TypeTick ==
    /\ xtext # <<>> /\ smc.kbd = <<>>
    /\ smc' = KeyAdd(smc, Head(xtext)) /\ xtext' = Tail(xtext)
    /\ UNCHANGED xseen

\* Faulty: a packet goes into the queue as far as there is room.
MouseSendPart(s) ==
    LET room == MseSize - 1 - Len(s.mse)
        size == IF room < PacketSize(s) THEN room ELSE PacketSize(s)
    IN  [s EXCEPT !.mse = @ \o [i \in 1 .. size |-> i - 1]]

\* mouseSend(): a packet goes into the queue whole or not at all.
MouseSend(s) ==
    IF Len(s.mse) >= MseSize - PacketSize(s) THEN s ELSE [s EXCEPT !.mse = @ \o [i \in 1 .. PacketSize(s) |-> i - 1]]

\* sendMouseState() once a frame, with a packet or, after a long movement, several.
MouseFrame == (smc' = MouseSend(smc) \/ smc' = MouseSend(MouseSend(smc))) /\ UNCHANGED <<xtext, xseen>>

\* setMouseId()
SetMouseId(s, id) == [s EXCEPT !.id = IF id \in {0, 3} THEN id ELSE IF id = 4 THEN 3 ELSE 0, !.mse = <<>>]

NoByte == <<"none", 0>>
KbdNext(s) == <<IF s.kbd = <<>> THEN NoByte ELSE s.kbd[1], [s EXCEPT !.kbd = IF @ = <<>> THEN @ ELSE Tail(@)]>>
MseNext(s) == <<IF s.mse = <<>> THEN NoByte ELSE <<"mouse", s.mse[1]>>, [s EXCEPT !.mse = IF @ = <<>> THEN @ ELSE Tail(@)]>>

\* One byte of a packet; 0 when there is no whole packet.
MouseRead(s) ==
    CASE s.count = 0 /\ Len(s.mse) >= PacketSize(s) -> MseNext([s EXCEPT !.count = 1])
      [] s.count > 0 ->
            MseNext(IF s.count + 1 = PacketSize(s) THEN [s EXCEPT !.count = 0, !.second = FALSE]
                    ELSE [s EXCEPT !.count = (@ + 1) % CountWrap])
      [] OTHER -> <<NoByte, [s EXCEPT !.second = FALSE]>>

\* read(): <<the answer, the SMC after it>>.
SmcAnswer(s, op) ==
    CASE op = 0 -> KbdNext([s EXCEPT !.second = FALSE])
      [] op = 7 -> KbdNext(s)
      [] op = 1 -> MouseRead(s)
      [] op = 2 -> IF s.second THEN MouseRead(s) ELSE KbdNext([s EXCEPT !.second = TRUE])
      [] OTHER -> <<<<"fixed", op>>, s>>

\* write(): the effect of a register and a value; the reset it can ask for is at I2cByteIn.
SmcWrite(s, op, v) ==
    CASE op = 4 -> [s EXCEPT !.defop = v, !.second = FALSE]
      [] op = 6 -> SetMouseId(s, v)
      [] OTHER -> s

\* Transactions as the program sees them; without a register a read takes the default one.  The bits are below.
SmcReadOp(op) ==
    LET r == SmcAnswer(smc, op)
    IN  /\ smc' = r[2]
        /\ xseen' = [xseen EXCEPT !.got = IF r[1][1] = "text" THEN Append(@, r[1]) ELSE @]
        /\ UNCHANGED xtext
SmcWriteOp(op, v) ==
    /\ smc' = SmcWrite(smc, op, v)
    /\ xseen' = [xseen EXCEPT !.cut = @ \/ (op = 6 /\ smc.count > 0)]
    /\ UNCHANGED xtext

\* reset() of keyboard and SMC; clearKeys().
SmcResetAll ==
    smc' = SmcReset /\ xtext' = <<>> /\ xseen' = [xseen EXCEPT !.typed = xseen.got, !.made = Len(xseen.got), !.cut = FALSE]
SmcClearKeys ==
    /\ xtext' = <<>>
    /\ xseen' = [xseen EXCEPT !.typed = xseen.got \o SelectSeq(smc.kbd, LAMBDA e : e[1] = "text")]
    /\ UNCHANGED smc

SmcNext ==
    \/ SmcKey
    \/ SmcType(2) \/ SmcType(4) \/ TypeTick
    \/ MouseFrame
    \/ \E op \in {0, 1, 2, 3, 7, smc.defop} : SmcReadOp(op)
    \/ \E op \in 0 .. 2 : SmcWriteOp(4, op)
    \/ \E id \in {0, 3, 4} : SmcWriteOp(6, id)
    \/ SmcResetAll \/ SmcClearKeys

(***************************************************************************)
(* Typed text arrives: however many keys people press and whatever the     *)
(* program reads, no event of the text is dropped or overtakes another     *)
(* (X16Keyboard::tick, keyAdd, kbdNext).                                   *)
(***************************************************************************)
SmcTextArrives ==
    xseen.typed = xseen.got \o SelectSeq(smc.kbd, LAMBDA e : e[1] = "text") \o xtext

(***************************************************************************)
(* Mouse packets stay whole: the next byte of the queue is the one the     *)
(* SMC counts, so that a packet is never read from its middle, with every  *)
(* mixture of the registers that read it, unless the program changes the   *)
(* mouse's type inside a packet (mouseSend, read, setMouseId).             *)
(***************************************************************************)
SmcPacketsWhole ==
    ~xseen.cut => /\ smc.mse # <<>> => smc.mse[1] = smc.count
                  /\ smc.count > 0 => Len(smc.mse) >= PacketSize(smc) - smc.count
-----------------------------------------------------------------------------
(***************************************************************************)
(* I2cBus: SDA and SCL as the VIA leaves them, a byte reduced to I2cBits   *)
(* bits.  The master (the KERNAL, external) sends scripts of line changes; *)
(* it ends a transaction with STOP before it starts another, and gives up  *)
(* when the address is not acknowledged.                                   *)
(***************************************************************************)
CONSTANTS I2cBits,      \* bits of a byte
          I2cJobs       \* transactions: [rd, dev, reg, val]

ASSUME I2cBitsAtLeast == I2cBits \in Nat /\ I2cBits > 2

DEVICE_SMC == 2
DEVICE_RTC == 3
RESET_REG == 1      \* the SMC's register that resets the machine

VARIABLES i2c,      \* the bus's members
          imem,     \* Smc::m_data and m_pos, Rtc::m_data, m_pos and m_nvram
          imaster,  \* external: the transaction, the lines still to set, the bits read
          iseen     \* history: what the NVRAM has to hold, whether this transaction is the first after a reset by the SMC

i2cVars == <<i2c, imem, imaster, iseen>>

I2cIdle == [state |-> -1, rd |-> FALSE, value |-> 0, count |-> 0, dev |-> 0, out |-> TRUE, clk |-> TRUE, sda |-> TRUE]
Word == 0 .. 2^I2cBits - 1
NoJob == [rd |-> FALSE, dev |-> 0, reg |-> 0, val |-> 0]
Waiting == [job |-> NoJob, lines |-> <<>>, got |-> 0]

I2cInit ==
    /\ i2c = I2cIdle
    /\ imem = [smc |-> <<0, 0>>, spos |-> 0, rtc |-> <<0, 0>>, rpos |-> 0, nv |-> [r \in Word |-> 0]]
    /\ imaster = Waiting
    /\ iseen = [nv |-> [r \in Word |-> 0], lost |-> FALSE]

\* External: scripts.  `ask` is what the master samples while the clock is high.
Wires(c, d, a) == [clk |-> c, sda |-> d, ask |-> a]
StartBit == <<Wires(TRUE, FALSE, "none"), Wires(FALSE, FALSE, "none")>>
StopBit == <<Wires(FALSE, FALSE, "none"), Wires(TRUE, FALSE, "none"), Wires(TRUE, TRUE, "none")>>
Clocked(d, a) == <<Wires(FALSE, d, "none"), Wires(TRUE, d, a), Wires(FALSE, d, "none")>>
SendByte(v) ==
    [i \in 1 .. 3 * I2cBits |-> Clocked(LineBit(v, I2cBits - 1 - (i - 1) \div 3), "none")[((i - 1) % 3) + 1]]
    \o Clocked(TRUE, "ack")
RecvByte == [i \in 1 .. 3 * I2cBits |-> Clocked(TRUE, "bit")[((i - 1) % 3) + 1]] \o Clocked(TRUE, "none")
Script(j) ==
    IF j.rd THEN StartBit \o SendByte(2 * j.dev) \o SendByte(j.reg) \o StopBit
                 \o StartBit \o SendByte(2 * j.dev + 1) \o RecvByte \o StopBit
    ELSE StartBit \o SendByte(2 * j.dev) \o SendByte(j.reg) \o SendByte(j.val) \o StopBit

I2cBegin(j) ==
    /\ imaster.lines = <<>>
    /\ imaster' = [job |-> j, lines |-> Script(j), got |-> 0]
    /\ iseen' = [iseen EXCEPT !.nv = IF j.rd \/ j.dev # DEVICE_RTC \/ iseen.lost THEN @ ELSE [@ EXCEPT ![j.reg] = j.val]]
    /\ UNCHANGED <<i2c, imem>>

Put(data, pos, v) == IF pos < 2 THEN [data EXCEPT ![pos + 1] = v] ELSE data

\* Smc::data and Rtc::data; then, from the second byte on, write().
I2cData(m, b) ==
    CASE b.dev = DEVICE_SMC -> [m EXCEPT !.smc = Put(@, m.spos, b.value), !.spos = @ + 1]
      [] b.dev = DEVICE_RTC -> [m EXCEPT !.rtc = Put(@, m.rpos, b.value), !.rpos = @ + 1]
      [] OTHER -> m
I2cByteIn(m, b) ==
    LET d == I2cData(m, b)
    IN  CASE b.count > 1 /\ b.dev = DEVICE_SMC -> [d EXCEPT !.smc[1] = 0, !.spos = 0]
          [] b.count > 1 /\ b.dev = DEVICE_RTC -> [d EXCEPT !.nv[d.rtc[1]] = d.rtc[2], !.rpos = 0]
          [] OTHER -> d

\* Smc::write() asks for a reset, which the machine does inside step().
AsksReset(m, b) == b.dev = DEVICE_SMC /\ b.count > 1 /\ I2cData(m, b).smc = <<RESET_REG, 1>>

\* read(): the SMC answers with what its register selects, here the register's number.
I2cAnswer(m, dev) == CASE dev = DEVICE_SMC -> m.smc[1] [] dev = DEVICE_RTC -> m.nv[m.rtc[1]] [] OTHER -> 2^I2cBits - 1
AfterRead(m, dev) ==
    CASE dev = DEVICE_SMC -> [m EXCEPT !.smc[1] = 0, !.spos = 0] [] dev = DEVICE_RTC -> [m EXCEPT !.rpos = 0] [] OTHER -> m

\* Faulty: STOP keeps the count, so that the next address is taken for a register.
I2cConditionKeep(b, clk, sda) ==
    CASE b.state = -1 /\ ~clk /\ ~sda -> [b EXCEPT !.state = 0]
      [] b.state = 1 /\ clk /\ sda /\ ~b.sda -> [b EXCEPT !.state = -1, !.rd = FALSE]
      [] OTHER -> b

\* START and STOP.
I2cCondition(b, clk, sda) ==
    CASE b.state = -1 /\ ~clk /\ ~sda -> [b EXCEPT !.state = 0]
      [] b.state = 1 /\ clk /\ sda /\ ~b.sda -> [b EXCEPT !.state = -1, !.count = 0, !.rd = FALSE]
      [] OTHER -> b

\* A bit, on the rising clock.
I2cBit(b, m, sda) ==
    LET v == IF b.rd /\ b.state = 0 THEN I2cAnswer(m, b.dev) ELSE b.value
    IN  IF b.rd THEN [b EXCEPT !.out = LineBit(v, I2cBits - 1), !.value = (2 * v) % 2^I2cBits, !.state = @ + 1]
        ELSE [b EXCEPT !.out = TRUE, !.value = (2 * v + (IF sda THEN 1 ELSE 0)) % 2^I2cBits, !.state = @ + 1]

\* The acknowledge bit: the address, or a byte for the device.
I2cAck(b, sda) ==
    LET dev == b.value \div 2
    IN  CASE b.rd -> IF sda THEN [b EXCEPT !.out = TRUE, !.count = 0, !.rd = FALSE, !.state = 0]
                     ELSE [b EXCEPT !.out = TRUE, !.state = 0]
          [] ~b.rd /\ b.count = 0 /\ dev \notin {DEVICE_SMC, DEVICE_RTC} ->
                [b EXCEPT !.out = TRUE, !.dev = dev, !.rd = FALSE, !.state = 0]
          [] ~b.rd /\ b.count = 0 /\ dev \in {DEVICE_SMC, DEVICE_RTC} ->
                [b EXCEPT !.out = FALSE, !.dev = dev, !.rd = b.value % 2 = 1, !.count = 1, !.state = 0]
          [] OTHER -> [b EXCEPT !.out = FALSE, !.count = @ + 1, !.state = 0]

\* setMaster() and step(), then what the master sees.
I2cLine ==
    LET l == Head(imaster.lines)
        b == I2cCondition(i2c, l.clk, l.sda)
        edge == b.state # -1 /\ l.clk /\ ~b.clk
        bit == edge /\ b.state < I2cBits
        byte == edge /\ b.state = I2cBits /\ ~b.rd /\ b.count > 0
        reset == byte /\ AsksReset(imem, b)
        n == IF bit THEN I2cBit(b, imem, l.sda) ELSE IF edge THEN I2cAck(b, l.sda) ELSE b
        new == [n EXCEPT !.clk = l.clk, !.sda = l.sda]
    IN  /\ imaster.lines # <<>>
        /\ i2c' = IF reset THEN [I2cIdle EXCEPT !.state = 0, !.count = 1, !.out = FALSE, !.dev = b.dev] ELSE new
        /\ imem' = IF reset THEN [imem EXCEPT !.smc[1] = 0, !.spos = 0, !.rpos = 0]
                   ELSE IF bit /\ b.rd /\ b.state = 0 THEN AfterRead(imem, b.dev)
                   ELSE IF byte THEN I2cByteIn(imem, b) ELSE imem
        /\ imaster' = CASE reset \/ (iseen.lost /\ imaster.lines = <<l>>) -> Waiting
                        [] l.ask = "ack" /\ ~reset /\ new.out -> [imaster EXCEPT !.lines = StopBit, !.got = -1]
                        [] l.ask = "bit" ->
                              [imaster EXCEPT !.lines = Tail(@), !.got = 2 * @ + (IF new.out THEN 1 ELSE 0)]
                        [] OTHER -> [imaster EXCEPT !.lines = Tail(@)]
        /\ iseen' = [iseen EXCEPT !.lost = reset \/ (@ /\ (imaster.lines # <<l>>))]

\* The machine is reset inside a transaction: I2cBus::reset, Smc::reset, Rtc::reset, Via1PortA::reset.
I2cReset ==
    /\ i2c' = [I2cIdle EXCEPT !.dev = i2c.dev]
    /\ imem' = [imem EXCEPT !.smc[1] = 0, !.spos = 0, !.rpos = 0]
    /\ imaster' = Waiting
    /\ iseen' = [nv |-> imem.nv, lost |-> FALSE]

I2cNext == (\E j \in I2cJobs : I2cBegin(j)) \/ I2cLine \/ I2cReset

(***************************************************************************)
(* What goes over the two wires arrives: between transactions the bus is   *)
(* idle and its line released, the NVRAM holds what was written, a read    *)
(* has returned it, a device that is not there was not acknowledged; after *)
(* a reset at any point as well, except for the first transaction after a  *)
(* reset that the SMC was asked for (step, setMaster, data, read, write).  *)
(***************************************************************************)
I2cDelivers ==
    imaster.lines = <<>> /\ ~iseen.lost =>
        /\ i2c.state = -1 /\ i2c.count = 0 /\ ~i2c.rd /\ i2c.out
        /\ imem.nv = iseen.nv /\ imem.spos = 0 /\ imem.rpos = 0
        /\ imaster.job # NoJob =>
              imaster.got = CASE imaster.job.dev = DEVICE_RTC /\ imaster.job.rd -> imem.nv[imaster.job.reg]
                              [] imaster.job.dev = DEVICE_SMC /\ imaster.job.rd -> imaster.job.reg
                              [] imaster.job.dev \notin {DEVICE_SMC, DEVICE_RTC} -> -1
                              [] OTHER -> 0
-----------------------------------------------------------------------------
(***************************************************************************)
(* Rtc: the calendar, and the BCD registers through which a program reads  *)
(* and sets it.  A second is ClockHz clocks.                               *)
(***************************************************************************)
CONSTANTS ClockHz,      \* clocks of a second
          RtcYears,     \* years the clock starts in
          MaxClocks     \* bound: clocks of a behaviour

ASSUME ClockHzPositive == ClockHz \in Nat \ {0}

VARIABLES rtc,      \* the members of Rtc but the NVRAM
          rtrue     \* history: the day, the second of the day and the day of the week it has to be; clocks so far

rtcVars == <<rtc, rtrue>>

Leap(y) == y % 4 = 0
DaysPerMonth == <<31, 28, 31, 30, 31, 30, 31, 31, 30, 31, 30, 31>>
MonthDays(y, m) == DaysPerMonth[m] + (IF m = 2 /\ Leap(y) THEN 1 ELSE 0)

\* The reference: days since the start of the century.
DaysBefore == <<0, 31, 59, 90, 120, 151, 181, 212, 243, 273, 304, 334>>
DayNumber(t) ==
    t.year * 365 + ((t.year + 3) \div 4) + DaysBefore[t.month] + (IF t.month > 2 /\ Leap(t.year) THEN 1 ELSE 0) + t.day - 1
SecondNumber(t) == (t.hour * 60 + t.min) * 60 + t.sec

\* Started from the host's clock: reset(true).
RtcInit ==
    \E y \in RtcYears, m \in 1 .. 12, h \in {11, 23}, dow \in {1, 7} : \E d \in {28, MonthDays(y, m)} :
        /\ rtc = [run |-> TRUE, h24 |-> TRUE, clocks |-> 0, sec |-> 59, min |-> 59, hour |-> h,
                  dow |-> dow, day |-> d, month |-> m, year |-> y]
        /\ rtrue = [day |-> DayNumber(rtc), sec |-> SecondNumber(rtc), dow |-> dow, n |-> 0]

\* Faulty: every fourth year is not a leap year.
NextDayShort(t) ==
    CASE t.day < DaysPerMonth[t.month] -> [t EXCEPT !.day = @ + 1]
      [] t.day >= DaysPerMonth[t.month] /\ t.month < 12 -> [t EXCEPT !.day = 1, !.month = @ + 1]
      [] OTHER -> [t EXCEPT !.day = 1, !.month = 1, !.year = (@ + 1) % 100]

NextDay(t) ==
    CASE t.day < MonthDays(t.year, t.month) -> [t EXCEPT !.day = @ + 1]
      [] t.day >= MonthDays(t.year, t.month) /\ t.month < 12 -> [t EXCEPT !.day = 1, !.month = @ + 1]
      [] OTHER -> [t EXCEPT !.day = 1, !.month = 1, !.year = (@ + 1) % 100]

\* One turn of step()'s loop.
Second(t) ==
    CASE t.sec < 59 -> [t EXCEPT !.sec = @ + 1]
      [] t.sec >= 59 /\ t.min < 59 -> [t EXCEPT !.sec = 0, !.min = @ + 1]
      [] t.sec >= 59 /\ t.min >= 59 /\ t.hour < 23 -> [t EXCEPT !.sec = 0, !.min = 0, !.hour = @ + 1]
      [] OTHER -> NextDay([t EXCEPT !.sec = 0, !.min = 0, !.hour = 0, !.dow = IF @ >= 7 THEN 1 ELSE @ + 1])

RtcStep(n) ==
    LET all == rtc.clocks + n
        t == [rtc EXCEPT !.clocks = all % ClockHz]
        turns == IF rtc.run THEN all \div ClockHz ELSE 0
        sec == rtrue.sec + turns
        over == sec \div 86400
    IN  /\ rtrue.n + n <= MaxClocks
        /\ rtc' = CASE ~rtc.run -> rtc [] rtc.run /\ turns = 0 -> t [] rtc.run /\ turns = 1 -> Second(t) [] OTHER -> Second(Second(t))
        /\ rtrue' = [day |-> (rtrue.day + over) % 36525, sec |-> sec % 86400, dow |-> ((rtrue.dow - 1 + over) % 7) + 1,
                     n |-> rtrue.n + n]

Bcd(v) == 16 * (v \div 10) + (v % 10)
Unbcd(v) == 10 * (v \div 16) + (v % 16)

\* Registers 0, 1, 2, 4 and 6 of read(); the hour with or without the 12-hour bits.
Hour12(h) == Bcd(IF h % 12 = 0 THEN 12 ELSE h % 12) + (IF h >= 12 THEN 32 ELSE 0) + 64
RtcRegister(t, r) ==
    CASE r = 0 -> Bcd(t.sec) + (IF t.run THEN 128 ELSE 0)
      [] r = 1 -> Bcd(t.min)
      [] r = 2 -> IF t.h24 THEN Bcd(t.hour) ELSE Hour12(t.hour)
      [] r = 4 -> Bcd(t.day)
      [] r = 6 -> Bcd(t.year)

\* write() of the same registers.
RtcStore(t, r, v) ==
    CASE r = 0 -> [t EXCEPT !.run = v >= 128, !.sec = Unbcd(v % 128)]
      [] r = 1 -> [t EXCEPT !.min = Unbcd(v)]
      [] r = 2 -> IF (v \div 64) % 2 = 0 THEN [t EXCEPT !.h24 = TRUE, !.hour = Unbcd(v % 64)]
                  ELSE [t EXCEPT !.h24 = FALSE, !.hour = (Unbcd(v % 32) % 12) + (IF (v \div 32) % 2 = 1 THEN 12 ELSE 0)]
      [] r = 4 -> [t EXCEPT !.day = Unbcd(v)]
      [] r = 6 -> [t EXCEPT !.year = Unbcd(v)]

\* A program writes back what it read, goes to the other form of the hour, or stops and starts the clock.
RtcWriteBack(r) == rtc' = RtcStore(rtc, r, RtcRegister(rtc, r)) /\ UNCHANGED rtrue
RtcOtherForm == rtc' = RtcStore(rtc, 2, IF rtc.h24 THEN Hour12(rtc.hour) ELSE Bcd(rtc.hour)) /\ UNCHANGED rtrue
RtcRun(on) == rtc' = RtcStore(rtc, 0, Bcd(rtc.sec) + (IF on THEN 128 ELSE 0)) /\ UNCHANGED rtrue

RtcNext ==
    \/ \E n \in 1 .. 2 * ClockHz : RtcStep(n)
    \/ \E r \in {0, 1, 2, 4, 6} : RtcWriteBack(r)
    \/ RtcOtherForm
    \/ \E on \in BOOLEAN : RtcRun(on)

(***************************************************************************)
(* The clock keeps time: over midnights, month ends, leap days and the     *)
(* end of the century it shows the day and the second that the clocks say, *)
(* whatever form the hour has, and writing back what was read changes      *)
(* nothing (Rtc::step, read, write).                                       *)
(***************************************************************************)
RtcKeepsTime ==
    DayNumber(rtc) = rtrue.day /\ SecondNumber(rtc) = rtrue.sec /\ rtc.dow = rtrue.dow
-----------------------------------------------------------------------------
(***************************************************************************)
(* Via1PortA: SNES pads behind a latch and a clock, with PadBits buttons   *)
(* and IdBits bits that are 1.  Shift registers are sets of the bits that  *)
(* are 1.                                                                  *)
(***************************************************************************)
CONSTANTS PadBits, IdBits, NumPads

ASSUME PadSizes == PadBits \in Nat \ {0} /\ IdBits \in Nat /\ NumPads \in Nat \ {0}

VARIABLES pads,     \* m_padOn, m_padPressed, m_padShift, m_nesData, m_clk
          padseen   \* history: the buttons and the pads when the register was loaded and moved last, clocks since (-1: not loaded)

padVars == <<pads, padseen>>

Slots == 0 .. NumPads - 1
PadInit ==
    /\ pads = [on |-> [s \in Slots |-> FALSE], pressed |-> [s \in Slots |-> {}], shift |-> [s \in Slots |-> {}],
               line |-> [s \in Slots |-> FALSE], clk |-> FALSE]
    /\ padseen = [pressed |-> [s \in Slots |-> {}], on |-> [s \in Slots |-> FALSE], n |-> -1]

\* shiftPads()
ShiftPads(p) == [p EXCEPT !.line = [s \in Slots |-> ~p.on[s] \/ 0 \in p.shift[s]]]

\* Faulty: the register shifts on both edges.
PadUpdateBoth(p, latch, clk) ==
    IF latch THEN [ShiftPads([p EXCEPT !.shift = [s \in Slots |-> (0 .. PadBits + IdBits - 1) \ p.pressed[s]]]) EXCEPT !.clk = clk]
    ELSE [ShiftPads([p EXCEPT !.shift = [s \in Slots |-> {b - 1 : b \in p.shift[s] \ {0}}]]) EXCEPT !.clk = clk]

\* update(), the part about the pads.
PadUpdate(p, latch, clk) ==
    CASE latch ->
            [ShiftPads([p EXCEPT !.shift = [s \in Slots |-> (0 .. PadBits + IdBits - 1) \ p.pressed[s]]]) EXCEPT !.clk = clk]
      [] ~latch /\ clk /\ ~p.clk ->
            [ShiftPads([p EXCEPT !.shift = [s \in Slots |-> {b - 1 : b \in p.shift[s] \ {0}}]]) EXCEPT !.clk = clk]
      [] OTHER -> [p EXCEPT !.clk = clk]

\* writePort() and setDdr(): the KERNAL reads at most a few bits after the last one.
PadPort(latch, clk) ==
    /\ padseen.n <= PadBits + IdBits
    /\ pads' = PadUpdate(pads, latch, clk)
    /\ padseen' = CASE latch -> [pressed |-> pads.pressed, on |-> pads.on, n |-> 0]
                    [] ~latch /\ clk /\ ~pads.clk /\ padseen.n >= 0 -> [padseen EXCEPT !.on = pads.on, !.n = @ + 1]
                    [] OTHER -> padseen

\* setPadButtons(), setPadConnected(), reset().
PadButtons(s, b) == pads' = [pads EXCEPT !.on[s] = TRUE, !.pressed[s] = b] /\ UNCHANGED padseen
PadConnect(s, on) ==
    pads' = [pads EXCEPT !.on[s] = on, !.pressed[s] = IF on THEN @ ELSE {}] /\ UNCHANGED padseen
PadReset ==
    /\ pads' = [pads EXCEPT !.line = [s \in Slots |-> FALSE], !.clk = FALSE]
    /\ padseen' = [padseen EXCEPT !.n = -1]

PadNext ==
    \/ \E latch, clk \in BOOLEAN : PadPort(latch, clk)
    \/ \E s \in Slots : (\E b \in SUBSET (0 .. PadBits - 1) : PadButtons(s, b)) \/ (\E on \in BOOLEAN : PadConnect(s, on))
    \/ PadReset

(***************************************************************************)
(* The n-th bit the program reads is button n as it was when the latch     *)
(* loaded it, 0 for pressed, whatever is pressed, released, plugged or     *)
(* unplugged while it shifts; then the ID's ones, then zeros; a slot       *)
(* without a pad reads 1 (update, shiftPads, setPadButtons).               *)
(***************************************************************************)
PadBitsRight ==
    padseen.n >= 0 =>
        \A s \in Slots : pads.line[s] = (\/ ~padseen.on[s]
                                         \/ padseen.n < PadBits /\ padseen.n \notin padseen.pressed[s]
                                         \/ padseen.n \in PadBits .. PadBits + IdBits - 1)
=============================================================================
