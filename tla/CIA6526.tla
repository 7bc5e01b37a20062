------------------------------- MODULE CIA6526 -------------------------------
(***************************************************************************)
(* The 6526 CIA (plugins/devices/cia6526/main/cia6526.cpp): the interrupt  *)
(* control register, timers A and B with the cascade, the serial data      *)
(* register and the FLAG input.  The ports only pass values to the port    *)
(* devices and are left out; the time-of-day clock is the second part, and *)
(* in the first its alarm is a match that may fall into any tick.          *)
(***************************************************************************)
EXTENDS Integers

CONSTANTS
  CiaTimers,    \* the timers the program uses
  Events,    \* the other interrupt sources in use
  CiaByteMod,   \* number of values of a timer byte (256 in the code)
  CiaMaxTick    \* bound: the most cycles one tick() passes

ASSUME CiaAssumption ==
  /\ CiaTimers \subseteq {"TA", "TB"}
  /\ Events \subseteq {"TOD", "SP", "FLG"}
  /\ CiaByteMod \in Nat /\ CiaByteMod > 1
  /\ CiaMaxTick \in Nat

CiaByte == 0 .. CiaByteMod - 1
Top == CiaByteMod * CiaByteMod - 1
CiaWord == 0 .. Top

\* The ICR bits, by name.
CiaFlags == CiaTimers \cup Events

VARIABLES
  pending, mask, ciaLine,     \* m_icrPending, m_icrMask, the level of m_irqLine
  ciaLatch, ciaCounter,          \* m_taLatch, m_taCounter, m_tbLatch, m_tbCounter
  running, oneshot,        \* CR_START and m_taRunning / m_tbRunning, CR_ONESHOT
  cascade,                 \* CRB_INMODE_TA: timer B counts timer A
  serialOut,               \* CRA bit 6: the serial port is an output
  flagLevel,               \* the level of the FLAG input
  age,                     \* history: cycles since the counter was loaded from
                           \* the latch, modulo the period; -1 once the latch
                           \* or the way of counting changed
  ciaFired                    \* history: the timer expired in one-shot mode and
                           \* its control register was not written since

ciaTimerVars == << ciaLatch, ciaCounter, running, oneshot, cascade, age, ciaFired >>
ciaVars == << pending, mask, ciaLine, ciaLatch, ciaCounter, running, oneshot, cascade,
           serialOut, flagLevel, age, ciaFired >>

CiaInit ==
  /\ pending = {} /\ mask = {} /\ ciaLine = FALSE
  /\ ciaLatch = [t \in CiaTimers |-> Top] /\ ciaCounter = [t \in CiaTimers |-> Top]
  /\ running = [t \in CiaTimers |-> FALSE] /\ oneshot = [t \in CiaTimers |-> FALSE]
  /\ cascade = FALSE /\ serialOut = FALSE /\ flagLevel = TRUE
  /\ age = [t \in CiaTimers |-> 0] /\ ciaFired = [t \in CiaTimers |-> FALSE]

\* updateIrq(), after pending or mask changed.
CiaUpdateIrq == ciaLine' = (pending' \cap mask' # {})

\* reset(), which also releases the IRQ line.  The FLAG input is not reset.
CiaReset ==
  /\ pending' = {} /\ mask' = {} /\ ciaLine' = FALSE
  /\ ciaLatch' = [t \in CiaTimers |-> Top] /\ ciaCounter' = [t \in CiaTimers |-> Top]
  /\ running' = [t \in CiaTimers |-> FALSE] /\ oneshot' = [t \in CiaTimers |-> FALSE]
  /\ cascade' = FALSE /\ serialOut' = FALSE
  /\ age' = [t \in CiaTimers |-> 0] /\ ciaFired' = [t \in CiaTimers |-> FALSE]
  /\ UNCHANGED flagLevel
-----------------------------------------------------------------------------
(***************************************************************************)
(* Registers.                                                              *)
(***************************************************************************)
\* Reading ICR clears every pending bit.
ReadIcr ==
  /\ pending' = {}
  /\ UNCHANGED mask
  /\ CiaUpdateIrq
  /\ UNCHANGED << ciaTimerVars, serialOut, flagLevel >>

\* Faulty: the mask is written without updateIrq().
WriteIcrNoUpdate(set, F) ==
  /\ mask' = IF set THEN mask \cup F ELSE mask \ F
  /\ UNCHANGED << pending, ciaLine, ciaTimerVars, serialOut, flagLevel >>

\* Writing ICR sets or clears the chosen mask bits.
WriteIcr(set, F) ==
  /\ mask' = IF set THEN mask \cup F ELSE mask \ F
  /\ UNCHANGED pending
  /\ CiaUpdateIrq
  /\ UNCHANGED << ciaTimerVars, serialOut, flagLevel >>

\* The history of a counter that has just been loaded with value v.
LoadedAge(v) == IF v = 0 THEN -1 ELSE 0

\* TALO, TBLO: the low latch byte.
CiaWriteLatchLow(t, b) ==
  /\ ciaLatch' = [ciaLatch EXCEPT ![t] = (@ \div CiaByteMod) * CiaByteMod + b]
  /\ age' = [age EXCEPT ![t] = IF ciaLatch'[t] = ciaLatch[t] THEN @ ELSE -1]
  /\ UNCHANGED << pending, mask, ciaLine, ciaCounter, running, oneshot, cascade,
                  serialOut, flagLevel, ciaFired >>

\* TAHI, TBHI: the high latch byte; a stopped timer is loaded, and the timer's
\* pending bit is cleared.
CiaWriteLatchHigh(t, b) ==
  /\ ciaLatch' = [ciaLatch EXCEPT ![t] = b * CiaByteMod + (@ % CiaByteMod)]
  /\ ciaCounter' = [ciaCounter EXCEPT ![t] = IF running[t] THEN @ ELSE ciaLatch'[t]]
  /\ age' = [age EXCEPT ![t] = IF ~running[t] THEN LoadedAge(ciaLatch'[t])
                               ELSE IF ciaLatch'[t] = ciaLatch[t] THEN @ ELSE -1]
  /\ pending' = pending \ {t}
  /\ UNCHANGED mask
  /\ CiaUpdateIrq
  /\ UNCHANGED << running, oneshot, cascade, serialOut, flagLevel, ciaFired >>

\* CRA or CRB: start or stop, choose the mode, perhaps load the counter.
CiaWriteControl(t, start, once, load) ==
  /\ running' = [running EXCEPT ![t] = start]
  /\ oneshot' = [oneshot EXCEPT ![t] = once]
  /\ ciaCounter' = [ciaCounter EXCEPT ![t] = IF load THEN ciaLatch[t] ELSE @]
  /\ age' = [age EXCEPT ![t] = IF load THEN LoadedAge(ciaLatch[t]) ELSE @]
  /\ ciaFired' = [ciaFired EXCEPT ![t] = FALSE]
  /\ UNCHANGED << pending, mask, ciaLine, ciaLatch, flagLevel >>

WriteCra(start, once, load, out) ==
  /\ "TA" \in CiaTimers /\ (out => "SP" \in Events)
  /\ CiaWriteControl("TA", start, once, load)
  /\ serialOut' = out
  /\ UNCHANGED cascade

WriteCrb(start, once, load, chained) ==
  /\ "TB" \in CiaTimers
  /\ CiaWriteControl("TB", start, once, load)
  /\ cascade' = chained
  /\ UNCHANGED serialOut

\* Writing SDR in output mode "completes" the shift at once.  updateIrq() is
\* not called here.
WriteSdr ==
  /\ "SP" \in Events /\ serialOut
  /\ pending' = pending \cup {"SP"}
  /\ UNCHANGED << mask, ciaLine, ciaTimerVars, serialOut, flagLevel >>
-----------------------------------------------------------------------------
(***************************************************************************)
(* Inputs from other devices.                                              *)
(***************************************************************************)
\* receiveSerialByte(): ignored in output mode.
ReceiveSerialByte ==
  /\ "SP" \in Events /\ ~serialOut
  /\ pending' = pending \cup {"SP"}
  /\ UNCHANGED mask
  /\ CiaUpdateIrq
  /\ UNCHANGED << ciaTimerVars, serialOut, flagLevel >>

\* The FLAG line: flagTrigger() on the falling edge.
SetFlag(level) ==
  /\ "FLG" \in Events
  /\ flagLevel' = level
  /\ IF flagLevel /\ ~level
     THEN pending' = pending \cup {"FLG"} /\ UNCHANGED mask /\ CiaUpdateIrq
     ELSE UNCHANGED << pending, mask, ciaLine >>
  /\ UNCHANGED << ciaTimerVars, serialOut >>
-----------------------------------------------------------------------------
(***************************************************************************)
(* tick(cycles): timer A, timer B, then the clock.                         *)
(***************************************************************************)
\* Faulty: the underflow cycle is counted twice.
ReloadShort(l) == IF l < 2 THEN Top ELSE l - 1

\* What an underflow reloads the counter with.
Reload(l) == IF l = 0 THEN Top ELSE l

\* The loop shared by tickTimerA and tickTimerB: the counter after n cycles
\* and whether it underflowed; After[e] is the counter e cycles after a reload.
Count(t, n) ==
  LET c == ciaCounter[t]
      After[e \in 0..n] ==
        LET l == Reload(ciaLatch[t]) IN IF e < l THEN l - e ELSE After[e - l]
  IN  IF n = 0 THEN [counter |-> c, hit |-> FALSE]
      ELSE IF n < c THEN [counter |-> c - n, hit |-> FALSE]
      ELSE IF oneshot[t] THEN [counter |-> 0, hit |-> TRUE]
      ELSE [counter |-> After[n - c], hit |-> TRUE]

\* Faulty: a one-shot timer goes on after it expired.
StopsNever(t, hit) == FALSE

\* A one-shot timer that underflows clears its START bit.
Stops(t, hit) == hit /\ oneshot[t]

\* The cycles timer t counts in a tick of n.  Timer B in cascade mode counts
\* one when timer A's bit is pending after tickTimerA, whether it was set in
\* this tick or before.
Cycles(t, n, hitA) ==
  IF ~running[t] THEN 0
  ELSE IF t = "TB" /\ cascade THEN IF hitA \/ "TA" \in pending THEN 1 ELSE 0
  ELSE n

CiaTick(n, alarm) ==
  LET hitA == "TA" \in CiaTimers /\ Count("TA", Cycles("TA", n, FALSE)).hit
      r == [t \in CiaTimers |-> Count(t, Cycles(t, n, hitA))]
      events == {t \in CiaTimers : r[t].hit} \cup (IF alarm THEN {"TOD"} ELSE {})
  IN  /\ alarm => "TOD" \in Events
      /\ ciaCounter' = [t \in CiaTimers |-> r[t].counter]
      /\ running' = [t \in CiaTimers |-> running[t] /\ ~Stops(t, r[t].hit)]
      /\ pending' = pending \cup events
      /\ UNCHANGED mask
      /\ IF events = {} THEN UNCHANGED ciaLine ELSE CiaUpdateIrq
      /\ age' = [t \in CiaTimers |->
                   IF ~running[t] \/ age[t] = -1 THEN age[t]
                   ELSE IF oneshot[t] \/ (t = "TB" /\ cascade) THEN -1
                   ELSE (age[t] + n) % ciaLatch[t]]
      /\ ciaFired' = [t \in CiaTimers |-> ciaFired[t] \/ (r[t].hit /\ oneshot[t])]
      /\ UNCHANGED << ciaLatch, oneshot, cascade, serialOut, flagLevel >>

CiaNext ==
  \/ CiaReset \/ ReadIcr
  \/ \E set \in BOOLEAN, F \in SUBSET CiaFlags : WriteIcr(set, F)
  \/ \E t \in CiaTimers, b \in CiaByte : CiaWriteLatchLow(t, b) \/ CiaWriteLatchHigh(t, b)
  \/ \E start, once, load, bit \in BOOLEAN :
        WriteCra(start, once, load, bit) \/ WriteCrb(start, once, load, bit)
  \/ WriteSdr \/ ReceiveSerialByte
  \/ \E level \in BOOLEAN : SetFlag(level)
  \/ \E n \in 0..CiaMaxTick, alarm \in BOOLEAN : CiaTick(n, alarm)

CiaSpec == CiaInit /\ [][CiaNext]_ciaVars
-----------------------------------------------------------------------------
(***************************************************************************)
(* The IRQ line is asserted only for an enabled pending bit, and for every *)
(* enabled pending bit but the serial port's, whatever order the program   *)
(* writes the mask, reads ICR and restarts timers in.                      *)
(***************************************************************************)
IrqNotLost ==
  LET on == pending \cap mask
  IN  /\ ciaLine => on # {}
      /\ on \ {"SP"} # {} => ciaLine

(***************************************************************************)
(* A continuous timer does not drift: however the cycles are cut into      *)
(* ticks, with several underflows in one of them too, the counter stands   *)
(* where the cycles counted since it was loaded put it.                    *)
(***************************************************************************)
TimerKeepsTime ==
  \A t \in CiaTimers : age[t] >= 0 => ciaCounter[t] = ciaLatch[t] - age[t]

(***************************************************************************)
(* A one-shot timer interrupts once per start: after it expired its bit is *)
(* not raised again before its control register is written.                *)
(***************************************************************************)
CiaOneShotFiresOnce ==
  [][\A t \in CiaTimers : ciaFired[t] /\ t \notin pending => t \notin pending']_ciaVars
-----------------------------------------------------------------------------
(***************************************************************************)
(* The CIA's time-of-day clock (plugins/devices/cia6526/main/cia6526.cpp): *)
(* four BCD registers that tickTOD counts in tenths of a second, the alarm *)
(* registers behind the same addresses, and the latch that a read of the   *)
(* hours closes and a read of the tenths opens.  The program that reads    *)
(* the time takes hours, minutes, seconds and tenths in this order, with   *)
(* any number of ticks in between.                                         *)
(***************************************************************************)

CONSTANTS TodPeriod,    \* cycles of a tenth of a second (m_clockHz / 10)
          TodValues,    \* what the program writes: register |-> values
          MaxTodTicks   \* bound: tenths counted

ASSUME TodAssumption == TodPeriod \in Nat \ {0} /\ MaxTodTicks \in Nat

VARIABLES
    todClock,    \* m_todHr, m_todMin, m_todSec, m_todTen
    todAlarm,    \* m_alarmHr, ...
    todLatch,    \* m_latchHr, ... while m_todLatched, otherwise the empty record
    todRunning,  \* m_todRunning
    todAccum,    \* m_todAccum
    todToAlarm,  \* CRB_ALARM: writes go to the alarm
    todPending,  \* ICR_TOD in m_icrPending
    todRead,     \* the registers the program has read so far
    \* History variables:
    todAsked,    \* the time when the program read the hours
    todTorn,     \* a register read did not show that time
    todTicks     \* tenths counted

todVars == <<todClock, todAlarm, todLatch, todRunning, todAccum, todToAlarm, todPending,
             todRead, todAsked, todTorn, todTicks>>

TodRegs == {"hr", "min", "sec", "ten"}
TodOpen == [r \in {} |-> 0]
TodReset == [hr |-> 1, min |-> 0, sec |-> 0, ten |-> 0]

TodInit ==
    /\ todClock = TodReset /\ todAlarm = TodReset /\ todLatch = TodOpen
    /\ todRunning = TRUE /\ todAccum = 0 /\ todToAlarm = FALSE /\ todPending = FALSE
    /\ todRead = {} /\ todAsked = TodReset /\ todTorn = FALSE /\ todTicks = 0

\* bcdInc(): the next BCD number, 0 past the largest one.
TodBcdInc(b, largest) ==
    LET lo == IF (b % 16) + 1 > 9 THEN 0 ELSE (b % 16) + 1
        hi == (b \div 16) + (IF lo = 0 THEN 1 ELSE 0)
    IN  IF hi * 10 + lo > largest THEN 0 ELSE hi * 16 + lo

\* Faulty: AM and PM change when the hour goes from 12 to 1.
TodNextHourLate(h) ==
    LET n == TodBcdInc(h % 32, 12)
        flip == h % 32 = 18
    IN  (IF n = 0 THEN 1 ELSE n) + 128 * ((h \div 128 + (IF flip THEN 1 ELSE 0)) % 2)

\* Hours run from 1 to 12; bit 7 changes from 11 to 12.
TodNextHour(h) ==
    LET n == TodBcdInc(h % 32, 12)
        flip == h % 32 = 17
    IN  (IF n = 0 THEN 1 ELSE n) + 128 * ((h \div 128 + (IF flip THEN 1 ELSE 0)) % 2)

\* One tenth of a second.
TodAdvance(c) ==
    LET ten == (c.ten + 1) % 256
        carry == ten > 9
        sec == IF carry THEN TodBcdInc(c.sec, 59) ELSE c.sec
        min == IF carry /\ sec = 0 THEN TodBcdInc(c.min, 59) ELSE c.min
    IN  [ten |-> IF carry THEN 0 ELSE ten, sec |-> sec, min |-> min,
         hr |-> IF carry /\ sec = 0 /\ min = 0 THEN TodNextHour(c.hr) ELSE c.hr]

TodAfter[n \in Nat] == IF n = 0 THEN todClock ELSE TodAdvance(TodAfter[n - 1])

\* tickTOD(cycles): the alarm is compared after every tenth.
TodTick(cycles) ==
    LET n == (todAccum + cycles) \div TodPeriod
    IN  /\ todRunning /\ todTicks + n <= MaxTodTicks
        /\ todAccum' = (todAccum + cycles) % TodPeriod
        /\ todClock' = TodAfter[n]
        /\ todPending' = (todPending \/ \E k \in 1 .. n : TodAfter[k] = todAlarm)
        /\ todTicks' = todTicks + n
        /\ UNCHANGED <<todAlarm, todLatch, todRunning, todToAlarm, todRead, todAsked,
                       todTorn>>

\* A write to one of the registers; hours stop the clock and tenths start it.
TodWrite(r, v) ==
    /\ IF todToAlarm
       THEN todAlarm' = [todAlarm EXCEPT ![r] = v] /\ UNCHANGED <<todClock, todRunning>>
       ELSE /\ todClock' = [todClock EXCEPT ![r] = v]
            /\ todRunning' = (r = "ten" \/ (todRunning /\ r # "hr"))
            /\ UNCHANGED todAlarm
    /\ UNCHANGED <<todLatch, todAccum, todToAlarm, todPending, todRead, todAsked, todTorn,
                   todTicks>>

TodSelect(on) ==
    /\ todToAlarm' = on
    /\ UNCHANGED <<todClock, todAlarm, todLatch, todRunning, todAccum, todPending, todRead,
                   todAsked, todTorn, todTicks>>

\* Faulty: a register comes from the clock although the latch is closed.
TodShownLive(r) == todClock[r]

TodShown(r) == IF todLatch # TodOpen THEN todLatch[r] ELSE todClock[r]

\* The hours: the latch closes on the time of this moment.
TodReadHours ==
    /\ todLatch' = todClock
    /\ todRead' = {"hr"} /\ todAsked' = todClock
    /\ UNCHANGED <<todClock, todAlarm, todRunning, todAccum, todToAlarm, todPending, todTorn,
                   todTicks>>

\* Minutes, seconds and tenths; the tenths open the latch.
TodReadNext(r) ==
    /\ \/ r = "min" /\ todRead = {"hr"}
       \/ r = "sec" /\ todRead = {"hr", "min"}
       \/ r = "ten" /\ todRead = {"hr", "min", "sec"}
    /\ todTorn' = (todTorn \/ TodShown(r) # todAsked[r])
    /\ IF r = "ten"
       THEN todLatch' = TodOpen /\ todRead' = {} /\ todAsked' = TodReset
       ELSE todRead' = todRead \cup {r} /\ UNCHANGED <<todLatch, todAsked>>
    /\ UNCHANGED <<todClock, todAlarm, todRunning, todAccum, todToAlarm, todPending, todTicks>>

\* A read of ICR takes the interrupt.
TodTakeAlarm ==
    /\ todPending
    /\ todPending' = FALSE
    /\ UNCHANGED <<todClock, todAlarm, todLatch, todRunning, todAccum, todToAlarm, todRead,
                   todAsked, todTorn, todTicks>>

TodNext ==
    \/ \E c \in 1 .. TodPeriod + 1 : TodTick(c)
    \/ \E r \in TodRegs : \E v \in TodValues[r] : TodWrite(r, v)
    \/ \E on \in BOOLEAN : TodSelect(on)
    \/ TodReadHours
    \/ \E r \in {"min", "sec", "ten"} : TodReadNext(r)
    \/ TodTakeAlarm

TodSpec == TodInit /\ [][TodNext]_todVars
-----------------------------------------------------------------------------
(***************************************************************************)
(* The four registers a program reads are the time of one moment, the one  *)
(* in which it read the hours, whatever ticks and writes come in between:  *)
(* the latch "prevents tearing on multi-byte reads" (doc/README-6526.md).  *)
(***************************************************************************)
TodNotTorn == ~todTorn

\* A BCD number's value, and a time of day in tenths of a second.
TodDecimal(b) == 10 * (b \div 16) + (b % 16)
TodTenths(c) ==
    LET h == (TodDecimal(c.hr % 32) % 12) + 12 * (c.hr \div 128)
    IN  ((h * 60 + TodDecimal(c.min)) * 60 + TodDecimal(c.sec)) * 10 + c.ten

(***************************************************************************)
(* The clock keeps time: tickTOD moves it by the tenths that have passed,  *)
(* through the ends of minutes and hours, noon and midnight.               *)
(***************************************************************************)
TodKeepsTime ==
    [][todTicks' > todTicks =>
         TodTenths(todClock') = (TodTenths(todClock) + todTicks' - todTicks) % 864000]_todVars

(***************************************************************************)
(* The time-of-day clock: what is read is one moment's time, and every     *)
(* tick moves it by a tenth.                                               *)
(***************************************************************************)
TodRight == []TodNotTorn /\ TodKeepsTime
=============================================================================
