------------------------------- MODULE Disk2 --------------------------------
(***************************************************************************)
(* The Disk II card of the Apple II (plugins/machines/apple2/main/         *)
(* disk2.cpp): the stepper with its delayed effect, the motor that runs    *)
(* on, two drives, and the track buffer that goes back to the image when   *)
(* the head moves, the drive stops or the disk is taken out.  Cycle counts *)
(* are abstracted to the thresholds the code compares them with.           *)
(***************************************************************************)
EXTENDS Integers, Sequences, FiniteSets

CONSTANTS D2Tracks,     \* tracks of a disk
          D2Phases,     \* half tracks the head can reach (80)
          D2Nibbles,    \* nibbles of a track
          D2Loaded,     \* bound: the drives with a disk at the start
          D2Changed,    \* bound: the drives whose disk is changed
          D2MaxWrites   \* bound: nibbles written

ASSUME D2Assumption ==
    /\ {D2Tracks, D2Phases, D2Nibbles, D2MaxWrites} \subseteq Nat \ {0}
    /\ D2Changed \subseteq {0, 1}

VARIABLES d2,       \* the card
          drive,    \* m_drive, drives 0 and 1
          wanted    \* history: what a program has recorded on each drive's disk

d2Vars == <<d2, drive, wanted>>

D2Units == {0, 1}
Blank == [t \in 0 .. D2Tracks - 1 |-> [i \in 0 .. D2Nibbles - 1 |-> 0]]
NoDisk == [t \in {} |-> 0]
NoTrack == [i \in 0 .. D2Nibbles - 1 |-> 0]
NoStep == -1

NewDrive(disk) ==
    [phase |-> 0, spinning |-> FALSE, image |-> disk, protect |-> FALSE,
     track |-> NoTrack, byte |-> 0, loaded |-> FALSE, dirty |-> FALSE]

D2Init ==
    /\ d2 = [curr |-> 0, motor |-> FALSE, magnets |-> {}, write |-> FALSE,
             latch |-> 0, deferred |-> NoStep, writes |-> 0]
    /\ drive = [u \in D2Units |-> NewDrive(IF u \in D2Loaded THEN Blank ELSE NoDisk)]
    /\ wanted = [u \in D2Units |-> Blank]

TrackOf(dr) == dr.phase \div 2

\* flush(); writeTrack() ignores a track the image does not have.
Flush(dr) ==
    [dr EXCEPT !.dirty = FALSE,
               !.image = IF dr.dirty /\ @ # NoDisk /\ TrackOf(dr) < D2Tracks /\ ~dr.protect
                         THEN [@ EXCEPT ![TrackOf(dr)] = dr.track] ELSE @]

\* trackData = false: the buffer is not looked at until it is read again.
Unload(dr) == [dr EXCEPT !.loaded = FALSE, !.track = NoTrack, !.byte = 0]

ReadTrack(dr) ==
    IF dr.image = NoDisk \/ TrackOf(dr) >= D2Tracks THEN Unload(dr)
    ELSE [dr EXCEPT !.track = dr.image[TrackOf(dr)], !.byte = 0, !.loaded = TRUE]

\* Faulty: the head moves before the buffer is written back.
StepperDeferredFirst(c, dr) ==
    LET pull(n) == IF (dr.phase + n) % 4 \in c.magnets THEN 1 ELSE 0
        to == dr.phase + pull(1) - pull(3)
        np == IF to < 0 THEN 0 ELSE IF to >= D2Phases THEN D2Phases - 1 ELSE to
    IN  IF np = dr.phase THEN dr ELSE Unload(Flush([dr EXCEPT !.phase = np]))

\* stepperDeferred(): toward an adjacent magnet that is on, unless both are.
StepperDeferred(c, dr) ==
    LET pull(n) == IF (dr.phase + n) % 4 \in c.magnets THEN 1 ELSE 0
        to == dr.phase + pull(1) - pull(3)
        np == IF to < 0 THEN 0 ELSE IF to >= D2Phases THEN D2Phases - 1 ELSE to
    IN  IF np = dr.phase THEN dr ELSE [Unload(Flush(dr)) EXCEPT !.phase = np]

\* checkSpinning()
Spin(c, drs) == IF c.motor THEN [drs EXCEPT ![c.curr] = [@ EXCEPT !.spinning = TRUE]] ELSE drs

\* update() after each instruction: a motor that is off may have run down, and
\* the track of a drive at rest goes back to its image.
Settle(c, drs, down) ==
    [u \in D2Units |->
        LET dr == [drs[u] EXCEPT !.spinning = @ /\ ~(~c.motor /\ u \in down)]
        IN  IF ~c.motor /\ ~dr.spinning THEN Flush(dr) ELSE dr]

Become(c, drs) ==
    /\ d2' = c
    /\ \E down \in SUBSET {u \in D2Units : drs[u].spinning /\ ~c.motor} : drive' = Settle(c, drs, down)
-----------------------------------------------------------------------------
\* syncStepper(): ten cycles after the last magnet changed, on the drive that
\* is selected by then.
StepTakesEffect ==
    /\ d2.deferred # NoStep
    /\ Become([d2 EXCEPT !.deferred = NoStep], [drive EXCEPT ![d2.curr] = StepperDeferred(d2, @)])
    /\ UNCHANGED wanted

\* controlStepper(): magnet m on or off (bound: a magnet next to the head is
\* turned on, two are on at a time); two neighbours off within ten cycles do
\* not move the head.
Distance(a, b) == IF a < b THEN b - a ELSE a - b

ControlStepper(m, on) ==
    LET c == [d2 EXCEPT !.magnets = IF on THEN @ \cup {m} ELSE @ \ {m}]
        a == 2 * m + (IF on THEN 1 ELSE 0)
    IN  /\ Cardinality(c.magnets) <= 2 /\ c.magnets # d2.magnets
        /\ on => (m - drive[d2.curr].phase) % 4 \in {1, 3}
        /\ IF ~d2.motor /\ ~drive[d2.curr].spinning THEN Become(d2, drive)
           ELSE IF d2.deferred = NoStep THEN Become([c EXCEPT !.deferred = a], drive)
           ELSE IF Distance(d2.deferred, a) \in {2, 6} /\ ~on
                THEN Become([c EXCEPT !.deferred = NoStep], drive)
                ELSE Become([c EXCEPT !.deferred = a], [drive EXCEPT ![c.curr] = StepperDeferred(c, @)])
        /\ UNCHANGED wanted

ControlMotor(on) ==
    LET c == [d2 EXCEPT !.motor = on, !.magnets = IF on THEN @ ELSE {}]
    IN  Become(c, Spin(c, drive)) /\ UNCHANGED wanted

\* enable(): the other drive stops turning at once.
Enable(u) ==
    LET c == [d2 EXCEPT !.curr = u]
    IN  Become(c, Spin(c, [drive EXCEPT ![1 - u] = [@ EXCEPT !.spinning = FALSE]])) /\ UNCHANGED wanted

\* loadWriteProtect() at $C08D: load mode, and the switch in the latch.
Sense(dr, latch) == IF ~dr.spinning THEN latch ELSE IF dr.image # NoDisk /\ dr.protect THEN 1 ELSE 0

\* $C08E: read mode.
ReadMode == d2.write /\ Become([d2 EXCEPT !.write = FALSE], drive) /\ UNCHANGED wanted

\* $C08D, then v written to $C08F, as programs do: load mode, which ends at the
\* next $C08C, and write mode.
LoadLatch(v) ==
    LET sensed == Sense(drive[d2.curr], d2.latch)
        c == [d2 EXCEPT !.write = TRUE, !.latch = v]
    IN  /\ \/ Become([d2 EXCEPT !.latch = sensed], drive)   \* the switch only
           \/ Become(c, drive)
        /\ UNCHANGED wanted

Passed(dr, gap) == [dr EXCEPT !.byte = IF dr.spinning THEN (@ + gap) % D2Nibbles ELSE @]
Onward(dr) == [dr EXCEPT !.byte = (@ + 1) % D2Nibbles]

\* What a program that writes here has recorded.
Recorded(u, i, v) ==
    LET t == TrackOf(drive[u])
    IN  wanted' = [wanted EXCEPT ![u] = [@ EXCEPT ![t] = [wanted[u][t] EXCEPT ![i] = v]]]

\* Faulty: the buffer is loaded without being marked for writing back.
PutClean(dr, v) == [Onward([dr EXCEPT !.track = [@ EXCEPT ![dr.byte] = v]]) EXCEPT !.dirty = FALSE]

Put(dr, v) == Onward([dr EXCEPT !.track = [@ EXCEPT ![dr.byte] = v], !.dirty = TRUE])

\* readWrite(): gap nibbles have passed unread; tight, the same one is read
\* again before it is complete, so the place does not move.
ReadWrite(gap, tight) ==
    LET c == d2
        dr == IF ~drive[c.curr].loaded THEN ReadTrack(drive[c.curr]) ELSE drive[c.curr]
        at == Passed(dr, gap)
        With(x) == [drive EXCEPT ![c.curr] = x]
    IN  \/ /\ ~dr.loaded /\ UNCHANGED wanted
           /\ \E noise \in {0, 1} : Become([c EXCEPT !.latch = noise], With(dr))
        \/ /\ dr.loaded /\ ~c.write /\ UNCHANGED wanted
           /\ IF ~dr.spinning THEN Become(c, With(at))
              ELSE IF tight
                   THEN \E part \in {0, 1} : Become([c EXCEPT !.latch = part], With(at))
                   ELSE Become([c EXCEPT !.latch = at.track[at.byte]], With(Onward(at)))
        \/ /\ dr.loaded /\ c.write /\ dr.protect /\ UNCHANGED wanted
           /\ Become(c, With(Onward(at)))
        \/ /\ dr.loaded /\ c.write /\ ~dr.protect /\ ~dr.spinning /\ UNCHANGED wanted
           /\ Become(c, With(at))
        \/ /\ dr.loaded /\ c.write /\ ~dr.protect /\ dr.spinning
           /\ d2.writes < D2MaxWrites
           /\ Become([c EXCEPT !.writes = @ + 1], With(Put(at, d2.latch)))
           /\ Recorded(c.curr, at.byte, d2.latch)

\* mountDisk(): the file is read before ejectDisk() writes the old track back,
\* so a disk put in again shows what its file held then; the disk may also be a
\* blank one, or protected.  ejectDisk() alone: none.  The one taken out keeps
\* what was recorded (the history starts again from what the new one holds).
SwapDisk(u, disk, protect) ==
    /\ drive' = [drive EXCEPT ![u] = [Unload(Flush(@)) EXCEPT !.image = disk, !.protect = protect]]
    /\ wanted' = [wanted EXCEPT ![u] = IF disk = NoDisk THEN Blank ELSE disk]
    /\ UNCHANGED d2

\* RESET turns the switches off; a power cycle also stops the drives.
D2Reset(power) ==
    LET c == [d2 EXCEPT !.curr = 0, !.motor = FALSE, !.magnets = {}, !.write = FALSE,
                        !.deferred = NoStep]
        drs == IF power THEN [u \in D2Units |-> [Flush(drive[u]) EXCEPT !.spinning = FALSE]] ELSE drive
    IN  Become(c, drs) /\ UNCHANGED wanted

D2Next ==
    \/ StepTakesEffect
    \/ \E m \in 0 .. 3, on \in BOOLEAN : ControlStepper(m, on)
    \/ \E on \in BOOLEAN : ControlMotor(on)
    \/ \E u \in D2Units : Enable(u)
    \/ ReadMode
    \/ LoadLatch(1)
    \/ \E gap \in 0 .. 1, tight \in BOOLEAN : ReadWrite(gap, tight)
    \/ \E u \in D2Changed : \E p \in BOOLEAN, disk \in {Blank, drive[u].image} \ {NoDisk} : SwapDisk(u, disk, p)
    \/ \E u \in D2Changed : SwapDisk(u, NoDisk, FALSE)
    \/ \E p \in BOOLEAN : D2Reset(p)

D2Spec == D2Init /\ [][D2Next]_d2Vars

\* What is on drive u's disk, or will be once its buffer is written back.
OnDisk(u) == Flush(drive[u]).image

(***************************************************************************)
(* Nothing a program records is lost or lands on another track or disk,    *)
(* however it steps, switches drives, stops the motor or swaps disks       *)
(* before the buffer goes back to the image (flush and its callers).       *)
(***************************************************************************)
D2NothingLost == \A u \in D2Units : drive[u].image # NoDisk => OnDisk(u) = wanted[u]

(***************************************************************************)
(* A buffer marked for writing back is that of the track under the head,   *)
(* and the motor's running on is what keeps it: in a drive at rest the     *)
(* image is up to date (update, stepperDeferred, ejectDisk).               *)
(***************************************************************************)
D2RestIsWritten ==
    \A u \in D2Units :
        /\ drive[u].dirty => drive[u].loaded /\ TrackOf(drive[u]) < D2Tracks
        /\ drive[u].dirty => d2.motor \/ drive[u].spinning

Disk2Right == D2NothingLost /\ D2RestIsWritten
=============================================================================
