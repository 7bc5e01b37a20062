---------------------------- MODULE Drives_proofs ---------------------------
(***************************************************************************)
(* The disk drives: the Disk II card and the IEEE-488 bus.                 *)
(***************************************************************************)
EXTENDS Disk2, Ieee488Bus, TLAPS
-----------------------------------------------------------------------------
(***************************************************************************)
(* The Disk II card loses nothing a program records, for any number of     *)
(* tracks, half tracks, nibbles and writes, with disks in either drive.    *)
(*                                                                         *)
(* The invariant says of each drive what its buffer stands for: marked for *)
(* writing back, it is the track under the head of a disk that takes it;   *)
(* loaded and not marked, it is that track of the image.                   *)
(***************************************************************************)
Bit == {0, 1}
TrackType == [0 .. D2Nibbles - 1 -> Bit]
Disk == [0 .. D2Tracks - 1 -> TrackType]

DriveType ==
    [phase : 0 .. D2Phases - 1, spinning : BOOLEAN, image : Disk \cup {NoDisk}, protect : BOOLEAN,
     track : TrackType, byte : 0 .. D2Nibbles - 1, loaded : BOOLEAN, dirty : BOOLEAN]

CardType ==
    [curr : D2Units, motor : BOOLEAN, magnets : SUBSET (0 .. 3), write : BOOLEAN, latch : Bit,
     deferred : {NoStep} \cup 0 .. 7, writes : Nat]

\* What drive dr's buffer stands for, w being what was recorded on its disk.
Holds(dr, w) ==
    /\ dr \in DriveType /\ w \in Disk
    /\ dr.loaded => dr.image # NoDisk /\ TrackOf(dr) < D2Tracks
    /\ dr.dirty => dr.loaded /\ ~dr.protect
    /\ dr.loaded /\ ~dr.dirty => dr.track = dr.image[TrackOf(dr)]
    /\ dr.image # NoDisk => Flush(dr).image = w

LEMMA Constants ==
    D2Tracks \in Nat /\ D2Tracks >= 1 /\ D2Phases \in Nat /\ D2Phases >= 1
    /\ D2Nibbles \in Nat /\ D2Nibbles >= 1 /\ 0 \in 0 .. D2Nibbles - 1
<1>1. \A x \in {D2Tracks, D2Phases, D2Nibbles, D2MaxWrites} : x \in Nat \ {0}
  BY D2Assumption
<1> QED BY <1>1

\* No disk is not a disk.
LEMMA NoDiskApart == NoDisk \notin Disk
<1>1. DOMAIN NoDisk = {}
  BY DEF NoDisk
<1>2. \A x \in Disk : 0 \in DOMAIN x
  BY Constants DEF Disk
<1> QED BY <1>1, <1>2

\* The track under the head, and what a flush leaves.
LEMMA TrackIs ==
  ASSUME NEW dr \in DriveType
  PROVE  TrackOf(dr) \in Nat
<1>1. PICK p \in Nat : p = dr.phase
  BY DEF DriveType
<1>2. p \div 2 \in Nat
  OBVIOUS
<1> QED BY <1>1, <1>2 DEF TrackOf

\* The image after a flush.
Image(dr) ==
    IF dr.dirty /\ dr.image # NoDisk /\ TrackOf(dr) < D2Tracks /\ ~dr.protect
    THEN [dr.image EXCEPT ![TrackOf(dr)] = dr.track] ELSE dr.image

LEMMA FlushIs ==
  ASSUME NEW dr \in DriveType
  PROVE  /\ Flush(dr) = [dr EXCEPT !.dirty = FALSE, !.image = Image(dr)]
         /\ Image(dr) \in Disk \cup {NoDisk}
         /\ dr.image # NoDisk => Image(dr) \in Disk
         /\ Flush(dr) \in DriveType /\ Flush(dr).dirty = FALSE /\ Flush(dr).image = Image(dr)
         /\ Flush(dr).phase = dr.phase /\ Flush(dr).loaded = dr.loaded /\ Flush(dr).protect = dr.protect
         /\ Flush(dr).track = dr.track /\ Flush(dr).spinning = dr.spinning /\ Flush(dr).byte = dr.byte
<1>1. Flush(dr) = [dr EXCEPT !.dirty = FALSE, !.image = Image(dr)]
  BY DEF Flush, Image
<1>2. dr.image # NoDisk => Image(dr) \in Disk
  <2>1. TrackOf(dr) \in Nat /\ D2Tracks \in Nat
    BY TrackIs, Constants
  <2>2. dr.image \in Disk \cup {NoDisk} /\ dr.track \in TrackType
    BY DEF DriveType
  <2>3. CASE dr.image \in Disk
    BY <2>1, <2>2, <2>3 DEF Image, Disk
  <2> QED BY <2>2, <2>3
<1>3. Image(dr) \in Disk \cup {NoDisk}
  BY <1>2 DEF Image
<1> HIDE DEF Image
<1> QED BY <1>1, <1>2, <1>3 DEF DriveType

LEMMA HoldsFlush ==
  ASSUME NEW dr, NEW w, Holds(dr, w)
  PROVE  Holds(Flush(dr), w) /\ Flush(dr).dirty = FALSE
<1>0. dr \in DriveType /\ w \in Disk
  BY DEF Holds
<1>1. PICK f \in DriveType :
         /\ f = Flush(dr) /\ f.dirty = FALSE /\ f.image = Image(dr)
         /\ f.phase = dr.phase /\ f.loaded = dr.loaded /\ f.protect = dr.protect
         /\ f.track = dr.track
  BY <1>0, FlushIs, Zenon
<1>2. TrackOf(f) = TrackOf(dr) /\ TrackOf(dr) \in Nat
  BY <1>0, <1>1, TrackIs DEF TrackOf
<1>3. Flush(f).image = f.image
  BY <1>1, FlushIs, Zenon DEF Image
<1>4. f.image # NoDisk => dr.image # NoDisk
  <2>1. dr.loaded => dr.image # NoDisk
    BY DEF Holds
  <2> QED BY <1>1, <2>1 DEF Image
<1>5. f.image # NoDisk => Flush(f).image = w
  BY <1>1, <1>3, <1>4 DEF Holds
<1>6. ASSUME f.loaded PROVE f.image # NoDisk /\ TrackOf(f) < D2Tracks
  <2>1. dr.loaded /\ dr.image # NoDisk /\ TrackOf(f) < D2Tracks
    BY <1>1, <1>2, <1>6 DEF Holds
  <2>2. Image(dr) \in Disk
    BY <1>0, <2>1, FlushIs, Zenon
  <2> QED BY <1>1, <2>1, <2>2, NoDiskApart
<1>7. ASSUME f.loaded PROVE f.track = f.image[TrackOf(f)]
  <2>1. dr.loaded /\ dr.image # NoDisk /\ TrackOf(dr) \in 0 .. D2Tracks - 1
    BY <1>1, <1>2, <1>7, Constants DEF Holds
  <2>2. dr.image \in Disk
    BY <1>0, <2>1 DEF DriveType
  <2>3. CASE dr.dirty
    <3>1. f.image = [dr.image EXCEPT ![TrackOf(dr)] = dr.track]
      BY <1>1, <2>1, <2>3, Constants DEF Image, Holds
    <3> QED BY <1>1, <1>2, <2>1, <2>2, <3>1 DEF Disk
  <2>4. CASE ~dr.dirty
    BY <1>1, <1>2, <2>1, <2>4 DEF Image, Holds
  <2> QED BY <2>3, <2>4
<1> QED BY <1>0, <1>1, <1>5, <1>6, <1>7 DEF Holds

\* What the head's place, the motor and the load of the buffer do to a drive.
LEMMA HoldsSpin ==
  ASSUME NEW dr, NEW w, Holds(dr, w), NEW b \in BOOLEAN
  PROVE  Holds([dr EXCEPT !.spinning = b], w) /\ [dr EXCEPT !.spinning = b].dirty = dr.dirty
<1>0. dr \in DriveType
  BY DEF Holds
<1>1. PICK f \in DriveType :
         /\ f = [dr EXCEPT !.spinning = b] /\ f.dirty = dr.dirty /\ f.image = dr.image
         /\ f.phase = dr.phase /\ f.loaded = dr.loaded /\ f.protect = dr.protect /\ f.track = dr.track
  <2>1. [dr EXCEPT !.spinning = b] \in DriveType
    BY <1>0 DEF DriveType
  <2> QED BY <1>0, <2>1 DEF DriveType
<1>2. TrackOf(f) = TrackOf(dr)
  BY <1>1 DEF TrackOf
<1>3. Flush(f).image = Flush(dr).image
  <2>1. Flush(f).image = Image(f) /\ Flush(dr).image = Image(dr)
    BY <1>0, FlushIs, Zenon
  <2>2. Image(f) = Image(dr)
    BY <1>1, <1>2 DEF Image
  <2> QED BY <2>1, <2>2
<1> QED BY <1>1, <1>2, <1>3 DEF Holds

LEMMA HoldsByte ==
  ASSUME NEW dr, NEW w, Holds(dr, w), NEW n \in 0 .. D2Nibbles - 1
  PROVE  /\ Holds([dr EXCEPT !.byte = n], w) /\ [dr EXCEPT !.byte = n].loaded = dr.loaded
         /\ [dr EXCEPT !.byte = n].protect = dr.protect /\ [dr EXCEPT !.byte = n].dirty = dr.dirty
         /\ [dr EXCEPT !.byte = n].spinning = dr.spinning /\ [dr EXCEPT !.byte = n].phase = dr.phase
<1>0. dr \in DriveType
  BY DEF Holds
<1>1. PICK f \in DriveType :
         /\ f = [dr EXCEPT !.byte = n] /\ f.dirty = dr.dirty /\ f.image = dr.image
         /\ f.phase = dr.phase /\ f.loaded = dr.loaded /\ f.protect = dr.protect /\ f.track = dr.track
         /\ f.spinning = dr.spinning
  <2>1. [dr EXCEPT !.byte = n] \in DriveType
    BY <1>0 DEF DriveType
  <2> QED BY <1>0, <2>1 DEF DriveType
<1>2. TrackOf(f) = TrackOf(dr)
  BY <1>1 DEF TrackOf
<1>3. Flush(f).image = Flush(dr).image
  <2>1. Flush(f).image = Image(f) /\ Flush(dr).image = Image(dr)
    BY <1>0, FlushIs, Zenon
  <2>2. Image(f) = Image(dr)
    BY <1>1, <1>2 DEF Image
  <2> QED BY <2>1, <2>2
<1> QED BY <1>1, <1>2, <1>3 DEF Holds

\* A buffer that is not marked may be dropped, and the head moved.
LEMMA HoldsUnload ==
  ASSUME NEW dr, NEW w, Holds(dr, w), dr.dirty = FALSE, NEW p \in 0 .. D2Phases - 1
  PROVE  /\ Holds(Unload(dr), w) /\ Unload(dr).dirty = FALSE /\ Unload(dr).loaded = FALSE
         /\ Holds([Unload(dr) EXCEPT !.phase = p], w) /\ [Unload(dr) EXCEPT !.phase = p].dirty = FALSE
<1>0. dr \in DriveType /\ w \in Disk
  BY DEF Holds
<1>1. NoTrack \in TrackType /\ 0 \in 0 .. D2Nibbles - 1
  BY Constants DEF NoTrack, TrackType, Bit
<1>2. PICK f \in DriveType : /\ f = Unload(dr) /\ f.dirty = FALSE /\ f.loaded = FALSE /\ f.image = dr.image
  <2>1. Unload(dr) \in DriveType
    BY <1>0, <1>1 DEF Unload, DriveType
  <2> QED BY <1>0, <2>1 DEF Unload, DriveType
<1>3. PICK g \in DriveType :
         g = [f EXCEPT !.phase = p] /\ g.dirty = FALSE /\ g.loaded = FALSE /\ g.image = dr.image
  <2>1. [f EXCEPT !.phase = p] \in DriveType
    BY DEF DriveType
  <2> QED BY <1>2, <2>1 DEF DriveType
<1>4. Flush(f).image = dr.image /\ Flush(g).image = dr.image /\ Flush(dr).image = dr.image
  BY <1>0, <1>2, <1>3, FlushIs, Zenon DEF Image
<1>5. Holds(f, w) /\ Holds(g, w)
  BY <1>0, <1>2, <1>3, <1>4 DEF Holds
<1> QED BY <1>2, <1>3, <1>5

\* readTrack on an empty buffer.
LEMMA HoldsRead ==
  ASSUME NEW dr, NEW w, Holds(dr, w), ~dr.loaded
  PROVE  /\ Holds(ReadTrack(dr), w) /\ ReadTrack(dr).dirty = FALSE
         /\ ReadTrack(dr).phase = dr.phase
<1>0. dr \in DriveType /\ w \in Disk /\ dr.dirty = FALSE /\ dr.phase \in 0 .. D2Phases - 1
  <2>1. dr \in DriveType /\ w \in Disk /\ ~dr.dirty
    BY DEF Holds
  <2> QED BY <2>1 DEF DriveType
<1>1. CASE dr.image = NoDisk \/ TrackOf(dr) >= D2Tracks
  <2>1. ReadTrack(dr) = Unload(dr)
    BY <1>1 DEF ReadTrack
  <2>2. Unload(dr).phase = dr.phase
    BY <1>0 DEF Unload, DriveType
  <2> QED BY <1>0, <2>1, <2>2, HoldsUnload
<1>2. CASE ~(dr.image = NoDisk \/ TrackOf(dr) >= D2Tracks)
  <2>0. dr.image \in Disk /\ TrackOf(dr) \in 0 .. D2Tracks - 1
    <3>1. dr.image \in Disk \cup {NoDisk}
      BY <1>0 DEF DriveType
    <3> QED BY <1>0, <1>2, <3>1, TrackIs, Constants
  <2>1. PICK t \in TrackType : t = dr.image[TrackOf(dr)]
    BY <2>0 DEF Disk
  <2>2. PICK f \in DriveType :
           /\ f = ReadTrack(dr) /\ f.dirty = FALSE /\ f.loaded = TRUE /\ f.image = dr.image
           /\ f.track = t /\ f.phase = dr.phase
    <3>1. ReadTrack(dr) = [dr EXCEPT !.track = t, !.byte = 0, !.loaded = TRUE]
      BY <1>2, <2>1 DEF ReadTrack
    <3>2. [dr EXCEPT !.track = t, !.byte = 0, !.loaded = TRUE] \in DriveType
      BY <1>0, Constants DEF DriveType
    <3> QED BY <1>0, <3>1, <3>2 DEF DriveType
  <2>3. TrackOf(f) = TrackOf(dr) /\ TrackOf(f) < D2Tracks
    BY <2>0, <2>2, Constants DEF TrackOf
  <2>4. Flush(f).image = dr.image /\ Flush(dr).image = dr.image
    BY <1>0, <2>2, FlushIs, Zenon DEF Image
  <2>5. Holds(f, w)
    BY <1>0, <1>2, <2>1, <2>2, <2>3, <2>4 DEF Holds
  <2> QED BY <2>2, <2>5
<1> QED BY <1>1, <1>2

\* A nibble recorded on the track under the head.
LEMMA HoldsPut ==
  ASSUME NEW dr, NEW w, Holds(dr, w), dr.loaded, ~dr.protect, NEW v \in Bit, NEW i, i = dr.byte,
         NEW k, k = TrackOf(dr)
  PROVE  Holds(Put(dr, v), [w EXCEPT ![k] = [@ EXCEPT ![i] = v]])
<1>0. /\ dr \in DriveType /\ w \in Disk /\ dr.image # NoDisk /\ k < D2Tracks
      /\ i \in 0 .. D2Nibbles - 1 /\ dr.track \in TrackType /\ dr.image \in Disk
  <2>1. dr \in DriveType /\ w \in Disk /\ dr.image # NoDisk /\ k < D2Tracks
    BY DEF Holds
  <2> QED BY <2>1 DEF DriveType
<1>1. k \in 0 .. D2Tracks - 1
  BY <1>0, TrackIs, Constants
<1>2. PICK t \in TrackType : t = [dr.track EXCEPT ![i] = v]
  BY <1>0 DEF TrackType
<1>3. PICK n \in 0 .. D2Nibbles - 1 : n = (i + 1) % D2Nibbles
  BY <1>0, Constants
<1>4. PICK f \in DriveType :
         /\ f = Put(dr, v) /\ f.dirty = TRUE /\ f.loaded = TRUE /\ f.image = dr.image
         /\ f.track = t /\ f.phase = dr.phase /\ f.protect = dr.protect
  <2> DEFINE g == [dr EXCEPT !.track = t, !.dirty = TRUE]
  <2>1. Put(dr, v) = Onward(g)
    BY <1>2 DEF Put
  <2>2. /\ g \in DriveType /\ g.byte = i /\ g.dirty = TRUE /\ g.loaded = TRUE /\ g.image = dr.image
        /\ g.track = t /\ g.phase = dr.phase /\ g.protect = dr.protect
    BY <1>0 DEF DriveType
  <2> HIDE DEF g
  <2>3. Onward(g) = [g EXCEPT !.byte = n]
    BY <1>3, <2>2 DEF Onward
  <2>4. [g EXCEPT !.byte = n] \in DriveType
    BY <2>2 DEF DriveType
  <2> QED BY <2>1, <2>2, <2>3, <2>4 DEF DriveType
<1>5. TrackOf(f) = k
  BY <1>4 DEF TrackOf
<1>6. Flush(f).image = [dr.image EXCEPT ![k] = t]
  <2>1. Flush(f).image = Image(f)
    BY FlushIs, Zenon
  <2>2. Image(f) = [dr.image EXCEPT ![k] = t]
    BY <1>0, <1>4, <1>5 DEF Image
  <2> QED BY <2>1, <2>2
<1>7. w[k] = dr.track /\ \A j \in 0 .. D2Tracks - 1 : j # k => w[j] = dr.image[j]
  <2>1. Flush(dr).image = w
    BY <1>0 DEF Holds
  <2>2. CASE dr.dirty
    <3>1. w = [dr.image EXCEPT ![k] = dr.track]
      BY <1>0, <2>1, <2>2, FlushIs, Zenon DEF Image
    <3> QED BY <1>0, <1>1, <3>1 DEF Disk
  <2>3. CASE ~dr.dirty
    <3>1. w = dr.image /\ dr.track = dr.image[k]
      BY <1>0, <2>1, <2>3, FlushIs, Zenon DEF Image, Holds
    <3> QED BY <3>1
  <2> QED BY <2>2, <2>3
<1>8. [w EXCEPT ![k] = [@ EXCEPT ![i] = v]] = [w EXCEPT ![k] = t]
  BY <1>2, <1>7
<1>9. [w EXCEPT ![k] = t] \in Disk
  BY <1>0 DEF Disk
<1>10. [w EXCEPT ![k] = t] = [dr.image EXCEPT ![k] = t]
  BY <1>0, <1>1, <1>7 DEF Disk
<1> QED BY <1>0, <1>4, <1>5, <1>6, <1>8, <1>9, <1>10 DEF Holds

\* The stepper: the buffer goes back before the head moves.
LEMMA HoldsStepper ==
  ASSUME NEW c, NEW dr, NEW w, Holds(dr, w)
  PROVE  Holds(StepperDeferred(c, dr), w)
<1> DEFINE pull(n) == IF (dr.phase + n) % 4 \in c.magnets THEN 1 ELSE 0
           to == dr.phase + pull(1) - pull(3)
           np == IF to < 0 THEN 0 ELSE IF to >= D2Phases THEN D2Phases - 1 ELSE to
<1>0. dr.phase \in 0 .. D2Phases - 1
  BY DEF Holds, DriveType
<1>1. np \in 0 .. D2Phases - 1
  <2>1. pull(1) \in {0, 1} /\ pull(3) \in {0, 1}
    OBVIOUS
  <2> HIDE DEF pull
  <2>2. to \in Int
    BY <1>0, <2>1
  <2> HIDE DEF to
  <2> QED BY <2>2, Constants
<1>2. StepperDeferred(c, dr) = dr \/ StepperDeferred(c, dr) = [Unload(Flush(dr)) EXCEPT !.phase = np]
  BY DEF StepperDeferred
<1> HIDE DEF np
<1>3. Holds([Unload(Flush(dr)) EXCEPT !.phase = np], w)
  BY <1>1, HoldsFlush, HoldsUnload
<1> QED BY <1>2, <1>3

\* update() at the end of an operation.
AllHold(drs, ws) == drs \in [D2Units -> DriveType] /\ \A u \in D2Units : Holds(drs[u], ws[u])

LEMMA HoldsSettle ==
  ASSUME NEW c \in CardType, NEW drs, NEW ws, AllHold(drs, ws), NEW down
  PROVE  /\ AllHold(Settle(c, drs, down), ws)
         /\ \A u \in D2Units : Settle(c, drs, down)[u].dirty => c.motor \/ Settle(c, drs, down)[u].spinning
<1> DEFINE S == Settle(c, drs, down)
           B(u) == drs[u].spinning /\ ~(~c.motor /\ u \in down)
           x(u) == [drs[u] EXCEPT !.spinning = B(u)]
           y(u) == IF ~c.motor /\ ~x(u).spinning THEN Flush(x(u)) ELSE x(u)
<1>1. S = [u \in D2Units |-> y(u)]
  BY DEF Settle
<1>2. ASSUME NEW u \in D2Units
      PROVE  Holds(y(u), ws[u]) /\ y(u) \in DriveType /\ (y(u).dirty => c.motor \/ y(u).spinning)
  <2>1. Holds(drs[u], ws[u]) /\ B(u) \in BOOLEAN
    BY DEF AllHold
  <2> HIDE DEF B
  <2>2. Holds(x(u), ws[u])
    BY <2>1, HoldsSpin
  <2> HIDE DEF x
  <2>3. Holds(Flush(x(u)), ws[u]) /\ Flush(x(u)).dirty = FALSE
    BY <2>2, HoldsFlush
  <2> QED BY <2>2, <2>3 DEF Holds
<1> HIDE DEF y
<1> QED BY <1>1, <1>2 DEF AllHold

D2Inv ==
    /\ d2 \in CardType
    /\ AllHold(drive, wanted) /\ wanted \in [D2Units -> Disk]
    /\ \A u \in D2Units : drive[u].dirty => d2.motor \/ drive[u].spinning

\* Become, the end of every operation but a change of disks.
LEMMA HoldsBecome ==
  ASSUME NEW c \in CardType, NEW drs, wanted' \in [D2Units -> Disk], AllHold(drs, wanted'), Become(c, drs)
  PROVE  D2Inv'
<1>1. PICK down : drive' = Settle(c, drs, down) /\ d2' = c
  BY DEF Become
<1> QED BY <1>1, HoldsSettle DEF D2Inv

\* One drive replaced by another that holds the same, or what is wanted now.
LEMMA HoldsOne ==
  ASSUME NEW drs, NEW ws, AllHold(drs, ws), NEW u \in D2Units, NEW x, Holds(x, ws[u])
  PROVE  AllHold([drs EXCEPT ![u] = x], ws)
<1>1. x \in DriveType
  BY DEF Holds
<1> QED BY <1>1 DEF AllHold

LEMMA D2Step == D2Inv /\ [D2Next]_d2Vars => D2Inv'
<1> SUFFICES ASSUME D2Inv, [D2Next]_d2Vars PROVE D2Inv'
  OBVIOUS
<1>a. /\ d2 \in CardType /\ AllHold(drive, wanted) /\ wanted \in [D2Units -> Disk]
      /\ d2.curr \in D2Units /\ d2.motor \in BOOLEAN /\ d2.latch \in Bit
  BY DEF D2Inv, CardType
<1>b. \A u \in D2Units : Holds(drive[u], wanted[u])
  BY <1>a DEF AllHold
<1>c. ASSUME UNCHANGED wanted, NEW c \in CardType, NEW drs, AllHold(drs, wanted), Become(c, drs) PROVE D2Inv'
  BY <1>a, <1>c, HoldsBecome
<1>1. CASE StepTakesEffect
  <2> DEFINE c == [d2 EXCEPT !.deferred = NoStep]
             x == StepperDeferred(d2, drive[d2.curr])
  <2>1. UNCHANGED wanted /\ Become(c, [drive EXCEPT ![d2.curr] = x])
    BY <1>1 DEF StepTakesEffect
  <2>2. c \in CardType
    BY <1>a DEF CardType
  <2>3. Holds(x, wanted[d2.curr])
    BY <1>a, <1>b, HoldsStepper
  <2> HIDE DEF c, x
  <2> QED BY <1>a, <1>c, <2>1, <2>2, <2>3, HoldsOne
<1>2. ASSUME NEW m \in 0 .. 3, NEW on \in BOOLEAN, ControlStepper(m, on) PROVE D2Inv'
  <2> DEFINE c == [d2 EXCEPT !.magnets = IF on THEN @ \cup {m} ELSE @ \ {m}]
             a == 2 * m + (IF on THEN 1 ELSE 0)
             x == StepperDeferred(c, drive[c.curr])
  <2>0. UNCHANGED wanted
    BY <1>2 DEF ControlStepper
  <2>1. \/ Become(d2, drive)
        \/ Become([c EXCEPT !.deferred = a], drive)
        \/ Become([c EXCEPT !.deferred = NoStep], drive)
        \/ Become([c EXCEPT !.deferred = a], [drive EXCEPT ![c.curr] = x])
    BY <1>2 DEF ControlStepper
  <2>2. a \in 0 .. 7
    OBVIOUS
  <2>3. c \in CardType /\ c.curr \in D2Units
    <3>1. PICK g \in SUBSET (0 .. 3) : g = IF on THEN d2.magnets \cup {m} ELSE d2.magnets \ {m}
      BY <1>a DEF CardType
    <3>2. c = [d2 EXCEPT !.magnets = g]
      BY <3>1
    <3> HIDE DEF c
    <3>3. [d2 EXCEPT !.magnets = g] \in CardType
      BY <1>a DEF CardType
    <3> QED BY <3>2, <3>3 DEF CardType
  <2> HIDE DEF a, c
  <2>4. [c EXCEPT !.deferred = a] \in CardType /\ [c EXCEPT !.deferred = NoStep] \in CardType
    BY <2>2, <2>3 DEF CardType
  <2>5. AllHold([drive EXCEPT ![c.curr] = x], wanted)
    BY <1>a, <1>b, <2>3, HoldsStepper, HoldsOne
  <2> HIDE DEF x
  <2> QED BY <1>a, <1>c, <2>0, <2>1, <2>4, <2>5
<1>d. ASSUME NEW c \in CardType, NEW drs, AllHold(drs, wanted) PROVE AllHold(Spin(c, drs), wanted)
  <2>1. CASE c.motor
    <3>1. Spin(c, drs) = [drs EXCEPT ![c.curr] = [drs[c.curr] EXCEPT !.spinning = TRUE]] /\ c.curr \in D2Units
      BY <2>1 DEF Spin, CardType
    <3>2. PICK x : x = [drs[c.curr] EXCEPT !.spinning = TRUE] /\ Holds(x, wanted[c.curr])
      BY <1>d, <3>1, HoldsSpin DEF AllHold
    <3>3. AllHold([drs EXCEPT ![c.curr] = x], wanted)
      BY <1>d, <3>1, <3>2, HoldsOne
    <3> QED BY <3>1, <3>2, <3>3
  <2>2. CASE ~c.motor
    BY <1>d, <2>2 DEF Spin
  <2> QED BY <2>1, <2>2
<1>3. ASSUME NEW on \in BOOLEAN, ControlMotor(on) PROVE D2Inv'
  <2>1. PICK c : /\ c = [d2 EXCEPT !.motor = on, !.magnets = IF on THEN @ ELSE {}]
                 /\ Become(c, Spin(c, drive)) /\ UNCHANGED wanted
    BY <1>3 DEF ControlMotor
  <2>2. c \in CardType
    BY <1>a, <2>1 DEF CardType
  <2> QED BY <1>a, <1>c, <1>d, <2>1, <2>2
<1>4. ASSUME NEW u \in D2Units, Enable(u) PROVE D2Inv'
  <2>1. PICK c, drs : /\ c = [d2 EXCEPT !.curr = u] /\ drs = [drive EXCEPT ![1 - u] = [drive[1 - u] EXCEPT !.spinning = FALSE]]
                      /\ Become(c, Spin(c, drs)) /\ UNCHANGED wanted
    BY <1>4 DEF Enable
  <2>2. c \in CardType
    BY <1>a, <2>1 DEF CardType
  <2>3. 1 - u \in D2Units
    BY DEF D2Units
  <2>4. Holds([drive[1 - u] EXCEPT !.spinning = FALSE], wanted[1 - u])
    BY <1>b, <2>3, HoldsSpin
  <2>5. AllHold(drs, wanted)
    BY <1>a, <2>1, <2>3, <2>4, HoldsOne
  <2> QED BY <1>c, <1>d, <2>1, <2>2, <2>5
<1>5. CASE ReadMode
  <2>1. Become([d2 EXCEPT !.write = FALSE], drive) /\ UNCHANGED wanted
    BY <1>5 DEF ReadMode
  <2>2. [d2 EXCEPT !.write = FALSE] \in CardType
    BY <1>a DEF CardType
  <2> QED BY <1>a, <1>c, <2>1, <2>2
<1>6. CASE LoadLatch(1)
  <2>1. PICK s \in Bit : s = Sense(drive[d2.curr], d2.latch)
    BY <1>a DEF Sense, Bit
  <2>2. /\ Become([d2 EXCEPT !.latch = s], drive) \/ Become([d2 EXCEPT !.write = TRUE, !.latch = 1], drive)
        /\ UNCHANGED wanted
    BY <1>6, <2>1 DEF LoadLatch
  <2>3. [d2 EXCEPT !.latch = s] \in CardType /\ [d2 EXCEPT !.write = TRUE, !.latch = 1] \in CardType
    BY <1>a DEF CardType, Bit
  <2> QED BY <1>a, <1>c, <2>2, <2>3
<1>7. ASSUME NEW gap \in 0 .. 1, NEW tight \in BOOLEAN, ReadWrite(gap, tight) PROVE D2Inv'
  <2> DEFINE u == d2.curr
             dr == IF ~drive[u].loaded THEN ReadTrack(drive[u]) ELSE drive[u]
             at == Passed(dr, gap)
             With(x) == [drive EXCEPT ![u] = x]
  <2>1. u \in D2Units
    BY <1>a
  <2>2. Holds(dr, wanted[u]) /\ dr.phase = drive[u].phase
    BY <1>b, <2>1, HoldsRead
  <2>3. \/ /\ ~dr.loaded /\ UNCHANGED wanted
           /\ \E noise \in {0, 1} : Become([d2 EXCEPT !.latch = noise], With(dr))
        \/ /\ dr.loaded /\ ~d2.write /\ UNCHANGED wanted
           /\ IF ~dr.spinning THEN Become(d2, With(at))
              ELSE IF tight
                   THEN \E part \in {0, 1} : Become([d2 EXCEPT !.latch = part], With(at))
                   ELSE Become([d2 EXCEPT !.latch = at.track[at.byte]], With(Onward(at)))
        \/ /\ dr.loaded /\ d2.write /\ dr.protect /\ UNCHANGED wanted
           /\ Become(d2, With(Onward(at)))
        \/ /\ dr.loaded /\ d2.write /\ ~dr.protect /\ ~dr.spinning /\ UNCHANGED wanted
           /\ Become(d2, With(at))
        \/ /\ dr.loaded /\ d2.write /\ ~dr.protect /\ dr.spinning
           /\ d2.writes < D2MaxWrites
           /\ Become([d2 EXCEPT !.writes = @ + 1], With(Put(at, d2.latch)))
           /\ Recorded(u, at.byte, d2.latch)
    BY <1>7 DEF ReadWrite
  <2> HIDE DEF dr
  <2>4. /\ Holds(at, wanted[u]) /\ at.loaded = dr.loaded /\ at.protect = dr.protect /\ at.phase = dr.phase
    <3>1. dr.byte \in 0 .. D2Nibbles - 1 /\ D2Nibbles \in Nat \ {0}
      BY <2>2, Constants DEF Holds, DriveType
    <3>2. PICK n \in 0 .. D2Nibbles - 1 : n = IF dr.spinning THEN (dr.byte + gap) % D2Nibbles ELSE dr.byte
      BY <3>1
    <3>3. at = [dr EXCEPT !.byte = n]
      BY <3>2 DEF Passed
    <3> QED BY <2>2, <3>3, HoldsByte
  <2> HIDE DEF at
  <2>5. at \in DriveType /\ at.byte \in 0 .. D2Nibbles - 1 /\ at.track[at.byte] \in Bit
    BY <2>4 DEF Holds, DriveType, TrackType
  <2>6. Holds(Onward(at), wanted[u])
    <3>1. PICK n \in 0 .. D2Nibbles - 1 : n = (at.byte + 1) % D2Nibbles
      BY <2>5, Constants
    <3>2. Onward(at) = [at EXCEPT !.byte = n]
      BY <3>1 DEF Onward
    <3> QED BY <2>4, <3>2, HoldsByte
  <2>7. AllHold(With(dr), wanted) /\ AllHold(With(at), wanted) /\ AllHold(With(Onward(at)), wanted)
    BY <1>a, <2>1, <2>2, <2>4, <2>6, HoldsOne
  <2>8. \A v \in Bit : [d2 EXCEPT !.latch = v] \in CardType
    BY <1>a DEF CardType
  <2>9. CASE ~dr.loaded /\ UNCHANGED wanted /\ \E noise \in {0, 1} : Become([d2 EXCEPT !.latch = noise], With(dr))
    BY <1>c, <2>7, <2>8, <2>9 DEF Bit
  <2>10. CASE /\ UNCHANGED wanted
              /\ \/ Become(d2, With(at)) \/ Become(d2, With(Onward(at)))
                 \/ \E part \in {0, 1} : Become([d2 EXCEPT !.latch = part], With(at))
                 \/ Become([d2 EXCEPT !.latch = at.track[at.byte]], With(Onward(at)))
    BY <1>a, <1>c, <2>5, <2>7, <2>8, <2>10 DEF Bit
  <2>11. CASE /\ dr.loaded /\ ~dr.protect
              /\ Become([d2 EXCEPT !.writes = @ + 1], With(Put(at, d2.latch)))
              /\ Recorded(u, at.byte, d2.latch)
    <3>1. PICK k : k = TrackOf(drive[u]) /\ k = TrackOf(at)
      BY <2>2, <2>4 DEF TrackOf
    <3>2. PICK W : W = [wanted[u] EXCEPT ![k] = [@ EXCEPT ![at.byte] = d2.latch]]
      OBVIOUS
    <3>3. Holds(Put(at, d2.latch), W) /\ W \in Disk
      <4>1. Holds(Put(at, d2.latch), W)
        BY <1>a, <2>4, <2>11, <3>1, <3>2, HoldsPut
      <4> QED BY <4>1 DEF Holds
    <3>4. wanted' = [wanted EXCEPT ![u] = W]
      BY <2>11, <3>1, <3>2 DEF Recorded
    <3>5. /\ wanted' \in [D2Units -> Disk] /\ wanted'[u] = W
          /\ \A j \in D2Units : j # u => wanted'[j] = wanted[j]
      BY <1>a, <2>1, <3>3, <3>4
    <3>6. [d2 EXCEPT !.writes = @ + 1] \in CardType
      BY <1>a DEF CardType
    <3>7. AllHold(With(Put(at, d2.latch)), wanted')
      <4>1. Put(at, d2.latch) \in DriveType
        BY <3>3 DEF Holds
      <4> QED BY <1>a, <1>b, <2>1, <3>3, <3>5, <4>1 DEF AllHold
    <3> QED BY <2>11, <3>5, <3>6, <3>7, HoldsBecome
  <2> HIDE DEF With
  <2> QED BY <2>3, <2>9, <2>10, <2>11
<1>8. ASSUME NEW u \in D2Changed, NEW disk \in {Blank, drive[u].image, NoDisk}, NEW p \in BOOLEAN,
             SwapDisk(u, disk, p)
      PROVE  D2Inv'
  <2>0. u \in D2Units
    BY D2Assumption DEF D2Units
  <2> DEFINE W == IF disk = NoDisk THEN Blank ELSE disk
  <2>1. W \in Disk /\ disk \in Disk \cup {NoDisk}
    <3>1. Blank \in Disk
      BY DEF Blank, Disk, TrackType, Bit
    <3>2. drive[u] \in DriveType
      BY <1>b, <2>0 DEF AllHold, Holds
    <3>3. drive[u].image \in Disk \cup {NoDisk}
      BY <3>2 DEF DriveType
    <3> QED BY <3>1, <3>3
  <2>2. PICK e : e = Unload(Flush(drive[u])) /\ Holds(e, wanted[u]) /\ e.dirty = FALSE /\ e.loaded = FALSE
    <3>1. 0 \in 0 .. D2Phases - 1
      BY Constants
    <3>2. PICK f : f = Flush(drive[u]) /\ Holds(f, wanted[u]) /\ f.dirty = FALSE
      BY <1>b, <2>0, HoldsFlush
    <3>3. Holds(Unload(f), wanted[u]) /\ Unload(f).dirty = FALSE /\ Unload(f).loaded = FALSE
      BY <3>1, <3>2, HoldsUnload
    <3> QED BY <3>2, <3>3
  <2>3. PICK x \in DriveType :
           /\ x = [e EXCEPT !.image = disk, !.protect = p] /\ x.dirty = FALSE /\ x.loaded = FALSE /\ x.image = disk
    <3>1. e \in DriveType
      BY <2>2 DEF Holds
    <3>2. [e EXCEPT !.image = disk, !.protect = p] \in DriveType
      BY <2>1, <3>1 DEF DriveType
    <3> QED BY <2>2, <3>1, <3>2 DEF DriveType
  <2>4. Flush(x).image = disk
    BY <2>3, FlushIs, Zenon DEF Image
  <2>5. Holds(x, W)
    BY <2>1, <2>3, <2>4 DEF Holds
  <2>6. drive' = [drive EXCEPT ![u] = x] /\ wanted' = [wanted EXCEPT ![u] = W] /\ d2' = d2
    BY <1>8, <2>2, <2>3 DEF SwapDisk
  <2> HIDE DEF W
  <2>7. wanted' \in [D2Units -> Disk] /\ AllHold(drive', wanted')
    BY <1>a, <1>b, <2>0, <2>1, <2>3, <2>5, <2>6 DEF AllHold
  <2>8. \A j \in D2Units : drive'[j].dirty => d2'.motor \/ drive'[j].spinning
    BY <1>a, <2>0, <2>3, <2>6 DEF D2Inv, AllHold
  <2> QED BY <1>a, <2>6, <2>7, <2>8 DEF D2Inv
<1>9. ASSUME NEW p \in BOOLEAN, D2Reset(p) PROVE D2Inv'
  <2> DEFINE x(u) == [Flush(drive[u]) EXCEPT !.spinning = FALSE]
  <2>1. PICK c, drs :
           /\ c = [d2 EXCEPT !.curr = 0, !.motor = FALSE, !.magnets = {}, !.write = FALSE, !.deferred = NoStep]
           /\ drs = IF p THEN [u \in D2Units |-> x(u)] ELSE drive
           /\ Become(c, drs) /\ UNCHANGED wanted
    BY <1>9 DEF D2Reset
  <2>2. c \in CardType
    BY <1>a, <2>1 DEF CardType, D2Units
  <2>3. \A u \in D2Units : Holds(x(u), wanted[u])
    BY <1>b, HoldsFlush, HoldsSpin
  <2> HIDE DEF x
  <2>4. \A u \in D2Units : x(u) \in DriveType
    BY <2>3 DEF Holds
  <2>5. AllHold(drs, wanted)
    BY <1>a, <2>1, <2>3, <2>4 DEF AllHold
  <2> QED BY <1>c, <2>1, <2>2, <2>5
<1>10. CASE UNCHANGED d2Vars
  BY <1>10 DEF d2Vars, D2Inv
<1> QED BY <1>1, <1>2, <1>3, <1>4, <1>5, <1>6, <1>7, <1>8, <1>9, <1>10 DEF D2Next

LEMMA D2Start == D2Init => D2Inv
<1> SUFFICES ASSUME D2Init PROVE D2Inv
  OBVIOUS
<1>1. Blank \in Disk /\ NoTrack \in TrackType /\ 0 \in 0 .. D2Phases - 1 /\ 0 \in 0 .. D2Nibbles - 1
  BY Constants DEF Blank, Disk, NoTrack, TrackType, Bit
<1>2. d2 \in CardType
  BY DEF D2Init, CardType, D2Units, Bit
<1>3. ASSUME NEW disk \in {Blank, NoDisk} PROVE Holds(NewDrive(disk), Blank) /\ NewDrive(disk).dirty = FALSE
  <2>1. PICK x \in DriveType : x = NewDrive(disk) /\ x.dirty = FALSE /\ x.loaded = FALSE /\ x.image = disk
    <3>1. NewDrive(disk) \in DriveType
      BY <1>1 DEF NewDrive, DriveType
    <3> QED BY <3>1 DEF NewDrive
  <2>2. Flush(x).image = disk
    BY <2>1, FlushIs, Zenon DEF Image
  <2> QED BY <1>1, <2>1, <2>2 DEF Holds
<1>4. \A u \in D2Units : drive[u] = NewDrive(IF u \in D2Loaded THEN Blank ELSE NoDisk) /\ wanted[u] = Blank
  BY DEF D2Init
<1>5. \A u \in D2Units : Holds(drive[u], wanted[u]) /\ drive[u] \in DriveType /\ drive[u].dirty = FALSE
  <2>1. \A u \in D2Units : Holds(drive[u], wanted[u]) /\ drive[u].dirty = FALSE
    BY <1>3, <1>4
  <2> QED BY <2>1 DEF Holds
<1>6. wanted \in [D2Units -> Disk] /\ drive \in [D2Units -> DriveType]
  <2>1. wanted = [u \in D2Units |-> Blank]
        /\ drive = [u \in D2Units |-> NewDrive(IF u \in D2Loaded THEN Blank ELSE NoDisk)]
    BY DEF D2Init
  <2>2. \A u \in D2Units : NewDrive(IF u \in D2Loaded THEN Blank ELSE NoDisk) \in DriveType
    BY <1>4, <1>5
  <2> QED BY <1>1, <2>1, <2>2
<1> QED BY <1>2, <1>5, <1>6 DEF D2Inv, AllHold

(***************************************************************************)
(* Nothing recorded is lost or misplaced, and a drive at rest has written  *)
(* its track back.                                                         *)
(***************************************************************************)
THEOREM Disk2Correct == D2Spec => []Disk2Right
<1>1. D2Inv => Disk2Right
  BY DEF D2Inv, AllHold, Holds, Disk2Right, D2NothingLost, D2RestIsWritten, OnDisk
<1> QED BY <1>1, D2Start, D2Step, PTL DEF D2Spec
-----------------------------------------------------------------------------
(***************************************************************************)
(* The IEEE-488 bus: the handshake between computer and drive never waits, *)
(* and bytes go over it once and in order, for every set of channels, any  *)
(* length of files and transfers, with disks changed and reads stopped at  *)
(* any point.                                                              *)
(***************************************************************************)
AllBytes == {Byte(n) : n \in Nat}
Secondaries == {Secondary(k, c) : k \in SecondaryKinds, c \in DosChannels}
BusValues == {Free} \cup AllBytes \cup Secondaries \cup Commands

CtlTypes == [atn : BOOLEAN, dav : BOOLEAN, eoi : BOOLEAN, nrfd : BOOLEAN, ndac : BOOLEAN, data : BusValues]
DriveTypes ==
  [dav : BOOLEAN, eoi : BOOLEAN, nrfd : BOOLEAN, ndac : BOOLEAN, data : BusValues,
   listener : BOOLEAN, talker : BOOLEAN, ourListen : BOOLEAN, ourTalk : BOOLEAN, prevAtn : BOOLEAN, taken : BOOLEAN,
   onBus : BOOLEAN, ended : BOOLEAN, pending : BOOLEAN, tentative : BOOLEAN, pbyte : BusValues, plast : BOOLEAN,
   pchan : DosChannels \cup {-1}]
DosTypes ==
  [listening : BOOLEAN, talking : BOOLEAN, opening : BOOLEAN, chan : DosChannels,
   pos : [DosChannels -> 0 .. FileLen], in : Seq(BusValues)]

Both(d, s) == [d |-> d, s |-> s]
-----------------------------------------------------------------------------
(***************************************************************************)
(* step() settles: every change of the computer's lines brings the drive,  *)
(* in one round of the loop, to where the next round leaves it.            *)
(***************************************************************************)
LEMMA StepSettles ==
  ASSUME NEW c, NEW x, NEW y, StepOnce(c, x) = y, StepOnce(c, y) = y
  PROVE  Step(c, x) = y
<1> DEFINE Body(g, k) ==
             IF k = 0 THEN [x |-> x, same |-> FALSE]
             ELSE IF g[k - 1].same THEN g[k - 1]
                  ELSE [x |-> StepOnce(c, g[k - 1].x),
                        same |-> DriveLines(StepOnce(c, g[k - 1].x).d) = DriveLines(g[k - 1].x.d)]
           R(g) == g = [k \in 0 .. 16 |-> Body(g, k)]
           first == DriveLines(y.d) = DriveLines(x.d)
           f == [k \in 0 .. 16 |-> IF k = 0 THEN [x |-> x, same |-> FALSE]
                                   ELSE IF k = 1 THEN [x |-> y, same |-> first]
                                   ELSE [x |-> y, same |-> TRUE]]
<1>1. R(f)
  <2>1. ASSUME NEW k \in 0 .. 16 PROVE f[k] = Body(f, k)
    <3>1. CASE k = 0
      BY <3>1
    <3>2. CASE k = 1
      <4>1. f[0] = [x |-> x, same |-> FALSE]
        OBVIOUS
      <4> QED BY <3>2, <4>1
    <3>3. CASE k = 2
      <4>1. f[1] = [x |-> y, same |-> first]
        OBVIOUS
      <4>2. f[2] = [x |-> y, same |-> TRUE]
        OBVIOUS
      <4> HIDE DEF first, f
      <4>3. CASE first
        BY <3>3, <4>1, <4>2, <4>3
      <4>4. CASE ~first
        <5>1. Body(f, 2) = [x |-> StepOnce(c, y), same |-> DriveLines(StepOnce(c, y).d) = DriveLines(y.d)]
          BY <4>1, <4>4
        <5> QED BY <3>3, <4>2, <5>1
      <4> QED BY <4>3, <4>4
    <3>4. CASE k > 2
      <4>1. f[k - 1] = [x |-> y, same |-> TRUE] /\ f[k] = [x |-> y, same |-> TRUE]
        BY <3>4
      <4> QED BY <3>4, <4>1
    <3> QED BY <3>1, <3>2, <3>3, <3>4
  <2>2. f = [k \in 0 .. 16 |-> f[k]]
    OBVIOUS
  <2> HIDE DEF f, Body
  <2> QED BY <2>1, <2>2
<1> DEFINE run == CHOOSE g : R(g)
<1>2. R(run)
  <2> HIDE DEF R
  <2> QED BY <1>1
<1>3. Step(c, x) = run[16].x
  BY DEF Step
<1>4. ASSUME NEW k \in 0 .. 16 PROVE run[k] = Body(run, k)
  <2> HIDE DEF run
  <2>1. run = [j \in 0 .. 16 |-> Body(run, j)]
    BY <1>2
  <2> HIDE DEF Body
  <2>2. \A j \in 0 .. 16 : run[j] = Body(run, j)
    BY <2>1, Zenon
  <2> QED BY <2>2, Zenon
<1> HIDE DEF run
<1>5. run[0] = [x |-> x, same |-> FALSE]
  BY <1>4
<1>6. run[1] = [x |-> y, same |-> first]
  <2>1. run[1] = Body(run, 1)
    BY <1>4
  <2> QED BY <1>5, <2>1
<1>7. run[2] = [x |-> y, same |-> TRUE]
  <2>1. run[2] = Body(run, 2)
    BY <1>4
  <2>2. CASE first
    <3> HIDE DEF first
    <3> QED BY <1>6, <2>1, <2>2
  <2>3. CASE ~first
    <3> HIDE DEF first
    <3>1. Body(run, 2) = [x |-> StepOnce(c, y), same |-> DriveLines(StepOnce(c, y).d) = DriveLines(y.d)]
      BY <1>6, <2>3
    <3> QED BY <2>1, <3>1
  <2> QED BY <2>2, <2>3
<1>8. ASSUME NEW k \in 3 .. 16, run[k - 1] = run[2] PROVE run[k] = run[2]
  <2>1. run[k] = Body(run, k)
    <3> HIDE DEF Body
    <3>1. k \in 0 .. 16
      OBVIOUS
    <3> QED BY <1>4, <3>1
  <2> QED BY <1>7, <1>8, <2>1
<1>9. run[16] = run[2]
  <2> HIDE DEF Body
  <2>1. run[3] = run[2] /\ run[4] = run[2] /\ run[5] = run[2] /\ run[6] = run[2] /\ run[7] = run[2]
    BY <1>8
  <2>2. run[8] = run[2] /\ run[9] = run[2] /\ run[10] = run[2] /\ run[11] = run[2] /\ run[12] = run[2]
    BY <1>8, <2>1
  <2>3. run[13] = run[2] /\ run[14] = run[2] /\ run[15] = run[2]
    BY <1>8, <2>2
  <2> QED BY <1>8, <2>3
<1> QED BY <1>3, <1>7, <1>9
-----------------------------------------------------------------------------
(***************************************************************************)
(* What one change of the lines does, case by case.                        *)
(***************************************************************************)
Awaits(d) == ~d.taken /\ d.dav /\ d.nrfd /\ ~d.ndac /\ d.data = Free
Took(d) == d.taken /\ d.dav /\ ~d.nrfd /\ d.ndac /\ d.data = Free
TalkLines(d) ==
  /\ ~d.taken /\ d.nrfd /\ d.ndac /\ d.dav = ~d.onBus
  /\ ~d.onBus => d.eoi /\ d.data = Free

\* No change of ATN: the edge is not seen again.
LEMMA NoEdge ==
  ASSUME NEW c, NEW d, NEW s, d.prevAtn = c.atn
  PROVE  AtnEdge(c, Both(d, s)) = Both(d, s)
BY DEF AtnEdge, Both

LEMMA Round ==
  ASSUME NEW c \in CtlTypes, NEW d \in DriveTypes, NEW s, d.prevAtn = c.atn
  PROVE  /\ ~c.atn \/ d.listener => StepOnce(c, Both(d, s)) = ListenerStep(c, Both(d, s))
         /\ c.atn /\ ~d.listener /\ d.talker => StepOnce(c, Both(d, s)) = TalkerStep(c, Both(d, s))
         /\ c.atn /\ ~d.listener /\ ~d.talker => StepOnce(c, Both(d, s)) = Both(d, s)
<1> DEFINE y == Both(d, s)
<1>1. y.d = d
  BY DEF Both
<1>2. StepOnce(c, y) = CASE ~c.atn \/ y.d.listener -> ListenerStep(c, y)
                         [] c.atn /\ ~y.d.listener /\ y.d.talker -> TalkerStep(c, y)
                         [] OTHER -> y
  BY Zenon, NoEdge DEF StepOnce
<1> HIDE DEF y
<1>3. ~c.atn \/ d.listener => StepOnce(c, y) = ListenerStep(c, y)
  BY <1>1, <1>2
<1>4. c.atn /\ ~d.listener /\ d.talker => StepOnce(c, y) = TalkerStep(c, y)
  BY <1>1, <1>2
<1>5. c.atn /\ ~d.listener /\ ~d.talker => StepOnce(c, y) = y
  BY <1>1, <1>2
<1> QED BY <1>3, <1>4, <1>5 DEF y

LEMMA ListenerStays ==
  ASSUME NEW c \in CtlTypes, NEW d \in DriveTypes, NEW s, (Awaits(d) /\ c.dav) \/ (Took(d) /\ ~c.dav)
  PROVE  ListenerStep(c, Both(d, s)) = Both(d, s)
<1>1. CASE Awaits(d) /\ c.dav
  <2>1. [d EXCEPT !.nrfd = TRUE, !.ndac = FALSE] = d
    BY <1>1 DEF DriveTypes, Awaits
  <2>2. ListenerStep(c, Both(d, s)) = [Both(d, s) EXCEPT !.d = [d EXCEPT !.nrfd = TRUE, !.ndac = FALSE]]
    BY <1>1 DEF ListenerStep, Both, Awaits
  <2> QED BY <2>1, <2>2 DEF Both
<1>2. CASE Took(d) /\ ~c.dav
  BY <1>2 DEF ListenerStep, Both, Took
<1> QED BY <1>1, <1>2

LEMMA TalkerStays ==
  ASSUME NEW c \in CtlTypes, NEW d \in DriveTypes, NEW s, TalkLines(d),
         IF d.onBus THEN ~c.ndac ELSE d.ended \/ ~c.nrfd \/ c.ndac
  PROVE  TalkerStep(c, Both(d, s)) = Both(d, s)
<1>1. [d EXCEPT !.nrfd = TRUE, !.ndac = TRUE] = d
  BY DEF DriveTypes, TalkLines
<1>2. [Both(d, s) EXCEPT !.d = [d EXCEPT !.nrfd = TRUE, !.ndac = TRUE]] = Both(d, s)
  BY <1>1 DEF Both
<1>3. TalkerStep(c, Both(d, s)) = [Both(d, s) EXCEPT !.d = [d EXCEPT !.nrfd = TRUE, !.ndac = TRUE]]
  <2>1. CASE d.onBus
    BY <2>1 DEF TalkerStep, Both, DriveTypes, CtlTypes
  <2>2. CASE ~d.onBus
    BY <2>2 DEF TalkerStep, Both, DriveTypes, CtlTypes
  <2> QED BY <2>1, <2>2
<1> QED BY <1>2, <1>3

LEMMA StillAnswering ==
  ASSUME NEW c \in CtlTypes, NEW d \in DriveTypes, NEW s, d.prevAtn = c.atn, ~c.atn \/ d.listener,
         (Awaits(d) /\ c.dav) \/ (Took(d) /\ ~c.dav)
  PROVE  StepOnce(c, Both(d, s)) = Both(d, s)
BY ListenerStays, Round

LEMMA StillQuiet ==
  ASSUME NEW c \in CtlTypes, NEW d \in DriveTypes, NEW s, d.prevAtn = c.atn, c.atn, ~d.listener, ~d.talker
  PROVE  StepOnce(c, Both(d, s)) = Both(d, s)
BY Round

LEMMA StillTalking ==
  ASSUME NEW c \in CtlTypes, NEW d \in DriveTypes, NEW s, d.prevAtn = c.atn, c.atn, ~d.listener, TalkLines(d),
         IF d.onBus THEN ~c.ndac ELSE d.ended \/ ~c.nrfd \/ c.ndac
  PROVE  StepOnce(c, Both(d, s)) = Both(d, s)
<1>1. CASE ~d.talker
  BY <1>1, StillQuiet
<1>2. CASE d.talker
  BY <1>2, TalkerStays, Round, Zenon
<1> QED BY <1>1, <1>2 DEF DriveTypes

\* ATN falls: whatever the drive was doing, it lets go and waits for a command.
Low(d) ==
  [d EXCEPT !.dav = TRUE, !.eoi = TRUE, !.nrfd = TRUE, !.ndac = FALSE, !.data = Free, !.prevAtn = FALSE,
            !.ended = d.ended /\ ~d.onBus /\ ~d.tentative, !.tentative = FALSE, !.taken = FALSE, !.onBus = FALSE]

LEMMA LowTypes ==
  ASSUME NEW d \in DriveTypes
  PROVE  /\ Low(d) \in DriveTypes /\ Awaits(Low(d)) /\ ~Low(d).prevAtn /\ ~Low(d).tentative /\ ~Low(d).onBus
         /\ \A f \in {"listener", "talker", "ourListen", "ourTalk", "pending", "pbyte", "plast", "pchan"} : Low(d)[f] = d[f]
<1>1. Free \in BusValues
  BY DEF BusValues
<1> DEFINE e == d.ended /\ ~d.onBus /\ ~d.tentative
           free == Free
<1>2. e \in BOOLEAN
  BY DEF DriveTypes
<1>3. Low(d) = [d EXCEPT !.dav = TRUE, !.eoi = TRUE, !.nrfd = TRUE, !.ndac = FALSE, !.data = free, !.prevAtn = FALSE,
            !.ended = e, !.tentative = FALSE, !.taken = FALSE, !.onBus = FALSE]
  BY DEF Low
<1>4. free = Free /\ free \in BusValues
  BY <1>1
<1> HIDE DEF e, free
<1>5. Low(d) \in DriveTypes
  <2> DEFINE dr1 == [d EXCEPT !.dav = TRUE, !.eoi = TRUE, !.nrfd = TRUE, !.ndac = FALSE, !.data = free]
  <2>1. dr1 \in DriveTypes
    BY <1>4 DEF DriveTypes
  <2>2. Low(d) = [dr1 EXCEPT !.prevAtn = FALSE, !.ended = e, !.tentative = FALSE, !.taken = FALSE, !.onBus = FALSE]
    BY <1>3 DEF DriveTypes
  <2> HIDE DEF dr1
  <2>3. [dr1 EXCEPT !.prevAtn = FALSE, !.ended = e, !.tentative = FALSE, !.taken = FALSE, !.onBus = FALSE] \in DriveTypes
    BY <1>2, <2>1 DEF DriveTypes
  <2> QED BY <2>2, <2>3
<1>6. Low(d).taken = FALSE /\ Low(d).dav = TRUE /\ Low(d).nrfd = TRUE /\ Low(d).ndac = FALSE /\ Low(d).data = free
  BY <1>3 DEF DriveTypes
<1>7. Low(d).prevAtn = FALSE /\ Low(d).tentative = FALSE /\ Low(d).onBus = FALSE
  BY <1>3 DEF DriveTypes
<1>8. \A f \in {"listener", "talker", "ourListen", "ourTalk", "pending", "pbyte", "plast", "pchan"} : Low(d)[f] = d[f]
  BY <1>3, Zenon DEF DriveTypes
<1> QED BY <1>4, <1>5, <1>6, <1>7, <1>8 DEF Awaits

LEMMA AtnFalls ==
  ASSUME NEW c \in CtlTypes, NEW d \in DriveTypes, NEW s, d.prevAtn, ~c.atn, c.dav
  PROVE  Step(c, Both(d, s)) = Both(Low(d), s)
<1>1. [ReleaseAll(d) EXCEPT !.prevAtn = c.atn, !.ndac = c.atn /\ ~d.listener] = Low(d)
  BY DEF ReleaseAll, Released, Low, DriveTypes, CtlTypes
<1>2. AtnEdge(c, Both(d, s)) = Both(Low(d), s)
  BY <1>1 DEF AtnEdge, Both
<1>3. StepOnce(c, Both(d, s)) = ListenerStep(c, Both(Low(d), s))
  BY <1>2 DEF StepOnce
<1> DEFINE l == Low(d)
<1>4. l \in DriveTypes /\ Awaits(l) /\ ~l.prevAtn
  BY LowTypes
<1> HIDE DEF l
<1>10. (Awaits(l) /\ c.dav) \/ (Took(l) /\ ~c.dav)
  BY <1>4
<1>11. ~c.atn \/ l.listener
  OBVIOUS
<1>5. ListenerStep(c, Both(l, s)) = Both(l, s)
  BY <1>4, <1>10, ListenerStays
<1>6. StepOnce(c, Both(l, s)) = Both(l, s)
  <2>1. l.prevAtn = c.atn
    BY <1>4 DEF CtlTypes, DriveTypes
  <2> QED BY <1>4, <1>10, <1>11, <2>1, StillAnswering
<1>7. StepOnce(c, Both(d, s)) = Both(l, s)
  BY <1>3, <1>5 DEF l
<1>8. Step(c, Both(d, s)) = Both(l, s)
  BY <1>6, <1>7, StepSettles
<1> QED BY <1>8 DEF l

\* ATN rises: a listener is busy until the next byte, any other drive lets go.
High(d) ==
  [d EXCEPT !.dav = TRUE, !.eoi = TRUE, !.nrfd = TRUE, !.ndac = ~d.listener, !.data = Free, !.prevAtn = TRUE,
            !.ended = d.ended /\ ~d.onBus /\ ~d.tentative, !.tentative = FALSE, !.taken = FALSE, !.onBus = FALSE]

LEMMA HighTypes ==
  ASSUME NEW d \in DriveTypes
  PROVE  /\ High(d) \in DriveTypes /\ High(d).prevAtn /\ ~High(d).tentative /\ ~High(d).onBus
         /\ d.listener => Awaits(High(d))
         /\ ~d.listener => TalkLines(High(d))
         /\ \A f \in {"listener", "talker", "ourListen", "ourTalk", "pending", "pbyte", "plast", "pchan"} : High(d)[f] = d[f]
<1>1. Free \in BusValues
  BY DEF BusValues
<1> DEFINE e == d.ended /\ ~d.onBus /\ ~d.tentative
           free == Free
           n == ~d.listener
<1>2. e \in BOOLEAN /\ n \in BOOLEAN /\ n = ~d.listener
  BY DEF DriveTypes
<1>3. High(d) = [d EXCEPT !.dav = TRUE, !.eoi = TRUE, !.nrfd = TRUE, !.ndac = n, !.data = free, !.prevAtn = TRUE,
            !.ended = e, !.tentative = FALSE, !.taken = FALSE, !.onBus = FALSE]
  BY DEF High
<1>4. free = Free /\ free \in BusValues
  BY <1>1
<1> HIDE DEF e, free, n
<1>5. High(d) \in DriveTypes
  <2> DEFINE dr1 == [d EXCEPT !.dav = TRUE, !.eoi = TRUE, !.nrfd = TRUE, !.ndac = n, !.data = free]
             dr2 == [dr1 EXCEPT !.prevAtn = TRUE, !.ended = e]
  <2>1. dr1 \in DriveTypes
    BY <1>2, <1>4, Zenon DEF DriveTypes
  <2>2. High(d) = [dr2 EXCEPT !.tentative = FALSE, !.taken = FALSE, !.onBus = FALSE]
    BY <1>3 DEF DriveTypes
  <2> HIDE DEF dr1
  <2>3. dr2 \in DriveTypes
    BY <1>2, <2>1 DEF DriveTypes
  <2> HIDE DEF dr2
  <2> QED BY <2>2, <2>3, Zenon DEF DriveTypes
<1>6. /\ High(d).taken = FALSE /\ High(d).dav = TRUE /\ High(d).nrfd = TRUE /\ High(d).ndac = n /\ High(d).data = free
      /\ High(d).eoi = TRUE
  BY <1>3 DEF DriveTypes
<1>7. High(d).prevAtn = TRUE /\ High(d).tentative = FALSE /\ High(d).onBus = FALSE
  BY <1>3 DEF DriveTypes
<1>8. \A f \in {"listener", "talker", "ourListen", "ourTalk", "pending", "pbyte", "plast", "pchan"} : High(d)[f] = d[f]
  BY <1>3, Zenon DEF DriveTypes
<1> QED BY <1>2, <1>4, <1>5, <1>6, <1>7, <1>8 DEF Awaits, TalkLines

LEMMA AtnRises ==
  ASSUME NEW c \in CtlTypes, NEW d \in DriveTypes, NEW s, ~d.prevAtn, c.atn, c.dav, ~c.nrfd \/ c.ndac
  PROVE  Step(c, Both(d, s)) = Both(High(d), s)
<1>1. [ReleaseAll(d) EXCEPT !.prevAtn = c.atn, !.ndac = c.atn /\ ~d.listener] = High(d)
  BY DEF ReleaseAll, Released, High, DriveTypes, CtlTypes
<1>2. AtnEdge(c, Both(d, s)) = Both(High(d), s)
  BY <1>1 DEF AtnEdge, Both
<1> DEFINE l == High(d)
<1>3. /\ l \in DriveTypes /\ l.prevAtn /\ ~l.onBus
      /\ d.listener => Awaits(l)
      /\ ~d.listener => TalkLines(l)
      /\ l.listener = d.listener
  BY HighTypes
<1>4. AtnEdge(c, Both(d, s)) = Both(l, s)
  BY <1>2
<1> HIDE DEF l
<1>5. l.prevAtn = c.atn
  BY <1>3 DEF CtlTypes, DriveTypes
<1>6. StepOnce(c, Both(l, s)) = Both(l, s)
  <2>1. CASE d.listener
    <3>1. (Awaits(l) /\ c.dav) \/ (Took(l) /\ ~c.dav)
      BY <1>3, <2>1
    <3>2. ~c.atn \/ l.listener
      BY <1>3, <2>1
    <3> QED BY <1>3, <1>5, <3>1, <3>2, StillAnswering
  <2>2. CASE ~d.listener
    <3>1. IF l.onBus THEN ~c.ndac ELSE l.ended \/ ~c.nrfd \/ c.ndac
      BY <1>3
    <3> QED BY <1>3, <1>5, <2>2, <3>1, StillTalking
  <2> QED BY <2>1, <2>2
<1>7. AtnEdge(c, Both(l, s)) = Both(l, s)
  BY <1>5, NoEdge
<1>8. StepOnce(c, Both(d, s)) = StepOnce(c, Both(l, s))
  BY Zenon, <1>4, <1>7 DEF StepOnce
<1>9. Step(c, Both(d, s)) = Both(l, s)
  BY <1>6, <1>8, StepSettles
<1> QED BY <1>9 DEF l
-----------------------------------------------------------------------------
\* A byte comes while DAV is low.
Taken(d) == [d EXCEPT !.nrfd = FALSE, !.taken = TRUE, !.ndac = TRUE]

LEMMA TakenTypes ==
  ASSUME NEW d \in DriveTypes, Awaits(d)
  PROVE  /\ Taken(d) \in DriveTypes /\ Took(Taken(d))
         /\ \A f \in {"listener", "talker", "ourListen", "ourTalk", "pending", "pbyte", "plast", "pchan", "prevAtn",
                      "tentative", "onBus", "ended"} : Taken(d)[f] = d[f]
<1>1. Taken(d) \in DriveTypes
  BY DEF Taken, DriveTypes
<1>2. Taken(d).taken = TRUE /\ Taken(d).nrfd = FALSE /\ Taken(d).ndac = TRUE /\ Taken(d).dav = d.dav /\ Taken(d).data = d.data
  BY DEF Taken, DriveTypes
<1>3. \A f \in {"listener", "talker", "ourListen", "ourTalk", "pending", "pbyte", "plast", "pchan", "prevAtn",
                "tentative", "onBus", "ended"} : Taken(d)[f] = d[f]
  BY DEF Taken, DriveTypes
<1> QED BY <1>1, <1>2, <1>3 DEF Took, Awaits

LEMMA DataTaken ==
  ASSUME NEW c \in CtlTypes, NEW d \in DriveTypes, NEW s, d.prevAtn = c.atn, c.atn, d.listener, Awaits(d),
         ~c.dav, c.data # Free
  PROVE  Step(c, Both(d, s)) = Both(Taken(d), DosCiout(s, c.data))
<1> DEFINE t == Taken(d)
           u == DosCiout(s, c.data)
<1>1. StepOnce(c, Both(d, s)) = ListenerStep(c, Both(d, s))
  BY Round
<1>2. ListenerStep(c, Both(d, s)) = Both(t, u)
  <2>1. Both(d, s).d = d /\ Both(d, s).s = s
    BY DEF Both
  <2>2. DataOnBus(c, d) = c.data
    BY DEF DataOnBus
  <2>3. ListenerStep(c, Both(d, s)) = [[Both(d, s) EXCEPT !.s = u] EXCEPT !.d.nrfd = FALSE, !.d.taken = TRUE, !.d.ndac = TRUE]
    BY <2>1, <2>2 DEF ListenerStep, Awaits
  <2> QED BY <2>3 DEF Both, Taken
<1>3. t \in DriveTypes /\ Took(t) /\ t.listener = d.listener /\ t.prevAtn = d.prevAtn
  BY TakenTypes
<1> HIDE DEF t, u
<1>4. (Awaits(t) /\ c.dav) \/ (Took(t) /\ ~c.dav)
  BY <1>3
<1>5. ~c.atn \/ t.listener
  BY <1>3
<1>6. t.prevAtn = c.atn
  BY <1>3
<1>7. StepOnce(c, Both(t, u)) = Both(t, u)
  BY <1>3, <1>4, <1>5, <1>6, StillAnswering
<1>8. Step(c, Both(d, s)) = Both(t, u)
  BY <1>1, <1>2, <1>7, StepSettles
<1> QED BY <1>8 DEF t, u

\* The lines and flags no command changes.
SameLines(d, e) ==
  \A f \in {"dav", "eoi", "nrfd", "ndac", "data", "prevAtn", "taken", "onBus", "tentative", "pbyte", "plast"} : e[f] = d[f]

LEMMA CommandTaken ==
  ASSUME NEW c \in CtlTypes, NEW d \in DriveTypes, NEW s, NEW e \in DriveTypes, NEW u,
         d.prevAtn = c.atn, ~c.atn, Awaits(d), ~c.dav, c.data # Free,
         Command(Both(d, s), c.data) = Both(e, u), SameLines(d, e)
  PROVE  Step(c, Both(d, s)) = Both(Taken(e), u)
<1> DEFINE t == Taken(e)
<1>0. e.prevAtn = d.prevAtn /\ Awaits(e)
  BY DEF SameLines, Awaits
<1>1. StepOnce(c, Both(d, s)) = ListenerStep(c, Both(d, s))
  BY Round
<1>2. ListenerStep(c, Both(d, s)) = Both(t, u)
  <2>1. Both(d, s).d = d /\ Both(d, s).s = s
    BY DEF Both
  <2>2. DataOnBus(c, d) = c.data
    BY DEF DataOnBus
  <2>3. ListenerStep(c, Both(d, s)) = [Both(e, u) EXCEPT !.d.nrfd = FALSE, !.d.taken = TRUE, !.d.ndac = TRUE]
    BY <2>1, <2>2 DEF ListenerStep, Awaits
  <2> QED BY <2>3 DEF Both, Taken
<1>3. t \in DriveTypes /\ Took(t) /\ t.prevAtn = e.prevAtn
  BY <1>0, TakenTypes
<1> HIDE DEF t
<1>4. (Awaits(t) /\ c.dav) \/ (Took(t) /\ ~c.dav)
  BY <1>3
<1>5. ~c.atn \/ t.listener
  BY <1>3
<1>6. t.prevAtn = c.atn
  BY <1>0, <1>3
<1>7. StepOnce(c, Both(t, u)) = Both(t, u)
  BY <1>3, <1>4, <1>5, <1>6, StillAnswering
<1>8. Step(c, Both(d, s)) = Both(t, u)
  BY <1>1, <1>2, <1>7, StepSettles
<1> QED BY <1>8 DEF t

\* DAV goes up again after the byte was taken.
Waits(d) == [d EXCEPT !.taken = FALSE, !.ndac = FALSE, !.nrfd = TRUE]

LEMMA DavRises ==
  ASSUME NEW c \in CtlTypes, NEW d \in DriveTypes, NEW s, d.prevAtn = c.atn, ~c.atn \/ d.listener, Took(d), c.dav
  PROVE  /\ Step(c, Both(d, s)) = Both(Waits(d), s)
         /\ Waits(d) \in DriveTypes /\ Awaits(Waits(d))
         /\ \A f \in {"listener", "talker", "ourListen", "ourTalk", "pending", "pbyte", "plast", "pchan", "prevAtn",
                      "tentative", "onBus", "ended"} : Waits(d)[f] = d[f]
<1> DEFINE t == Waits(d)
<1>1. StepOnce(c, Both(d, s)) = ListenerStep(c, Both(d, s))
  BY Round
<1>2. ListenerStep(c, Both(d, s)) = Both(t, s)
  <2>1. Both(d, s).d = d /\ Both(d, s).s = s
    BY DEF Both
  <2>2. ListenerStep(c, Both(d, s)) = [Both(d, s) EXCEPT !.d.taken = FALSE, !.d.ndac = FALSE, !.d.nrfd = TRUE]
    BY <2>1 DEF ListenerStep, Took
  <2> QED BY <2>2 DEF Both, Waits
<1>3. t \in DriveTypes
  BY DEF Waits, DriveTypes
<1>4. t.taken = FALSE /\ t.nrfd = TRUE /\ t.ndac = FALSE /\ t.dav = d.dav /\ t.data = d.data
  BY DEF Waits, DriveTypes
<1>5. \A f \in {"listener", "talker", "ourListen", "ourTalk", "pending", "pbyte", "plast", "pchan", "prevAtn",
                "tentative", "onBus", "ended"} : t[f] = d[f]
  BY DEF Waits, DriveTypes
<1> HIDE DEF t
<1>6. Awaits(t) /\ t.listener = d.listener /\ t.prevAtn = c.atn
  BY <1>4, <1>5 DEF Awaits, Took
<1>7. (Awaits(t) /\ c.dav) \/ (Took(t) /\ ~c.dav)
  BY <1>6
<1>8. ~c.atn \/ t.listener
  BY <1>6
<1>9. StepOnce(c, Both(t, s)) = Both(t, s)
  BY <1>3, <1>6, <1>7, <1>8, StillAnswering
<1>10. Step(c, Both(d, s)) = Both(t, s)
  BY <1>1, <1>2, <1>9, StepSettles
<1> QED BY <1>3, <1>5, <1>6, <1>10 DEF t
-----------------------------------------------------------------------------
\* NDAC goes up: the byte on the bus is taken, or may have been.
Gone(c, d) ==
  [d EXCEPT !.dav = TRUE, !.eoi = TRUE, !.nrfd = TRUE, !.ndac = TRUE, !.data = Free, !.onBus = FALSE,
            !.pending = d.pending /\ c.nrfd, !.tentative = d.tentative \/ c.nrfd]

LEMMA ByteGone ==
  ASSUME NEW c \in CtlTypes, NEW d \in DriveTypes, NEW s, d.prevAtn = c.atn, c.atn, ~d.listener, d.talker,
         TalkLines(d), d.onBus, c.ndac
  PROVE  /\ Step(c, Both(d, s)) = Both(Gone(c, d), s)
         /\ Gone(c, d) \in DriveTypes /\ TalkLines(Gone(c, d)) /\ ~Gone(c, d).onBus
         /\ Gone(c, d).pending = (d.pending /\ c.nrfd) /\ Gone(c, d).tentative = (d.tentative \/ c.nrfd)
         /\ \A f \in {"listener", "talker", "ourListen", "ourTalk", "pbyte", "plast", "pchan", "prevAtn", "ended"} :
                Gone(c, d)[f] = d[f]
<1> DEFINE g == Gone(c, d)
           free == Free
           p == d.pending /\ c.nrfd
           m == d.tentative \/ c.nrfd
<1>1. StepOnce(c, Both(d, s)) = TalkerStep(c, Both(d, s))
  BY Round
<1>2. TalkerStep(c, Both(d, s)) = Both(g, s)
  <2>1. Both(d, s).d = d /\ Both(d, s).s = s
    BY DEF Both
  <2>2. [d EXCEPT !.nrfd = TRUE, !.ndac = TRUE] = d
    BY DEF DriveTypes, TalkLines
  <2>3. ASSUME NEW z, z = [Both(d, s) EXCEPT !.d.nrfd = TRUE, !.d.ndac = TRUE]
        PROVE  z = Both([d EXCEPT !.nrfd = TRUE, !.ndac = TRUE], s)
    BY <2>3 DEF Both
  <2>4. TalkerStep(c, Both(d, s)) = TakeAway(c, Both(d, s))
    BY <2>1, <2>2, <2>3 DEF TalkerStep
  <2>5. [Released(d) EXCEPT !.onBus = FALSE, !.pending = d.pending /\ c.nrfd,
                            !.tentative = d.tentative \/ c.nrfd] = g
    BY DEF Released, Gone, DriveTypes
  <2>6. ASSUME NEW z, z = TakeAway(c, Both(d, s))
        PROVE  z = Both(g, s)
    <3> HIDE DEF g
    <3> QED BY <2>1, <2>5, <2>6 DEF TakeAway, Both
  <2> QED BY <2>4, <2>5, <2>6
<1>3. p \in BOOLEAN /\ m \in BOOLEAN /\ free \in BusValues /\ free = Free
  BY DEF DriveTypes, CtlTypes, BusValues
<1>4. g = [d EXCEPT !.dav = TRUE, !.eoi = TRUE, !.nrfd = TRUE, !.ndac = TRUE, !.data = free, !.onBus = FALSE,
                    !.pending = p, !.tentative = m]
  BY DEF Gone
<1>0. p = (d.pending /\ c.nrfd) /\ m = (d.tentative \/ c.nrfd)
  OBVIOUS
<1> HIDE DEF g, p, m, free
<1>5. g \in DriveTypes
  <2> DEFINE dr1 == [d EXCEPT !.dav = TRUE, !.eoi = TRUE, !.nrfd = TRUE, !.ndac = TRUE, !.data = free]
  <2>1. dr1 \in DriveTypes
    BY <1>3 DEF DriveTypes
  <2> DEFINE dr2 == [dr1 EXCEPT !.onBus = FALSE, !.pending = p]
  <2>2. g = [dr2 EXCEPT !.tentative = m]
    BY <1>4 DEF DriveTypes
  <2> HIDE DEF dr1
  <2>3. dr2 \in DriveTypes
    BY <1>3, <2>1 DEF DriveTypes
  <2> HIDE DEF dr2
  <2> QED BY <1>3, <2>2, <2>3 DEF DriveTypes
<1>6. /\ g.dav = TRUE /\ g.eoi = TRUE /\ g.nrfd = TRUE /\ g.ndac = TRUE /\ g.data = free /\ g.onBus = FALSE
      /\ g.taken = d.taken /\ g.pending = p /\ g.tentative = m
  BY <1>4 DEF DriveTypes
<1>7. \A f \in {"listener", "talker", "ourListen", "ourTalk", "pbyte", "plast", "pchan", "prevAtn", "ended"} : g[f] = d[f]
  BY <1>4 DEF DriveTypes
<1>8. TalkLines(g)
  BY <1>3, <1>6 DEF TalkLines
<1>9. IF g.onBus THEN ~c.ndac ELSE g.ended \/ ~c.nrfd \/ c.ndac
  BY <1>6
<1>10. StepOnce(c, Both(g, s)) = Both(g, s)
  <2>1. g.prevAtn = c.atn /\ ~g.listener
    BY <1>7
  <2> QED BY <1>5, <1>8, <1>9, <2>1, StillTalking
<1>11. Step(c, Both(d, s)) = Both(g, s)
  BY <1>1, <1>2, <1>10, StepSettles
<1> QED BY <1>5, <1>6, <1>7, <1>8, <1>11, <1>0 DEF g

\* The listener is ready and the talker has a byte, or has no more.
Shown(d, b, last) ==
  [d EXCEPT !.tentative = FALSE, !.data = b, !.eoi = ~last, !.dav = FALSE, !.onBus = TRUE, !.pending = TRUE,
            !.pbyte = b, !.plast = last, !.ended = d.ended \/ last]

LEMMA ShownTypes ==
  ASSUME NEW d \in DriveTypes, NEW b, NEW last, b \in BusValues, last \in BOOLEAN, TalkLines(d)
  PROVE  /\ Shown(d, b, last) \in DriveTypes /\ TalkLines(Shown(d, b, last))
         /\ Shown(d, b, last).onBus = TRUE /\ Shown(d, b, last).pending = TRUE /\ Shown(d, b, last).tentative = FALSE
         /\ Shown(d, b, last).pbyte = b /\ Shown(d, b, last).data = b
         /\ Shown(d, b, last).listener = d.listener /\ Shown(d, b, last).talker = d.talker
         /\ Shown(d, b, last).ourListen = d.ourListen /\ Shown(d, b, last).ourTalk = d.ourTalk
         /\ Shown(d, b, last).pchan = d.pchan /\ Shown(d, b, last).prevAtn = d.prevAtn
<1> DEFINE g == Shown(d, b, last)
           e == d.ended \/ last
           n == ~last
<1>1. e \in BOOLEAN /\ n \in BOOLEAN
  BY DEF DriveTypes
<1>2. g = [d EXCEPT !.tentative = FALSE, !.data = b, !.eoi = n, !.dav = FALSE, !.onBus = TRUE, !.pending = TRUE,
                    !.pbyte = b, !.plast = last, !.ended = e]
  BY DEF Shown
<1> HIDE DEF g, e, n
<1>3. g \in DriveTypes
  <2> DEFINE dr1 == [d EXCEPT !.tentative = FALSE, !.data = b, !.eoi = n, !.dav = FALSE, !.onBus = TRUE]
  <2>1. dr1 \in DriveTypes
    BY <1>1 DEF DriveTypes
  <2> DEFINE dr2 == [dr1 EXCEPT !.pending = TRUE, !.pbyte = b]
  <2>2. g = [dr2 EXCEPT !.plast = last, !.ended = e]
    BY <1>2 DEF DriveTypes
  <2> HIDE DEF dr1
  <2>3. dr2 \in DriveTypes
    BY <2>1 DEF DriveTypes
  <2> DEFINE dr3 == [dr2 EXCEPT !.plast = last]
  <2> HIDE DEF dr2
  <2>4. g = [dr3 EXCEPT !.ended = e]
    BY <2>2, <2>3 DEF DriveTypes
  <2>5. dr3 \in DriveTypes
    BY <2>3 DEF DriveTypes
  <2> HIDE DEF dr3
  <2> QED BY <1>1, <2>4, <2>5 DEF DriveTypes
<1>4. /\ g.dav = FALSE /\ g.onBus = TRUE /\ g.pending = TRUE /\ g.tentative = FALSE /\ g.pbyte = b /\ g.data = b
      /\ g.nrfd = d.nrfd /\ g.ndac = d.ndac
  BY <1>2 DEF DriveTypes
<1>5. \A f \in {"listener", "talker", "ourListen", "ourTalk", "pchan", "prevAtn", "taken"} : g[f] = d[f]
  BY <1>2, Zenon DEF DriveTypes
<1>6. TalkLines(g)
  BY <1>4, <1>5 DEF TalkLines
<1> QED BY <1>3, <1>4, <1>5, <1>6 DEF g

Over(d) == [d EXCEPT !.tentative = FALSE, !.pending = FALSE, !.ended = TRUE]

LEMMA OverTypes ==
  ASSUME NEW d \in DriveTypes, TalkLines(d)
  PROVE  /\ Over(d) \in DriveTypes /\ TalkLines(Over(d))
         /\ Over(d).ended = TRUE /\ Over(d).pending = FALSE /\ Over(d).tentative = FALSE
         /\ \A f \in {"listener", "talker", "ourListen", "ourTalk", "pchan", "prevAtn", "taken", "onBus", "pbyte", "data"} :
                Over(d)[f] = d[f]
<1>1. Over(d) \in DriveTypes
  BY DEF Over, DriveTypes
<1>2. /\ Over(d).ended = TRUE /\ Over(d).pending = FALSE /\ Over(d).tentative = FALSE
      /\ Over(d).dav = d.dav /\ Over(d).nrfd = d.nrfd /\ Over(d).ndac = d.ndac /\ Over(d).eoi = d.eoi
  BY DEF Over, DriveTypes
<1>3. \A f \in {"listener", "talker", "ourListen", "ourTalk", "pchan", "prevAtn", "taken", "onBus", "pbyte", "data"} :
         Over(d)[f] = d[f]
  BY DEF Over, DriveTypes
<1>4. TalkLines(Over(d))
  BY <1>2, <1>3 DEF TalkLines
<1> QED BY <1>1, <1>2, <1>3, <1>4

LEMMA ByteSent ==
  ASSUME NEW c \in CtlTypes, NEW d \in DriveTypes, NEW s \in DosTypes, d.prevAtn = c.atn, c.atn, ~d.listener, d.talker,
         TalkLines(d), ~d.onBus, ~d.ended, c.nrfd, ~c.ndac, ~d.tentative
  PROVE  /\ d.pending => Step(c, Both(d, s)) = Both(Shown(d, d.pbyte, d.plast), s)
         /\ ~d.pending /\ DosHasByte(s) => Step(c, Both(d, s)) = Both(Shown(d, DosByte(s), DosLast(s)), DosAcptr(s))
         /\ ~d.pending /\ ~DosHasByte(s) => Step(c, Both(d, s)) = Both(Over(d), s)
<1> DEFINE x == Both(d, s)
           y == [x EXCEPT !.d.tentative = FALSE, !.d.pending = d.pending]
<1>1. StepOnce(c, x) = SendByte(x)
  <2>1. StepOnce(c, x) = TalkerStep(c, x)
    BY Round
  <2>2. x.d = d
    BY DEF Both
  <2>3. [d EXCEPT !.nrfd = TRUE, !.ndac = TRUE] = d
    BY DEF DriveTypes, TalkLines
  <2>4. [x EXCEPT !.d.nrfd = TRUE, !.d.ndac = TRUE] = x
    <3>1. ASSUME NEW z, z = [x EXCEPT !.d.nrfd = TRUE, !.d.ndac = TRUE]
          PROVE  z = Both([d EXCEPT !.nrfd = TRUE, !.ndac = TRUE], s)
      BY <3>1 DEF Both
    <3> QED BY <2>3, <3>1
  <2>5. TalkerStep(c, x) = SendByte(x)
    <3> HIDE DEF x
    <3> QED BY <2>2, <2>4 DEF TalkerStep
  <2> QED BY <2>1, <2>5
<1>2. x.d = d /\ x.s = s
  BY DEF Both
<1>3. y = x
  <2>1. [d EXCEPT !.tentative = FALSE, !.pending = d.pending] = d
    BY DEF DriveTypes
  <2>2. ASSUME NEW z, z = [x EXCEPT !.d.tentative = FALSE, !.d.pending = d.pending]
        PROVE  z = Both([d EXCEPT !.tentative = FALSE, !.pending = d.pending], s)
    BY <2>2 DEF Both
  <2> QED BY <2>1, <2>2
<1>4. ASSUME NEW g \in DriveTypes, NEW u, TalkLines(g), g.prevAtn = d.prevAtn, g.listener = d.listener,
             g.onBus \/ g.ended, StepOnce(c, x) = Both(g, u)
      PROVE  Step(c, x) = Both(g, u)
  <2>1. IF g.onBus THEN ~c.ndac ELSE g.ended \/ ~c.nrfd \/ c.ndac
    BY <1>4
  <2>2. StepOnce(c, Both(g, u)) = Both(g, u)
    <3>1. g.prevAtn = c.atn /\ ~g.listener
      BY <1>4
    <3> QED BY <1>4, <2>1, <3>1, StillTalking
  <2> QED BY <1>4, <2>2, StepSettles
<1>5. CASE d.pending
  <2> DEFINE g == Shown(d, d.pbyte, d.plast)
  <2>1. SendByte(x) = Present(x, d.pbyte, d.plast)
    <3> HIDE DEF x
    <3> QED BY <1>2, <1>3, <1>5 DEF SendByte, DriveTypes
  <2>2. Present(x, d.pbyte, d.plast) = Both(g, s)
    <3>1. g = [d EXCEPT !.data = d.pbyte, !.eoi = ~d.plast, !.dav = FALSE, !.onBus = TRUE,
                 !.pending = TRUE, !.pbyte = d.pbyte, !.plast = d.plast, !.ended = d.ended \/ d.plast]
      BY DEF Shown, DriveTypes
    <3>2. ASSUME NEW z, z = Present(x, d.pbyte, d.plast)
          PROVE  z = Both(g, s)
      <4> HIDE DEF g
      <4> QED BY <1>2, <3>1, <3>2 DEF Present, Both
    <3> QED BY <3>2
  <2>3. g \in DriveTypes /\ TalkLines(g) /\ g.prevAtn = d.prevAtn /\ g.listener = d.listener /\ g.onBus = TRUE
    <3>1. d.pbyte \in BusValues /\ d.plast \in BOOLEAN
      BY DEF DriveTypes
    <3>2. PICK e : e = g
      OBVIOUS
    <3>3. e = Shown(d, d.pbyte, d.plast)
      BY <3>2
    <3>4. e \in DriveTypes
      BY <3>1, <3>3, ShownTypes
    <3>5. TalkLines(e) /\ e.onBus = TRUE
      BY <3>1, <3>3, ShownTypes
    <3>6. e.prevAtn = d.prevAtn /\ e.listener = d.listener
      <4>1. Shown(d, d.pbyte, d.plast).prevAtn = d.prevAtn /\ Shown(d, d.pbyte, d.plast).listener = d.listener
        BY DEF Shown, DriveTypes
      <4> QED BY <3>3, <4>1
    <3> QED BY <3>2, <3>4, <3>5, <3>6
  <2> HIDE DEF g
  <2>4. Step(c, x) = Both(g, s)
    BY <1>1, <1>4, <2>1, <2>2, <2>3
  <2> QED BY <1>5, <2>4 DEF g
<1>6. CASE ~d.pending /\ DosHasByte(s)
  <2> DEFINE b == DosByte(s)
             last == DosLast(s)
             u == DosAcptr(s)
             g == Shown(d, b, last)
  <2>1. SendByte(x) = Present([x EXCEPT !.s = u], b, last)
    <3> HIDE DEF x
    <3> QED BY <1>2, <1>3, <1>6 DEF SendByte, DriveTypes
  <2>2. b \in BusValues /\ last \in BOOLEAN
    <3>1. s.pos[s.chan] + 1 \in Nat
      BY DEF DosTypes
    <3> QED BY <3>1 DEF DosByte, DosLast, BusValues, AllBytes
  <2> HIDE DEF b, last, u
  <2>3. Present([x EXCEPT !.s = u], b, last) = Both(g, u)
    <3>1. g = [d EXCEPT !.data = b, !.eoi = ~last, !.dav = FALSE, !.onBus = TRUE,
                 !.pending = TRUE, !.pbyte = b, !.plast = last, !.ended = d.ended \/ last]
      BY DEF Shown, DriveTypes
    <3>2. [x EXCEPT !.s = u] = Both(d, u)
      BY DEF Both
    <3>3. ASSUME NEW z, z = Present(Both(d, u), b, last)
          PROVE  z = Both(g, u)
      <4> HIDE DEF g
      <4> QED BY <3>1, <3>3 DEF Present, Both
    <3> QED BY <3>2, <3>3
  <2>4. g \in DriveTypes /\ TalkLines(g) /\ g.prevAtn = d.prevAtn /\ g.listener = d.listener /\ g.onBus = TRUE
    <3>1. PICK e : e = g
      OBVIOUS
    <3>2. e = Shown(d, b, last)
      BY <3>1
    <3>3. e \in DriveTypes
      BY <2>2, <3>2, ShownTypes
    <3>4. TalkLines(e) /\ e.onBus = TRUE
      BY <2>2, <3>2, ShownTypes
    <3>5. e.prevAtn = d.prevAtn /\ e.listener = d.listener
      <4>1. Shown(d, b, last).prevAtn = d.prevAtn /\ Shown(d, b, last).listener = d.listener
        BY DEF Shown, DriveTypes
      <4> QED BY <3>2, <4>1
    <3> QED BY <3>1, <3>3, <3>4, <3>5
  <2> HIDE DEF g
  <2>5. Step(c, x) = Both(g, u)
    BY <1>1, <1>4, <2>1, <2>3, <2>4
  <2> QED BY <1>6, <2>5 DEF g, b, last, u
<1>7. CASE ~d.pending /\ ~DosHasByte(s)
  <2> DEFINE g == Over(d)
  <2>1. SendByte(x) = [x EXCEPT !.d.ended = TRUE]
    <3> HIDE DEF x
    <3> QED BY <1>2, <1>3, <1>7 DEF SendByte, DriveTypes
  <2>2. [x EXCEPT !.d.ended = TRUE] = Both(g, s)
    <3>1. Over(d) = [d EXCEPT !.ended = TRUE]
      BY <1>7 DEF Over, DriveTypes
    <3>2. ASSUME NEW z, z = [x EXCEPT !.d.ended = TRUE]
          PROVE  z = Both([d EXCEPT !.ended = TRUE], s)
      BY <3>2 DEF Both
    <3> QED BY <3>1, <3>2
  <2>3. g \in DriveTypes /\ TalkLines(g) /\ g.prevAtn = d.prevAtn /\ g.listener = d.listener /\ g.ended = TRUE
    BY OverTypes
  <2> HIDE DEF g
  <2>4. StepOnce(c, x) = Both(g, s) /\ (g.onBus \/ g.ended)
    BY <1>1, <2>1, <2>2, <2>3
  <2>5. Step(c, x) = Both(g, s)
    BY <1>4, <2>3, <2>4
  <2> QED BY <1>7, <2>5 DEF g
<1> QED BY <1>5, <1>6, <1>7 DEF x
-----------------------------------------------------------------------------
(***************************************************************************)
(* What each byte under ATN does to the drive and its DOS.                 *)
(***************************************************************************)
LEMMA CommandValue ==
  ASSUME NEW d \in DriveTypes, NEW s, NEW b, NEW y, y = Command(Both(d, s), b)
  PROVE  /\ b[1] = "listen" /\ b[2] = 8 =>
              y = Both([d EXCEPT !.ourListen = TRUE, !.ourTalk = FALSE, !.listener = TRUE], DosListen(s))
         /\ b[1] = "listen" /\ b[2] # 8 => y = Both([d EXCEPT !.ourListen = FALSE, !.ourTalk = FALSE], s)
         /\ b[1] = "unlisten" =>
              y = Both([d EXCEPT !.ourListen = FALSE, !.ourTalk = FALSE, !.listener = FALSE],
                       IF d.listener THEN DosUnlisten(s) ELSE s)
         /\ b[1] = "talk" /\ b[2] = 8 =>
              y = Both([d EXCEPT !.ourTalk = TRUE, !.ourListen = FALSE, !.talker = TRUE, !.ended = FALSE], DosTalk(s))
         /\ b[1] = "talk" /\ b[2] # 8 =>
              y = Both([d EXCEPT !.ourTalk = FALSE, !.ourListen = FALSE, !.talker = FALSE],
                       IF d.talker THEN DosUntalk(s) ELSE s)
         /\ b[1] = "untalk" =>
              y = Both([d EXCEPT !.ourListen = FALSE, !.ourTalk = FALSE, !.talker = FALSE],
                       IF d.talker THEN DosUntalk(s) ELSE s)
         /\ b[1] \in SecondaryKinds /\ d.ourListen => y = Both([d EXCEPT !.pending = FALSE], DosSecond(s, b))
         /\ b[1] \in SecondaryKinds /\ ~d.ourListen /\ d.ourTalk =>
              y = Both([d EXCEPT !.pending = d.pending /\ b[2] = d.pchan, !.pchan = b[2]], DosTksa(s, b))
         /\ b[1] \in SecondaryKinds /\ ~d.ourListen /\ ~d.ourTalk => y = Both(d, s)
<1>1. Both(d, s).d = d /\ Both(d, s).s = s
  BY DEF Both
<1>2. CASE b[1] = "listen"
  <2>0. ~(b[1] \in SecondaryKinds)
    BY <1>2 DEF SecondaryKinds
  <2>1. y = [d |-> [d EXCEPT !.ourListen = b[2] = 8, !.ourTalk = FALSE, !.listener = d.listener \/ b[2] = 8],
             s |-> IF b[2] = 8 THEN DosListen(s) ELSE s]
    BY <1>1, <1>2, <2>0 DEF Command
  <2>2. CASE b[2] = 8
    <3>1. [d EXCEPT !.ourListen = b[2] = 8, !.ourTalk = FALSE, !.listener = d.listener \/ b[2] = 8]
            = [d EXCEPT !.ourListen = TRUE, !.ourTalk = FALSE, !.listener = TRUE]
      BY <2>2
    <3> QED BY <1>2, <2>0, <2>1, <2>2, <3>1 DEF Both
  <2>3. CASE b[2] # 8
    <3>1. [d EXCEPT !.ourListen = b[2] = 8, !.ourTalk = FALSE, !.listener = d.listener \/ b[2] = 8]
            = [d EXCEPT !.ourListen = FALSE, !.ourTalk = FALSE]
      BY <2>3 DEF DriveTypes
    <3> QED BY <1>2, <2>0, <2>1, <2>3, <3>1 DEF Both
  <2> QED BY <2>2, <2>3
<1>3. CASE b[1] = "unlisten"
  <2>0. ~(b[1] \in SecondaryKinds)
    BY <1>3 DEF SecondaryKinds
  <2>1. y = [d |-> [d EXCEPT !.ourListen = FALSE, !.ourTalk = FALSE, !.listener = FALSE],
             s |-> IF d.listener THEN DosUnlisten(s) ELSE s]
    BY <1>1, <1>3, <2>0 DEF Command
  <2> QED BY <1>3, <2>1 DEF Both, SecondaryKinds
<1>4. CASE b[1] = "talk"
  <2>0. ~(b[1] \in SecondaryKinds)
    BY <1>4 DEF SecondaryKinds
  <2>1. y = [d |-> [d EXCEPT !.ourTalk = b[2] = 8, !.ourListen = FALSE, !.talker = b[2] = 8, !.ended = d.ended /\ b[2] # 8],
             s |-> IF b[2] = 8 THEN DosTalk(s) ELSE IF d.talker THEN DosUntalk(s) ELSE s]
    BY <1>1, <1>4, <2>0 DEF Command
  <2>2. CASE b[2] = 8
    <3>1. [d EXCEPT !.ourTalk = b[2] = 8, !.ourListen = FALSE, !.talker = b[2] = 8, !.ended = d.ended /\ b[2] # 8]
            = [d EXCEPT !.ourTalk = TRUE, !.ourListen = FALSE, !.talker = TRUE, !.ended = FALSE]
      BY <2>2
    <3> QED BY <1>4, <2>0, <2>1, <2>2, <3>1 DEF Both
  <2>3. CASE b[2] # 8
    <3>1. [d EXCEPT !.ourTalk = b[2] = 8, !.ourListen = FALSE, !.talker = b[2] = 8, !.ended = d.ended /\ b[2] # 8]
            = [d EXCEPT !.ourTalk = FALSE, !.ourListen = FALSE, !.talker = FALSE]
      BY <2>3 DEF DriveTypes
    <3> QED BY <1>4, <2>0, <2>1, <2>3, <3>1 DEF Both
  <2> QED BY <2>2, <2>3
<1>5. CASE b[1] = "untalk"
  <2>0. ~(b[1] \in SecondaryKinds)
    BY <1>5 DEF SecondaryKinds
  <2>1. y = [d |-> [d EXCEPT !.ourListen = FALSE, !.ourTalk = FALSE, !.talker = FALSE],
             s |-> IF d.talker THEN DosUntalk(s) ELSE s]
    BY <1>1, <1>5, <2>0 DEF Command
  <2> QED BY <1>5, <2>1 DEF Both, SecondaryKinds
<1>6. CASE b[1] \in SecondaryKinds
  <2>1. b[1] \notin {"listen", "unlisten", "talk", "untalk"}
    BY <1>6 DEF SecondaryKinds
  <2>2. d.ourListen => y = [d |-> [d EXCEPT !.pending = FALSE], s |-> DosSecond(s, b)]
    BY <1>1, <1>6, <2>1 DEF Command
  <2>3. ~d.ourListen /\ d.ourTalk =>
          y = [d |-> [d EXCEPT !.pending = d.pending /\ b[2] = d.pchan, !.pchan = b[2]], s |-> DosTksa(s, b)]
    BY <1>1, <1>6, <2>1 DEF Command
  <2>4. ~d.ourListen /\ ~d.ourTalk => y = Both(d, s)
    BY <1>1, <1>6, <2>1 DEF Command
  <2> QED BY <1>6, <2>1, <2>2, <2>3, <2>4 DEF Both
<1>7. CASE b[1] \notin {"listen", "unlisten", "talk", "untalk"} \cup SecondaryKinds
  BY <1>7
<1> QED BY <1>2, <1>3, <1>4, <1>5, <1>6, <1>7

\* The DOS's calls keep its types.
LEMMA DosTyped ==
  ASSUME NEW s \in DosTypes
  PROVE  /\ DosListen(s) \in DosTypes /\ DosTalk(s) \in DosTypes /\ DosUntalk(s) \in DosTypes
         /\ DosUnlisten(s) \in DosTypes
         /\ \A b \in BusValues : DosCiout(s, b) \in DosTypes
         /\ \A c \in DosChannels, k \in SecondaryKinds :
               DosSecond(s, Secondary(k, c)) \in DosTypes /\ DosTksa(s, Secondary(k, c)) \in DosTypes
         /\ DosHasByte(s) => DosAcptr(s) \in DosTypes
<1>1. DosListen(s) \in DosTypes /\ DosTalk(s) \in DosTypes /\ DosUntalk(s) \in DosTypes
  <2>1. DosListen(s) \in DosTypes
    <3> DEFINE e == <<>>
    <3>1. e \in Seq(BusValues)
      OBVIOUS
    <3>2. DosListen(s) = [s EXCEPT !.listening = TRUE, !.in = e]
      BY DEF DosListen
    <3> HIDE DEF e
    <3> QED BY <3>1, <3>2 DEF DosTypes
  <2>2. DosTalk(s) \in DosTypes
    BY DEF DosTalk, DosTypes
  <2>3. DosUntalk(s) \in DosTypes
    BY DEF DosUntalk, DosTypes
  <2> QED BY <2>1, <2>2, <2>3
<1>2. DosUnlisten(s) \in DosTypes
  <2> DEFINE at == IF s.opening THEN 0 ELSE s.pos[s.chan]
             q == [s.pos EXCEPT ![s.chan] = at]
  <2>1. at \in 0 .. FileLen
    <3>1. s.pos[s.chan] \in 0 .. FileLen
      BY DEF DosTypes
    <3>2. 0 \in 0 .. FileLen
      BY DosAssumption
    <3> QED BY <3>1, <3>2
  <2> HIDE DEF at
  <2>2. q \in [DosChannels -> 0 .. FileLen]
    BY <2>1 DEF DosTypes
  <2>3. s.listening => DosUnlisten(s) = [s EXCEPT !.listening = FALSE, !.opening = FALSE, !.pos = q]
    BY DEF DosUnlisten, DosTypes, at
  <2>4. ~s.listening => DosUnlisten(s) = s
    BY DEF DosUnlisten
  <2> HIDE DEF q
  <2> QED BY <2>2, <2>3, <2>4 DEF DosTypes
<1>3. ASSUME NEW b \in BusValues PROVE DosCiout(s, b) \in DosTypes
  <2> DEFINE w == Append(s.in, b)
  <2>1. w \in Seq(BusValues)
    BY DEF DosTypes
  <2>2. DosCiout(s, b) = IF s.listening THEN [s EXCEPT !.in = w] ELSE s
    BY DEF DosCiout
  <2> HIDE DEF w
  <2> QED BY <2>1, <2>2 DEF DosTypes
<1>4. ASSUME NEW c \in DosChannels, NEW k \in SecondaryKinds
      PROVE  DosSecond(s, Secondary(k, c)) \in DosTypes /\ DosTksa(s, Secondary(k, c)) \in DosTypes
  <2> DEFINE at == IF k = "close" THEN FileLen ELSE s.pos[c]
             q == [s.pos EXCEPT ![c] = at]
             o == k = "open"
  <2>1. at \in 0 .. FileLen
    BY DosAssumption DEF DosTypes
  <2> HIDE DEF at
  <2>2. q \in [DosChannels -> 0 .. FileLen]
    BY <2>1 DEF DosTypes
  <2>3. s.listening => DosSecond(s, Secondary(k, c)) = [s EXCEPT !.chan = c, !.opening = o, !.pos = q]
    BY DEF DosSecond, Secondary, DosTypes, at
  <2>4. ~s.listening => DosSecond(s, Secondary(k, c)) = s
    BY DEF DosSecond
  <2>5. o \in BOOLEAN
    OBVIOUS
  <2> HIDE DEF q, o
  <2>6. DosSecond(s, Secondary(k, c)) \in DosTypes
    BY <2>2, <2>3, <2>4, <2>5 DEF DosTypes
  <2>7. DosTksa(s, Secondary(k, c)) \in DosTypes
    BY DEF DosTksa, Secondary, DosTypes
  <2> QED BY <2>6, <2>7
<1>5. ASSUME DosHasByte(s) PROVE DosAcptr(s) \in DosTypes
  <2> DEFINE q == [s.pos EXCEPT ![s.chan] = s.pos[s.chan] + 1]
  <2>1. s.pos[s.chan] + 1 \in 0 .. FileLen
    BY <1>5, DosAssumption DEF DosTypes, DosHasByte
  <2>2. q \in [DosChannels -> 0 .. FileLen]
    BY <2>1 DEF DosTypes
  <2>3. DosAcptr(s) = [s EXCEPT !.pos = q]
    BY DEF DosAcptr, DosTypes
  <2> HIDE DEF q
  <2> QED BY <2>2, <2>3 DEF DosTypes
<1> QED BY <1>1, <1>2, <1>3, <1>4, <1>5
-----------------------------------------------------------------------------
L8 == <<"listen", 8>>
T8 == <<"talk", 8>>
UL == <<"unlisten", 0>>
UT == <<"untalk", 0>>
Others == {<<"listen", 9>>, <<"talk", 9>>}

LEMMA HearListen ==
  ASSUME NEW d \in DriveTypes, NEW s \in DosTypes
  PROVE  \E e \in DriveTypes, u \in DosTypes :
            /\ Command(Both(d, s), L8) = Both(e, u) /\ SameLines(d, e) /\ u = DosListen(s)
            /\ e.ourListen /\ e.listener /\ e.talker = d.talker /\ e.pending = d.pending /\ e.pchan = d.pchan
<1> DEFINE e == [d EXCEPT !.ourListen = TRUE, !.ourTalk = FALSE, !.listener = TRUE]
<1>1. Command(Both(d, s), L8) = Both(e, DosListen(s))
  <2> DEFINE y == Command(Both(d, s), L8)
  <2>1. L8[1] = "listen" /\ L8[2] = 8
    BY DEF L8
  <2>2. y = Both([d EXCEPT !.ourListen = TRUE, !.ourTalk = FALSE, !.listener = TRUE], DosListen(s))
    BY <2>1, CommandValue, Zenon
  <2> QED BY <2>1, <2>2
<1>2. e \in DriveTypes
  BY DEF DriveTypes
<1>3. SameLines(d, e)
  BY DEF SameLines, DriveTypes
<1>4. e.ourListen /\ e.listener /\ e.talker = d.talker /\ e.pending = d.pending /\ e.pchan = d.pchan
  BY DEF DriveTypes
<1>5. DosListen(s) \in DosTypes
  BY DosTyped
<1> HIDE DEF e
<1> QED BY Zenon, <1>1, <1>2, <1>3, <1>4, <1>5

LEMMA HearUnlisten ==
  ASSUME NEW d \in DriveTypes, NEW s \in DosTypes
  PROVE  \E e \in DriveTypes, u \in DosTypes :
            /\ Command(Both(d, s), UL) = Both(e, u) /\ SameLines(d, e) /\ u = (IF d.listener THEN DosUnlisten(s) ELSE s)
            /\ ~e.listener /\ e.talker = d.talker /\ e.pending = d.pending /\ e.pchan = d.pchan
<1> DEFINE e == [d EXCEPT !.ourListen = FALSE, !.ourTalk = FALSE, !.listener = FALSE]
<1>1. Command(Both(d, s), UL) = Both(e, (IF d.listener THEN DosUnlisten(s) ELSE s))
  <2> DEFINE y == Command(Both(d, s), UL)
  <2>1. UL[1] = "unlisten" /\ UL[2] # 8
    BY DEF UL
  <2>2. y = Both([d EXCEPT !.ourListen = FALSE, !.ourTalk = FALSE, !.listener = FALSE],
              IF d.listener THEN DosUnlisten(s) ELSE s)
    BY <2>1, CommandValue, Zenon
  <2> QED BY <2>1, <2>2
<1>2. e \in DriveTypes
  BY DEF DriveTypes
<1>3. SameLines(d, e)
  BY DEF SameLines, DriveTypes
<1>4. ~e.listener /\ e.talker = d.talker /\ e.pending = d.pending /\ e.pchan = d.pchan
  BY DEF DriveTypes
<1>5. (IF d.listener THEN DosUnlisten(s) ELSE s) \in DosTypes
  BY DosTyped
<1> HIDE DEF e
<1> QED BY Zenon, <1>1, <1>2, <1>3, <1>4, <1>5

LEMMA HearTalk ==
  ASSUME NEW d \in DriveTypes, NEW s \in DosTypes
  PROVE  \E e \in DriveTypes, u \in DosTypes :
            /\ Command(Both(d, s), T8) = Both(e, u) /\ SameLines(d, e) /\ u = DosTalk(s)
            /\ e.ourTalk /\ ~e.ourListen /\ e.talker /\ e.listener = d.listener /\ e.pending = d.pending /\ e.pchan = d.pchan
<1> DEFINE e == [d EXCEPT !.ourTalk = TRUE, !.ourListen = FALSE, !.talker = TRUE, !.ended = FALSE]
<1>1. Command(Both(d, s), T8) = Both(e, DosTalk(s))
  <2> DEFINE y == Command(Both(d, s), T8)
  <2>1. T8[1] = "talk" /\ T8[2] = 8
    BY DEF T8
  <2>2. y = Both([d EXCEPT !.ourTalk = TRUE, !.ourListen = FALSE, !.talker = TRUE, !.ended = FALSE], DosTalk(s))
    BY <2>1, CommandValue, Zenon
  <2> QED BY <2>1, <2>2
<1>2. e \in DriveTypes
  BY DEF DriveTypes
<1>3. SameLines(d, e)
  BY DEF SameLines, DriveTypes
<1>4. e.ourTalk /\ ~e.ourListen /\ e.talker /\ e.listener = d.listener /\ e.pending = d.pending /\ e.pchan = d.pchan
  BY DEF DriveTypes
<1>5. DosTalk(s) \in DosTypes
  BY DosTyped
<1> HIDE DEF e
<1> QED BY Zenon, <1>1, <1>2, <1>3, <1>4, <1>5

LEMMA HearUntalk ==
  ASSUME NEW d \in DriveTypes, NEW s \in DosTypes
  PROVE  \E e \in DriveTypes, u \in DosTypes :
            /\ Command(Both(d, s), UT) = Both(e, u) /\ SameLines(d, e) /\ u = (IF d.talker THEN DosUntalk(s) ELSE s)
            /\ ~e.talker /\ e.listener = d.listener /\ e.pending = d.pending /\ e.pchan = d.pchan
<1> DEFINE e == [d EXCEPT !.ourListen = FALSE, !.ourTalk = FALSE, !.talker = FALSE]
<1>1. Command(Both(d, s), UT) = Both(e, (IF d.talker THEN DosUntalk(s) ELSE s))
  <2> DEFINE y == Command(Both(d, s), UT)
  <2>1. UT[1] = "untalk" /\ UT[2] # 8
    BY DEF UT
  <2>2. y = Both([d EXCEPT !.ourListen = FALSE, !.ourTalk = FALSE, !.talker = FALSE],
              IF d.talker THEN DosUntalk(s) ELSE s)
    BY <2>1, CommandValue, Zenon
  <2> QED BY <2>1, <2>2
<1>2. e \in DriveTypes
  BY Zenon DEF DriveTypes
<1>3. SameLines(d, e)
  BY Zenon DEF SameLines, DriveTypes
<1>4. ~e.talker /\ e.listener = d.listener /\ e.pending = d.pending /\ e.pchan = d.pchan
  BY DEF DriveTypes
<1>5. (IF d.talker THEN DosUntalk(s) ELSE s) \in DosTypes
  BY DosTyped
<1> HIDE DEF e
<1> QED BY Zenon, <1>1, <1>2, <1>3, <1>4, <1>5

\* Another drive is addressed.
LEMMA HearOther ==
  ASSUME NEW d \in DriveTypes, NEW s \in DosTypes, NEW b \in Others, ~d.talker
  PROVE  \E e \in DriveTypes, u \in DosTypes :
            /\ Command(Both(d, s), b) = Both(e, u) /\ SameLines(d, e) /\ u = s
            /\ ~e.ourListen /\ ~e.ourTalk /\ ~e.talker /\ e.listener = d.listener /\ e.pending = d.pending /\ e.pchan = d.pchan
<1> DEFINE e == [d EXCEPT !.ourListen = FALSE, !.ourTalk = FALSE]
<1>1. Command(Both(d, s), b) = Both(e, s)
  <2> DEFINE y == Command(Both(d, s), b)
  <2>1. b[2] # 8
    BY DEF Others
  <2>2. CASE b[1] = "listen"
    BY <2>1, <2>2, CommandValue, Zenon
  <2>3. CASE b[1] = "talk"
    <3>1. y = Both([d EXCEPT !.ourTalk = FALSE, !.ourListen = FALSE, !.talker = FALSE],
                   IF d.talker THEN DosUntalk(s) ELSE s)
      BY <2>1, <2>3, CommandValue, Zenon
    <3>2. [d EXCEPT !.ourTalk = FALSE, !.ourListen = FALSE, !.talker = FALSE] = e
      BY DEF DriveTypes
    <3> QED BY <3>1, <3>2
  <2> QED BY <2>2, <2>3 DEF Others
<1>2. e \in DriveTypes
  BY DEF DriveTypes
<1>3. SameLines(d, e)
  BY DEF SameLines, DriveTypes
<1>4. ~e.ourListen /\ ~e.ourTalk /\ ~e.talker /\ e.listener = d.listener /\ e.pending = d.pending /\ e.pchan = d.pchan
  BY DEF DriveTypes
<1>5. s \in DosTypes
  BY DosTyped
<1> HIDE DEF e
<1> QED BY Zenon, <1>1, <1>2, <1>3, <1>4, <1>5

\* A secondary address after our LISTEN, after our TALK, and after another drive's.
LEMMA HearSecond ==
  ASSUME NEW d \in DriveTypes, NEW s \in DosTypes, NEW k \in SecondaryKinds, NEW c \in DosChannels, d.ourListen
  PROVE  \E e \in DriveTypes, u \in DosTypes :
            /\ Command(Both(d, s), Secondary(k, c)) = Both(e, u) /\ SameLines(d, e) /\ u = DosSecond(s, Secondary(k, c))
            /\ ~e.pending /\ e.ourListen /\ e.listener = d.listener /\ e.talker = d.talker
<1> DEFINE e == [d EXCEPT !.pending = FALSE]
<1>1. Command(Both(d, s), Secondary(k, c)) = Both(e, DosSecond(s, Secondary(k, c)))
  <2> DEFINE y == Command(Both(d, s), Secondary(k, c))
  <2>1. Secondary(k, c)[1] = k /\ Secondary(k, c)[2] = c
    BY DEF Secondary
  <2>2. y = Both([d EXCEPT !.pending = FALSE], DosSecond(s, Secondary(k, c)))
    BY <2>1, CommandValue, Zenon
  <2> QED BY <2>1, <2>2
<1>2. e \in DriveTypes
  BY Zenon DEF DriveTypes
<1>3. SameLines(d, e)
  BY DEF SameLines, DriveTypes
<1>4. ~e.pending /\ e.ourListen /\ e.listener = d.listener /\ e.talker = d.talker
  BY DEF DriveTypes
<1>5. DosSecond(s, Secondary(k, c)) \in DosTypes
  BY DosTyped
<1> HIDE DEF e
<1> QED BY Zenon, <1>1, <1>2, <1>3, <1>4, <1>5

LEMMA HearTksa ==
  ASSUME NEW d \in DriveTypes, NEW s \in DosTypes, NEW k \in SecondaryKinds, NEW c \in DosChannels, ~d.ourListen, d.ourTalk
  PROVE  \E e \in DriveTypes, u \in DosTypes :
            /\ Command(Both(d, s), Secondary(k, c)) = Both(e, u) /\ SameLines(d, e) /\ u = DosTksa(s, Secondary(k, c))
            /\ e.pending = (d.pending /\ c = d.pchan) /\ e.pchan = c /\ e.listener = d.listener /\ e.talker = d.talker
<1> DEFINE e == [d EXCEPT !.pending = d.pending /\ c = d.pchan, !.pchan = c]
<1>1. Command(Both(d, s), Secondary(k, c)) = Both(e, DosTksa(s, Secondary(k, c)))
  <2> DEFINE y == Command(Both(d, s), Secondary(k, c))
  <2>1. Secondary(k, c)[1] = k /\ Secondary(k, c)[2] = c
    BY DEF Secondary
  <2>2. y = Both([d EXCEPT !.pending = d.pending /\ Secondary(k, c)[2] = d.pchan, !.pchan = Secondary(k, c)[2]],
              DosTksa(s, Secondary(k, c)))
    BY <2>1, CommandValue, Zenon
  <2> QED BY <2>1, <2>2
<1>2. e \in DriveTypes
  <2> DEFINE p == d.pending /\ c = d.pchan
  <2>1. p \in BOOLEAN /\ e = [d EXCEPT !.pending = p, !.pchan = c]
    OBVIOUS
  <2> HIDE DEF p, e
  <2> QED BY <2>1 DEF DriveTypes
<1>3. SameLines(d, e)
  BY DEF SameLines, DriveTypes
<1>4. e.pending = (d.pending /\ c = d.pchan) /\ e.pchan = c /\ e.listener = d.listener /\ e.talker = d.talker
  BY DEF DriveTypes
<1>5. DosTksa(s, Secondary(k, c)) \in DosTypes
  BY DosTyped
<1> HIDE DEF e
<1> QED BY Zenon, <1>1, <1>2, <1>3, <1>4, <1>5

LEMMA HearNothing ==
  ASSUME NEW d \in DriveTypes, NEW s \in DosTypes, NEW k \in SecondaryKinds, NEW c \in DosChannels, ~d.ourListen, ~d.ourTalk
  PROVE  Command(Both(d, s), Secondary(k, c)) = Both(d, s)
<1> DEFINE y == Command(Both(d, s), Secondary(k, c))
<1>1. Secondary(k, c)[1] = k /\ Secondary(k, c)[2] = c
  BY DEF Secondary
<1> QED BY <1>1, CommandValue, Zenon
-----------------------------------------------------------------------------
(***************************************************************************)
(* The invariant.                                                          *)
(*                                                                         *)
(* Where the computer is in a transfer says what its lines are (CtlShape), *)
(* what the drive's lines answer while it listens (Answers), which of the  *)
(* bytes under ATN the drive has still to hear and so who is addressed     *)
(* (Plan, Addressed), how much of what is written has come in (Arrives)    *)
(* and where a byte being read is (Talks).  A file's position is what the  *)
(* program got of it, and one more while the drive keeps a byte (Bytes).   *)
(***************************************************************************)
PetAts == {"idle", "send", "dav", "accepted", "clear", "turn", "turned", "recv", "ready", "busy", "took", "letgo"}
PetTypes ==
  [at : PetAts, todo : Seq(BusValues \ {Free}), next : {"write", "read", "done"}, left : Int, sent : Seq(BusValues),
   chan : DosChannels \cup {0}, swapped : BOOLEAN]

Types ==
  /\ ctl \in CtlTypes /\ ieee \in DriveTypes /\ dos \in DosTypes /\ pet \in PetTypes
  /\ got \in [DosChannels -> Seq(BusValues)] /\ dropped \subseteq DosChannels

Puts == {"dav", "accepted", "clear"}
Reads == {"recv", "ready", "busy", "took", "letgo"}

CtlShape(c, p) ==
  /\ c.dav <=> p.at # "accepted"
  /\ p.at \in Puts => p.todo # <<>> /\ c.data = p.todo[1]
  /\ p.at \notin Puts => c.data = Free
  /\ p.at \in Puts \cup {"idle", "send", "turn"} => c.ndac
  /\ p.at \in Puts \cup {"idle", "send", "ready"} => c.nrfd
  /\ p.at \in {"turn", "turned", "recv", "busy", "took"} => ~c.nrfd
  /\ p.at \in {"turned", "recv", "ready", "busy"} => ~c.ndac
  /\ p.at = "took" => c.ndac
  /\ p.at \in {"turn", "turned"} => ~c.atn
  /\ p.at \in Reads \cup {"idle"} => c.atn

\* The bytes under ATN, or of a file, that the drive has not taken yet.
Left(p) == IF p.at \in {"accepted", "clear"} THEN Tail(p.todo) ELSE p.todo

Answers(c, d, p) ==
  /\ d.prevAtn = c.atn
  /\ ~c.atn \/ d.listener => IF p.at = "accepted" THEN Took(d) ELSE Awaits(d)

Quiet(d) == ~d.listener /\ ~d.talker

WritePlan(c, d, p) ==
  /\ ~d.talker
  /\ ~c.atn => /\ p.sent = <<>>
               /\ \/ \E k \in {"open", "data"} : Left(p) = <<L8, Secondary(k, p.chan)>> /\ Quiet(d)
                  \/ \E k \in {"open", "data"} : Left(p) = <<Secondary(k, p.chan)>> /\ d.ourListen
                  \/ Left(p) = <<>> /\ ~d.pending
  /\ c.atn => ~d.pending /\ \A i \in 1 .. Len(p.todo) : p.todo[i] \in AllBytes

DonePlan(c, d, p) ==
  /\ ~c.atn
  /\ \/ Left(p) = <<L8, Secondary("close", p.chan), UL>> /\ Quiet(d)
     \/ Left(p) = <<Secondary("close", p.chan), UL>> /\ d.ourListen /\ ~d.talker
     \/ Left(p) = <<UL>> /\ ~d.talker /\ ~d.pending
     \/ Left(p) = <<UT>> /\ ~d.listener
     \/ \E b \in Others : Left(p) = <<b, Secondary("data", p.chan)>> /\ Quiet(d)
     \/ Left(p) = <<Secondary("data", p.chan)>> /\ Quiet(d) /\ ~d.ourListen /\ ~d.ourTalk
     \/ Left(p) = <<>> /\ Quiet(d)

ReadPlan(c, d, s, p, lost) ==
  /\ ~d.listener
  /\ \/ Left(p) = <<T8, Secondary("data", p.chan)>> /\ ~c.atn /\ ~d.talker
     \/ Left(p) = <<Secondary("data", p.chan)>> /\ ~c.atn /\ d.ourTalk /\ ~d.ourListen /\ (d.pending => d.talker)
        /\ (p.swapped \/ d.talker)
     \/ Left(p) = <<>> /\ d.pchan = p.chan /\ (s.talking => s.chan = p.chan)
        /\ (d.pending => d.talker) /\ (p.swapped \/ d.talker)
  /\ c.atn => p.at \in Reads
  /\ d.pending => d.pchan = p.chan \/ d.pchan \in lost
  /\ p.at \in {"ready", "busy"} /\ d.onBus /\ p.chan \notin lost => d.pending \/ s.pos[p.chan] = FileLen

Plan(c, d, s, p, lost) ==
  /\ s.listening => d.listener
  /\ s.talking => d.talker
  /\ s.opening => s.listening
  /\ ~(d.listener /\ d.talker)
  /\ p.at = "idle" => Quiet(d) /\ p.todo = <<>> /\ p.next = "done"
  /\ p.at # "idle" => p.chan \in DosChannels
  /\ p.at # "idle" /\ p.next = "write" => WritePlan(c, d, p)
  /\ p.at # "idle" /\ p.next = "done" => DonePlan(c, d, p)
  /\ p.at # "idle" /\ p.next = "read" => ReadPlan(c, d, s, p, lost)
  /\ p.at \in Reads \cup {"turn", "turned"} => p.next = "read" /\ p.todo = <<>>

Addressed(c, d, s, p) ==
  p.at # "idle" /\ p.next = "write" /\ ~p.swapped /\ (c.atn \/ Len(Left(p)) < 2) => d.listener /\ s.listening

Arrives(c, s, p) ==
  p.at # "idle" /\ p.next = "write" /\ ~p.swapped =>
    /\ ~c.atn /\ Len(Left(p)) < 2 => s.in = <<>>
    /\ c.atn /\ p.at \in {"send", "dav"} => s.in = p.sent
    /\ c.atn /\ p.at \in {"accepted", "clear"} => s.in = Append(p.sent, p.todo[1])

Talks(c, d, p, g, lost) ==
  /\ d.tentative => p.at = "letgo" /\ c.ndac
  /\ p.at \in Reads => TalkLines(d)
  /\ p.at = "busy" => d.onBus
  /\ p.at = "recv" => ~d.onBus
  /\ p.at \in {"took", "letgo"} /\ c.ndac /\ d.talker => ~d.onBus
  /\ p.at = "letgo" /\ ~c.nrfd /\ ~c.ndac => ~d.onBus
  /\ p.at \in {"ready", "busy"} /\ d.onBus /\ p.chan \notin lost => d.data = Byte(Len(g[p.chan]) + 1)

\* A byte still to come.
Due(p, b) == \E i \in 1 .. Len(Left(p)) : Left(p)[i] = b
Opens(p, c) == Due(p, Secondary("open", c))
Keeps(d, c) == IF d.pending /\ d.pchan = c THEN 1 ELSE 0

FileBytes(d, s, p, g, c) ==
  /\ g[c] = [i \in 1 .. Len(g[c]) |-> Byte(i)]
  /\ ~Opens(p, c) /\ ~(s.opening /\ s.chan = c) =>
        /\ s.pos[c] = FileLen \/ s.pos[c] = Len(g[c]) + Keeps(d, c)
        /\ d.pending /\ d.pchan = c => d.pbyte = Byte(Len(g[c]) + 1)

Bytes(d, s, p, g, lost) ==
  /\ \A c \in DosChannels \ lost : FileBytes(d, s, p, g, c)
  /\ d.pending => d.pchan \in DosChannels
  /\ s.opening => g[s.chan] = <<>> /\ s.chan = p.chan /\ p.next # "read"
  /\ \A c \in DosChannels : Opens(p, c) => g[c] = <<>> /\ c = p.chan /\ p.next = "write"
  /\ Left(p) = <<Secondary("open", p.chan)>> => s.listening \/ s.pos[p.chan] = FileLen
  /\ d.pending /\ p.next = "write" => d.pchan \in lost \/ Opens(p, d.pchan)
  /\ d.pending /\ Due(p, Secondary("close", p.chan)) => d.pchan \in lost
  /\ \A k \in SecondaryKinds : Due(p, Secondary(k, p.chan)) => ~s.opening

IeeeInv ==
  /\ Types
  /\ CtlShape(ctl, pet)
  /\ Answers(ctl, ieee, pet)
  /\ Plan(ctl, ieee, dos, pet, dropped)
  /\ Addressed(ctl, ieee, dos, pet)
  /\ Arrives(ctl, dos, pet)
  /\ Talks(ctl, ieee, pet, got, dropped)
  /\ Bytes(ieee, dos, pet, got, dropped)
-----------------------------------------------------------------------------
(***************************************************************************)
(* A change of the lines.                                                  *)
(***************************************************************************)
LEMMA LinesSet ==
  ASSUME NEW c, NEW d, NEW s, SetLines(c), c # ctl, Step(c, Both(ieee, dos)) = Both(d, s)
  PROVE  ctl' = c /\ ieee' = d /\ dos' = s
<1>1. [d |-> ieee, s |-> dos] = Both(ieee, dos) /\ Both(d, s).d = d /\ Both(d, s).s = s
  BY DEF Both
<1> QED BY <1>1 DEF SetLines

\* One that the drive has no answer to.
LEMMA LinesStay ==
  ASSUME NEW c \in CtlTypes, ieee \in DriveTypes, ieee.prevAtn = c.atn, SetLines(c),
         \/ (~c.atn \/ ieee.listener) /\ Awaits(ieee) /\ c.dav
         \/ (~c.atn \/ ieee.listener) /\ Took(ieee) /\ ~c.dav
         \/ c.atn /\ ~ieee.listener /\ ~ieee.talker
         \/ c.atn /\ ~ieee.listener /\ TalkLines(ieee) /\ IF ieee.onBus THEN ~c.ndac ELSE ieee.ended \/ ~c.nrfd \/ c.ndac
  PROVE  ctl' = c /\ ieee' = ieee /\ dos' = dos
<1>1. StepOnce(c, Both(ieee, dos)) = Both(ieee, dos)
  BY StillAnswering, StillQuiet, StillTalking
<1>2. Step(c, Both(ieee, dos)) = Both(ieee, dos)
  BY <1>1, StepSettles
<1>3. [d |-> ieee, s |-> dos] = Both(ieee, dos) /\ Both(ieee, dos).d = ieee /\ Both(ieee, dos).s = dos
  BY DEF Both
<1> QED BY <1>2, <1>3 DEF SetLines

(***************************************************************************)
(* The handshake of a byte leaves the plan as it is.                       *)
(***************************************************************************)
Sends == Puts \cup {"send"}

LEMMA PlanStays ==
  ASSUME NEW c \in CtlTypes, NEW b \in CtlTypes, NEW d, NEW s, NEW p \in PetTypes, NEW q \in PetTypes, NEW lost,
         Plan(c, d, s, p, lost), p.at \in Sends, q.at \in Sends, b.atn = c.atn,
         Left(q) = Left(p), q.next = p.next, q.chan = p.chan, q.swapped = p.swapped, ~c.atn => q.sent = p.sent,
         (c.atn /\ \A i \in 1 .. Len(p.todo) : p.todo[i] \in AllBytes) => \A i \in 1 .. Len(q.todo) : q.todo[i] \in AllBytes
  PROVE  Plan(b, d, s, q, lost)
<1>1. p.at # "idle" /\ q.at # "idle" /\ q.at \notin Reads \cup {"turn", "turned"}
  BY DEF Sends, Puts, Reads
<1>2. WritePlan(c, d, p) => WritePlan(b, d, q)
  BY DEF WritePlan
<1>3. DonePlan(c, d, p) => DonePlan(b, d, q)
  BY Zenon DEF DonePlan
<1>4. ReadPlan(c, d, s, p, lost) /\ p.at \notin Reads => ReadPlan(b, d, s, q, lost)
  <2>1. q.at \notin {"ready", "busy"}
    BY <1>1 DEF Reads
  <2> QED BY <2>1 DEF ReadPlan
<1>5. p.at \notin Reads
  BY DEF Sends, Puts, Reads
<1> QED BY <1>1, <1>2, <1>3, <1>4, <1>5 DEF Plan

LEMMA BytesStay ==
  ASSUME NEW d, NEW e, NEW s, NEW u, NEW p, NEW q, NEW g, NEW lost,
         Bytes(d, s, p, g, lost), Left(q) = Left(p), q.next = p.next, q.chan = p.chan,
         e.pending = d.pending, e.pchan = d.pchan, e.pbyte = d.pbyte,
         u.pos = s.pos, u.opening = s.opening, u.chan = s.chan, u.listening = s.listening
  PROVE  Bytes(e, u, q, g, lost)
<1>1. \A c : Opens(q, c) <=> Opens(p, c)
  BY DEF Opens, Due
<1>2. \A k : Due(q, Secondary(k, q.chan)) <=> Due(p, Secondary(k, p.chan))
  BY DEF Due
<1>3. \A c : Keeps(e, c) = Keeps(d, c)
  BY DEF Keeps
<1>4. \A c : FileBytes(d, s, p, g, c) => FileBytes(e, u, q, g, c)
  BY <1>1, <1>3 DEF FileBytes
<1> QED BY <1>1, <1>2, <1>4 DEF Bytes
-----------------------------------------------------------------------------
LEMMA PutsByte ==
  ASSUME IeeeInv, PetPut PROVE IeeeInv'
<1> USE DEF IeeeInv, Types
<1> DEFINE b == Head(pet.todo)
           c == [ctl EXCEPT !.data = b]
           p == [pet EXCEPT !.at = "dav"]
<1>1. b \in BusValues \ {Free} /\ b = pet.todo[1]
  BY DEF PetPut, PetTypes
<1>2. pet.at = "send" /\ pet.todo # <<>> /\ SetLines(c) /\ pet' = p /\ got' = got /\ dropped' = dropped
  BY DEF PetPut, Set, Goto, hist
<1> HIDE DEF b
<1>3. c \in CtlTypes /\ c.data = b /\ c.atn = ctl.atn /\ c.dav = ctl.dav /\ c.nrfd = ctl.nrfd /\ c.ndac = ctl.ndac
  BY <1>1 DEF CtlTypes
<1>4. /\ p \in PetTypes /\ p.at = "dav" /\ p.todo = pet.todo /\ p.next = pet.next /\ p.chan = pet.chan
      /\ p.sent = pet.sent /\ p.swapped = pet.swapped
  BY DEF PetTypes, PetAts
<1> HIDE DEF c, p
<1>5. Left(p) = Left(pet)
  BY <1>2, <1>4 DEF Left
<1>6. ctl' = c /\ ieee' = ieee /\ dos' = dos
  <2>1. ~ctl.atn \/ ieee.listener => Awaits(ieee) /\ c.dav
    BY <1>2, <1>3 DEF Answers, CtlShape
  <2>2. ctl.atn => ~ieee.talker
    BY <1>2 DEF Plan, WritePlan, DonePlan, ReadPlan, PetTypes, Reads
  <2>3. ieee.prevAtn = c.atn
    BY <1>3 DEF Answers
  <2> QED BY <1>2, <1>3, <2>1, <2>2, <2>3, LinesStay
<1>7. Types'
  BY <1>2, <1>3, <1>4, <1>6
<1>8. CtlShape(c, p)
  BY <1>1, <1>2, <1>3, <1>4 DEF CtlShape, Puts, Reads
<1>9. Answers(c, ieee, p)
  BY <1>2, <1>3, <1>4 DEF Answers
<1>10. Plan(c, ieee, dos, p, dropped)
  BY <1>2, <1>3, <1>4, <1>5, PlanStays DEF Sends, Puts
<1>11. Addressed(c, ieee, dos, p)
  BY <1>2, <1>3, <1>4, <1>5 DEF Addressed
<1>12. Arrives(c, dos, p)
  BY <1>2, <1>3, <1>4, <1>5 DEF Arrives
<1>13. Talks(c, ieee, p, got, dropped)
  BY <1>2, <1>3, <1>4 DEF Talks, Reads
<1>14. Bytes(ieee, dos, p, got, dropped)
  BY <1>2, <1>4, <1>5, BytesStay
<1> HIDE DEF Types
<1> QED BY <1>2, <1>6, <1>7, <1>8, <1>9, <1>10, <1>11, <1>12, <1>13, <1>14

LEMMA ClearsByte ==
  ASSUME IeeeInv, PetClear PROVE IeeeInv'
<1> USE DEF IeeeInv, Types
<1> DEFINE b == Free
           t == Tail(pet.todo)
           m == IF ctl.atn THEN Append(pet.sent, Head(pet.todo)) ELSE pet.sent
           c == [ctl EXCEPT !.data = b]
           p == [pet EXCEPT !.at = "send", !.todo = t, !.sent = m]
<1>1. /\ pet.at = "clear" /\ SetLines(c) /\ pet' = p /\ got' = got /\ dropped' = dropped
  BY DEF PetClear, Set, hist
<1>2. pet.todo # <<>> /\ b \in BusValues
  BY <1>1 DEF CtlShape, Puts, BusValues
<1>3. t \in Seq(BusValues \ {Free}) /\ Head(pet.todo) = pet.todo[1] /\ pet.todo[1] \in BusValues
  BY <1>2 DEF PetTypes
<1>4. m \in Seq(BusValues)
  <2>1. CASE ctl.atn
    BY <1>3, <2>1 DEF PetTypes
  <2>2. CASE ~ctl.atn
    BY <2>2 DEF PetTypes
  <2> QED BY <2>1, <2>2
<1>5. \A i \in 1 .. Len(t) : t[i] = pet.todo[i + 1] /\ i + 1 \in 1 .. Len(pet.todo)
  BY <1>2 DEF PetTypes
<1>6. m = IF ctl.atn THEN Append(pet.sent, pet.todo[1]) ELSE pet.sent
  BY <1>3
<1>0. b = Free /\ t = Tail(pet.todo)
  OBVIOUS
<1> HIDE DEF b, t, m
<1>7. c \in CtlTypes /\ c.data = b /\ c.atn = ctl.atn /\ c.dav = ctl.dav /\ c.nrfd = ctl.nrfd /\ c.ndac = ctl.ndac
  BY <1>2 DEF CtlTypes
<1>8. /\ p \in PetTypes /\ p.at = "send" /\ p.todo = t /\ p.next = pet.next /\ p.chan = pet.chan
      /\ p.sent = m /\ p.swapped = pet.swapped
  BY <1>3, <1>4 DEF PetTypes, PetAts
<1> HIDE DEF c, p
<1>9. Left(p) = Left(pet)
  BY <1>1, <1>8, <1>0 DEF Left
<1>10. ctl' = c /\ ieee' = ieee /\ dos' = dos
  <2>1. ~ctl.atn \/ ieee.listener => Awaits(ieee) /\ c.dav
    BY <1>1, <1>7 DEF Answers, CtlShape
  <2>2. ctl.atn => ~ieee.talker
    BY <1>1 DEF Plan, WritePlan, DonePlan, ReadPlan, PetTypes, Reads
  <2>3. ieee.prevAtn = c.atn
    BY <1>7 DEF Answers
  <2> QED BY <1>1, <1>7, <2>1, <2>2, <2>3, LinesStay
<1>11. Types'
  BY <1>1, <1>7, <1>8, <1>10
<1>12. CtlShape(c, p)
  BY <1>1, <1>7, <1>8, <1>0 DEF CtlShape, Puts, Reads
<1>13. Answers(c, ieee, p)
  BY <1>1, <1>7, <1>8 DEF Answers
<1>14. Plan(c, ieee, dos, p, dropped)
  <2>1. (\A i \in 1 .. Len(pet.todo) : pet.todo[i] \in AllBytes) => \A i \in 1 .. Len(t) : t[i] \in AllBytes
    BY <1>5
  <2>2. ~ctl.atn => m = pet.sent
    BY <1>6
  <2> QED BY <1>1, <1>7, <1>8, <1>9, <2>1, <2>2, PlanStays DEF Sends, Puts
<1>15. Addressed(c, ieee, dos, p)
  BY <1>1, <1>7, <1>8, <1>9 DEF Addressed
<1>16. Arrives(c, dos, p)
  BY <1>1, <1>6, <1>7, <1>8, <1>9 DEF Arrives
<1>17. Talks(c, ieee, p, got, dropped)
  BY <1>1, <1>7, <1>8 DEF Talks, Reads
<1>18. Bytes(ieee, dos, p, got, dropped)
  BY <1>1, <1>8, <1>9, BytesStay
<1> HIDE DEF Types
<1> QED BY <1>1, <1>10, <1>11, <1>12, <1>13, <1>14, <1>15, <1>16, <1>17, <1>18

\* The drive has taken the byte, or nobody listens any more.
LEMMA AcceptsByte ==
  ASSUME IeeeInv, PetAccepted PROVE IeeeInv'
<1> USE DEF IeeeInv, Types
<1> DEFINE c == [ctl EXCEPT !.dav = TRUE]
           p == [pet EXCEPT !.at = "clear"]
           d == IF ~ctl.atn \/ ieee.listener THEN Waits(ieee) ELSE ieee
<1>1. pet.at = "accepted" /\ SetLines(c) /\ pet' = p /\ got' = got /\ dropped' = dropped
  BY DEF PetAccepted, Set, Goto, hist
<1>2. c \in CtlTypes /\ c.data = ctl.data /\ c.atn = ctl.atn /\ c.dav /\ c.nrfd = ctl.nrfd /\ c.ndac = ctl.ndac
  BY DEF CtlTypes
<1>3. /\ p \in PetTypes /\ p.at = "clear" /\ p.todo = pet.todo /\ p.next = pet.next /\ p.chan = pet.chan
      /\ p.sent = pet.sent /\ p.swapped = pet.swapped
  BY DEF PetTypes, PetAts
<1>4. ~ctl.dav
  BY <1>1 DEF CtlShape
<1>5. c # ctl
  BY <1>2, <1>4
<1> HIDE DEF c, p
<1>6. Left(p) = Left(pet)
  BY <1>1, <1>3 DEF Left
<1>7. ieee.prevAtn = c.atn
  BY <1>2 DEF Answers
<1>8. /\ ctl' = c /\ ieee' = d /\ dos' = dos /\ d \in DriveTypes
      /\ d.listener = ieee.listener /\ d.talker = ieee.talker /\ d.ourListen = ieee.ourListen
      /\ d.ourTalk = ieee.ourTalk /\ d.pending = ieee.pending /\ d.pbyte = ieee.pbyte /\ d.pchan = ieee.pchan
      /\ d.prevAtn = ieee.prevAtn /\ d.tentative = ieee.tentative /\ d.onBus = ieee.onBus
      /\ (~ctl.atn \/ ieee.listener => Awaits(d))
  <2>1. CASE ~ctl.atn \/ ieee.listener
    <3>1. Took(ieee)
      BY <1>1, <2>1 DEF Answers
    <3>2. ~c.atn \/ ieee.listener
      BY <1>2, <2>1
    <3>3. /\ Step(c, Both(ieee, dos)) = Both(Waits(ieee), dos)
          /\ Waits(ieee) \in DriveTypes /\ Awaits(Waits(ieee))
          /\ \A f \in {"listener", "talker", "ourListen", "ourTalk", "pending", "pbyte", "plast", "pchan", "prevAtn",
                       "tentative", "onBus", "ended"} : Waits(ieee)[f] = ieee[f]
      BY <1>2, <1>7, <3>1, <3>2, DavRises
    <3>4. d = Waits(ieee)
      BY <2>1
    <3>5. ctl' = c /\ ieee' = d /\ dos' = dos
      BY <1>1, <1>5, <3>3, <3>4, LinesSet
    <3> HIDE DEF d
    <3> QED BY <3>3, <3>4, <3>5
  <2>2. CASE ~(~ctl.atn \/ ieee.listener)
    <3>1. ~ieee.talker
      BY <1>1, <2>2 DEF Plan, WritePlan, DonePlan, ReadPlan, PetTypes, Reads
    <3>2. ctl' = c /\ ieee' = ieee /\ dos' = dos
      BY <1>1, <1>2, <1>7, <2>2, <3>1, LinesStay
    <3> QED BY <2>2, <3>2
  <2> QED BY <2>1, <2>2
<1> HIDE DEF d
<1>11. Types'
  BY <1>1, <1>2, <1>3, <1>8
<1>12. CtlShape(c, p)
  BY <1>1, <1>2, <1>3 DEF CtlShape, Puts, Reads
<1>13. Answers(c, d, p)
  BY <1>1, <1>2, <1>3, <1>8 DEF Answers
<1>14. Plan(c, d, dos, p, dropped)
  <2>1. Plan(c, ieee, dos, p, dropped)
    BY <1>1, <1>2, <1>3, <1>6, PlanStays DEF Sends, Puts
  <2> QED BY <1>8, <2>1 DEF Plan, WritePlan, DonePlan, ReadPlan, Quiet
<1>15. Addressed(c, d, dos, p)
  BY <1>1, <1>2, <1>3, <1>6, <1>8 DEF Addressed
<1>16. Arrives(c, dos, p)
  BY <1>1, <1>2, <1>3, <1>6 DEF Arrives
<1>17. Talks(c, d, p, got, dropped)
  BY <1>1, <1>2, <1>3, <1>8 DEF Talks, Reads
<1>18. Bytes(d, dos, p, got, dropped)
  BY <1>1, <1>3, <1>6, <1>8, BytesStay
<1> HIDE DEF Types
<1> QED BY <1>1, <1>8, <1>11, <1>12, <1>13, <1>14, <1>15, <1>16, <1>17, <1>18

\* The computer stops writing to a drive that does not answer.
LEMMA GivesUp ==
  ASSUME IeeeInv, PetGivesUp PROVE IeeeInv'
<1> USE DEF IeeeInv, Types
<1> DEFINE b == Free
           e == <<>>
           c == [ctl EXCEPT !.dav = TRUE, !.data = b]
           p == [pet EXCEPT !.at = "send", !.todo = e]
<1>1. /\ ctl.atn /\ SetLines(c) /\ pet' = p /\ got' = got /\ dropped' = dropped
      /\ (pet.at = "accepted" /\ ~(ctl.ndac /\ ieee.ndac)) \/ (pet.at = "send" /\ ~(ctl.nrfd /\ ieee.nrfd))
  BY DEF PetGivesUp, hist, Level
<1>2. b \in BusValues /\ e \in Seq(BusValues \ {Free}) /\ Len(e) = 0 /\ b = Free /\ e = <<>>
  BY DEF BusValues
<1> HIDE DEF b, e
<1>3. c \in CtlTypes /\ c.data = b /\ c.atn = ctl.atn /\ c.dav /\ c.nrfd = ctl.nrfd /\ c.ndac = ctl.ndac
  BY <1>2 DEF CtlTypes
<1>4. /\ p \in PetTypes /\ p.at = "send" /\ p.todo = e /\ p.next = pet.next /\ p.chan = pet.chan
      /\ p.sent = pet.sent /\ p.swapped = pet.swapped
  BY <1>2 DEF PetTypes, PetAts
<1> HIDE DEF c, p
<1>5. ~ieee.listener /\ ~ieee.talker /\ pet.next = "write" /\ pet.at # "idle"
  <2>1. ctl.ndac /\ ctl.nrfd
    BY <1>1 DEF CtlShape, Puts
  <2>2. ~ieee.listener
    <3>1. CASE pet.at = "accepted"
      BY <1>1, <2>1, <3>1 DEF Answers, Took
    <3>2. CASE pet.at = "send"
      BY <1>1, <2>1, <3>2 DEF Answers, Awaits
    <3> QED BY <1>1, <3>1, <3>2
  <2>3. pet.next = "write" /\ ~ieee.talker
    BY <1>1 DEF Plan, WritePlan, DonePlan, ReadPlan, PetTypes, Reads
  <2> QED BY <1>1, <2>2, <2>3
<1>6. ctl' = c /\ ieee' = ieee /\ dos' = dos
  BY <1>1, <1>3, <1>5, LinesStay DEF Answers
<1>7. Left(p) = e
  BY <1>4 DEF Left
<1>8. pet.swapped
  BY <1>1, <1>5 DEF Addressed
<1>9. Types'
  BY <1>1, <1>3, <1>4, <1>6
<1>10. CtlShape(c, p)
  BY <1>1, <1>2, <1>3, <1>4 DEF CtlShape, Puts, Reads
<1>11. Answers(c, ieee, p)
  BY <1>1, <1>3, <1>4, <1>5 DEF Answers
<1>12. Plan(c, ieee, dos, p, dropped)
  BY <1>1, <1>2, <1>3, <1>4, <1>5, <1>7 DEF Plan, WritePlan, Reads
<1>13. Addressed(c, ieee, dos, p)
  BY <1>4, <1>8 DEF Addressed
<1>14. Arrives(c, dos, p)
  BY <1>4, <1>8 DEF Arrives
<1>15. Talks(c, ieee, p, got, dropped)
  BY <1>1, <1>3, <1>4 DEF Talks, Reads
<1>16. Bytes(ieee, dos, p, got, dropped)
  <2>1. ~ieee.pending
    BY <1>1, <1>5 DEF Plan, WritePlan
  <2>2. \A k : ~Due(p, k)
    BY <1>2, <1>7 DEF Due
  <2>3. \A k : ~Opens(p, k) /\ ~Opens(pet, k)
    <3>1. ASSUME NEW k PROVE ~Opens(pet, k)
      <4>1. \A i \in 1 .. Len(pet.todo) : pet.todo[i] \in AllBytes
        BY <1>1, <1>5 DEF Plan, WritePlan
      <4>2. \A i \in 1 .. Len(Left(pet)) : Left(pet)[i] \in AllBytes
        <5>1. CASE pet.at = "accepted"
          <6> DEFINE t == Tail(pet.todo)
          <6>1. \A i \in 1 .. Len(t) : t[i] = pet.todo[i + 1] /\ i + 1 \in 1 .. Len(pet.todo)
            BY <5>1 DEF PetTypes, CtlShape, Puts
          <6>2. Left(pet) = t
            BY <5>1 DEF Left
          <6> HIDE DEF t
          <6> QED BY <4>1, <6>1, <6>2
        <5>2. CASE pet.at = "send"
          BY <4>1, <5>2 DEF Left
        <5> QED BY <1>1, <5>1, <5>2
      <4> QED BY <4>2 DEF Opens, Due, AllBytes, Byte, Secondary
    <3> QED BY <2>2, <3>1 DEF Opens
  <2>4. \A k : FileBytes(ieee, dos, pet, got, k) => FileBytes(ieee, dos, p, got, k)
    BY <2>3 DEF FileBytes
  <2>5. Left(p) # <<Secondary("open", p.chan)>>
    <3>1. Len(<<Secondary("open", p.chan)>>) = 1
      OBVIOUS
    <3> QED BY <1>2, <1>7, <3>1
  <2> QED BY <1>4, <2>1, <2>2, <2>3, <2>4, <2>5 DEF Bytes
<1> HIDE DEF Types
<1> QED BY <1>1, <1>6, <1>9, <1>10, <1>11, <1>12, <1>13, <1>14, <1>15, <1>16
-----------------------------------------------------------------------------
(***************************************************************************)
(* ATN goes low: a transfer, UNLISTEN or UNTALK starts.                    *)
(***************************************************************************)
SameState(d, e) ==
  /\ e.listener = d.listener /\ e.talker = d.talker /\ e.ourListen = d.ourListen /\ e.ourTalk = d.ourTalk
  /\ e.pending = d.pending /\ e.pbyte = d.pbyte /\ e.pchan = d.pchan

LEMMA AtnDown ==
  ASSUME Types, ieee.prevAtn, ctl.atn, ctl.dav, Set("atn", FALSE)
  PROVE  /\ ctl' \in CtlTypes /\ ~ctl'.atn /\ ctl'.dav = ctl.dav /\ ctl'.nrfd = ctl.nrfd /\ ctl'.ndac = ctl.ndac
         /\ ctl'.data = ctl.data
         /\ ieee' \in DriveTypes /\ Awaits(ieee') /\ ~ieee'.prevAtn /\ ~ieee'.tentative /\ ~ieee'.onBus
         /\ SameState(ieee, ieee') /\ dos' = dos
<1> DEFINE c == [ctl EXCEPT !.atn = FALSE]
           d == Low(ieee)
<1>1. /\ c \in CtlTypes /\ ~c.atn /\ c.dav = ctl.dav /\ c.nrfd = ctl.nrfd /\ c.ndac = ctl.ndac /\ c.data = ctl.data
      /\ c # ctl /\ SetLines(c)
  BY DEF Types, CtlTypes, Set
<1> HIDE DEF c
<1>2. Step(c, Both(ieee, dos)) = Both(d, dos)
  BY <1>1, AtnFalls DEF Types
<1>3. ctl' = c /\ ieee' = d /\ dos' = dos
  BY <1>1, <1>2, LinesSet
<1>4. /\ d \in DriveTypes /\ Awaits(d) /\ ~d.prevAtn /\ ~d.tentative /\ ~d.onBus
      /\ \A f \in {"listener", "talker", "ourListen", "ourTalk", "pending", "pbyte", "plast", "pchan"} : d[f] = ieee[f]
  BY LowTypes DEF Types
<1> HIDE DEF d
<1>5. SameState(ieee, d)
  BY <1>4 DEF SameState
<1> QED BY <1>1, <1>3, <1>4, <1>5

LEMMA Starts ==
  ASSUME IeeeInv, NEW cmds \in Seq(BusValues \ {Free}), NEW next \in {"write", "read", "done"}, NEW k \in DosChannels,
         NEW n \in Int, Transfer(cmds, next, k, n), Len(cmds) >= 2
  PROVE  /\ ctl' \in CtlTypes /\ ~ctl'.atn /\ ieee' \in DriveTypes /\ SameState(ieee, ieee') /\ dos' = dos
         /\ pet' \in PetTypes /\ Left(pet') = cmds /\ pet'.next = next /\ pet'.chan = k /\ pet'.sent = <<>>
         /\ pet'.at = "send" /\ pet.at = "idle"
         /\ CtlShape(ctl', pet') /\ Answers(ctl', ieee', pet') /\ Addressed(ctl', ieee', dos', pet')
         /\ Arrives(ctl', dos', pet') /\ \A g, lost : Talks(ctl', ieee', pet', g, lost)
         /\ ~ieee.listener /\ ~ieee.talker /\ ~dos.listening /\ ~dos.talking /\ ~dos.opening /\ \A b : ~Due(pet, b)
<1> USE DEF IeeeInv, Types
<1> DEFINE e == <<>>
           p == [at |-> "send", todo |-> cmds, next |-> next, left |-> n, sent |-> e, chan |-> k, swapped |-> FALSE]
<1>1. pet.at = "idle" /\ Set("atn", FALSE) /\ pet' = p
  BY DEF Transfer, PetIdle
<1>2. e \in Seq(BusValues) /\ e = <<>>
  OBVIOUS
<1> HIDE DEF e
<1>3. p \in PetTypes
  BY <1>2 DEF PetTypes, PetAts
<1>4. /\ p.at = "send" /\ p.todo = cmds /\ p.next = next /\ p.chan = k /\ p.sent = e /\ p.swapped = FALSE
  OBVIOUS
<1> HIDE DEF p
<1>5. Left(p) = cmds
  BY <1>4 DEF Left
<1>6. ieee.prevAtn /\ ctl.atn /\ ctl.dav /\ ctl.nrfd /\ ctl.ndac /\ ctl.data = Free
  BY <1>1 DEF Answers, CtlShape, Puts, Reads
<1>7. /\ ctl' \in CtlTypes /\ ~ctl'.atn /\ ctl'.dav = ctl.dav /\ ctl'.nrfd = ctl.nrfd /\ ctl'.ndac = ctl.ndac
      /\ ctl'.data = ctl.data
      /\ ieee' \in DriveTypes /\ Awaits(ieee') /\ ~ieee'.prevAtn /\ ~ieee'.tentative /\ ~ieee'.onBus
      /\ SameState(ieee, ieee') /\ dos' = dos
  BY <1>1, <1>6, AtnDown
<1>8. CtlShape(ctl', p)
  BY <1>4, <1>6, <1>7 DEF CtlShape, Puts, Reads
<1>9. Answers(ctl', ieee', p)
  BY <1>4, <1>7 DEF Answers, DriveTypes, CtlTypes
<1>10. Addressed(ctl', ieee', dos', p)
  BY <1>5, <1>7 DEF Addressed
<1>11. Arrives(ctl', dos', p)
  BY <1>5, <1>7 DEF Arrives
<1>12. \A g, lost : Talks(ctl', ieee', p, g, lost)
  BY <1>4, <1>7 DEF Talks, Reads
<1>13. /\ ~ieee.listener /\ ~ieee.talker /\ ~dos.listening /\ ~dos.talking /\ ~dos.opening
  BY <1>1 DEF Plan, Quiet
<1>14. \A b : ~Due(pet, b)
  BY <1>1 DEF Plan, Due, Left
<1> QED BY <1>1, <1>2, <1>3, <1>4, <1>5, <1>7, <1>8, <1>9, <1>10, <1>11, <1>12, <1>13, <1>14

LEMMA Bus ==
  /\ L8 \in BusValues \ {Free} /\ T8 \in BusValues \ {Free} /\ UL \in BusValues \ {Free} /\ UT \in BusValues \ {Free}
  /\ \A b \in Others : b \in BusValues \ {Free}
  /\ \A k \in SecondaryKinds, c \in DosChannels : Secondary(k, c) \in BusValues \ {Free}
  /\ \A k \in SecondaryKinds : \A c : Secondary(k, c) \notin {L8, T8, UL, UT, Free}
  /\ \A k \in SecondaryKinds : \A c : \A b \in Others : Secondary(k, c) # b
  /\ \A j, k, b, c : Secondary(j, b) = Secondary(k, c) => j = k /\ b = c
<1>1. L8 \in Commands /\ T8 \in Commands /\ UL \in Commands /\ UT \in Commands /\ \A b \in Others : b \in Commands
  BY DEF L8, T8, UL, UT, Others, Commands
<1>2. L8 # Free /\ T8 # Free /\ UL # Free /\ UT # Free /\ \A b \in Others : b # Free
  BY DEF L8, T8, UL, UT, Others, Free
<1>3. \A k \in SecondaryKinds, c \in DosChannels : Secondary(k, c) \in Secondaries
  BY DEF Secondaries
<1>4. \A k \in SecondaryKinds : \A c : Secondary(k, c) # Free
  BY DEF Secondary, SecondaryKinds, Free
<1>5. \A k \in SecondaryKinds : \A c : Secondary(k, c) \notin {L8, T8, UL, UT}
  BY DEF L8, T8, UL, UT, Secondary, SecondaryKinds
<1>6. \A k \in SecondaryKinds : \A c : \A b \in Others : Secondary(k, c) # b
  BY DEF Others, Secondary, SecondaryKinds
<1>7. \A j, k, b, c : Secondary(j, b) = Secondary(k, c) => j = k /\ b = c
  BY DEF Secondary
<1> QED BY <1>1, <1>2, <1>3, <1>4, <1>5, <1>6, <1>7 DEF BusValues

LEMMA Opening ==
  ASSUME IeeeInv, NEW k \in DosChannels, PetOpen(k) PROVE IeeeInv'
<1> USE DEF IeeeInv
<1> DEFINE b == Secondary("open", k)
           cmds == <<L8, b>>
<1>1. /\ Transfer(cmds, "write", k, 1)
      /\ got' = [got EXCEPT ![k] = <<>>] /\ dropped' = (dropped \cup Forgotten) \ {k}
  BY DEF PetOpen, L8
<1>2. b \in BusValues \ {Free} /\ b = Secondary("open", k) /\ b # L8 /\ b # Secondary("close", k)
  BY Bus DEF SecondaryKinds
<1> HIDE DEF b
<1>3. cmds \in Seq(BusValues \ {Free}) /\ Len(cmds) = 2 /\ cmds[1] = L8 /\ cmds[2] = b
  BY <1>2, Bus
<1> HIDE DEF cmds
<1>4. /\ ctl' \in CtlTypes /\ ~ctl'.atn /\ ieee' \in DriveTypes /\ SameState(ieee, ieee') /\ dos' = dos
      /\ pet' \in PetTypes /\ Left(pet') = cmds /\ pet'.next = "write" /\ pet'.chan = k /\ pet'.sent = <<>>
      /\ pet'.at = "send" /\ pet.at = "idle"
      /\ CtlShape(ctl', pet') /\ Answers(ctl', ieee', pet') /\ Addressed(ctl', ieee', dos', pet')
      /\ Arrives(ctl', dos', pet') /\ \A g, lost : Talks(ctl', ieee', pet', g, lost)
      /\ ~ieee.listener /\ ~ieee.talker /\ ~dos.listening /\ ~dos.talking /\ ~dos.opening /\ \A x : ~Due(pet, x)
  BY <1>1, <1>3, Starts
<1>5. \A x : Due(pet', x) <=> (x = L8 \/ x = b)
  <2>1. \A x : Due(pet', x) <=> \E i \in 1 .. 2 : cmds[i] = x
    BY <1>3, <1>4 DEF Due
  <2>2. \A i \in 1 .. 2 : i = 1 \/ i = 2
    OBVIOUS
  <2>3. 1 \in 1 .. 2 /\ 2 \in 1 .. 2
    OBVIOUS
  <2> QED BY <1>3, <2>1, <2>2, <2>3
<1>6. \A c : Opens(pet', c) <=> c = k
  BY <1>2, <1>5, Bus DEF Opens, SecondaryKinds
<1>7. got' \in [DosChannels -> Seq(BusValues)] /\ got'[k] = <<>> /\ \A c \in DosChannels : c # k => got'[c] = got[c]
  BY <1>1 DEF Types
<1>8. dropped' \subseteq DosChannels
  BY <1>1 DEF Types, Bytes, Forgotten
<1>9. Types'
  BY <1>4, <1>7, <1>8 DEF Types
<1>10. Plan(ctl', ieee', dos', pet', dropped')
  <2>1. Left(pet') = <<L8, Secondary("open", pet'.chan)>>
    BY <1>2, <1>4 DEF cmds
  <2> QED BY <1>4, <2>1 DEF Plan, WritePlan, SameState, Quiet, Reads
<1>11. Bytes(ieee', dos', pet', got', dropped')
  <2>1. ASSUME NEW c \in DosChannels \ dropped' PROVE FileBytes(ieee', dos', pet', got', c)
    <3>1. CASE c = k
      <4>1. got'[c] = [i \in 1 .. Len(got'[c]) |-> Byte(i)]
        BY <1>7, <3>1
      <4> QED BY <1>6, <3>1, <4>1 DEF FileBytes
    <3>2. CASE c # k
      <4>1. c \in DosChannels \ dropped /\ ~(ieee.pending /\ ieee.pchan = c)
        BY <1>1, <2>1, <3>2 DEF Forgotten
      <4>2. FileBytes(ieee, dos, pet, got, c)
        BY <4>1 DEF Bytes
      <4>3. got'[c] = got[c] /\ ~Opens(pet, c)
        BY <1>4, <1>7, <3>2 DEF Opens
      <4> QED BY <1>4, <4>1, <4>2, <4>3 DEF FileBytes, Keeps, SameState
    <3> QED BY <3>1, <3>2
  <2>2. ieee'.pending => ieee'.pchan \in DosChannels /\ (ieee'.pchan \in dropped' \/ Opens(pet', ieee'.pchan))
    BY <1>1, <1>4, <1>6 DEF SameState, Bytes, Forgotten
  <2>3. Left(pet') # <<Secondary("open", pet'.chan)>>
    <3>1. Len(<<Secondary("open", pet'.chan)>>) = 1
      OBVIOUS
    <3> QED BY <1>3, <1>4, <3>1
  <2>4. ~Due(pet', Secondary("close", pet'.chan))
    BY <1>2, <1>4, <1>5, Bus DEF SecondaryKinds
  <2> QED BY <1>4, <1>6, <1>7, <2>1, <2>2, <2>3, <2>4 DEF Bytes
<1> QED BY <1>4, <1>9, <1>10, <1>11

LEMMA StartsNoOpen ==
  ASSUME IeeeInv, NEW cmds \in Seq(BusValues \ {Free}), NEW next \in {"write", "read", "done"}, NEW k \in DosChannels,
         NEW n \in Int, Transfer(cmds, next, k, n), Len(cmds) >= 2,
         \A c : \A i \in 1 .. Len(cmds) : cmds[i] # Secondary("open", c),
         got' = got, dropped \subseteq dropped', dropped' \subseteq dropped \cup Forgotten,
         (next = "write" \/ \E i \in 1 .. Len(cmds) : cmds[i] = Secondary("close", k)) => Forgotten \subseteq dropped'
  PROVE  /\ ~ctl'.atn /\ SameState(ieee, ieee') /\ dos' = dos
         /\ Left(pet') = cmds /\ pet'.next = next /\ pet'.chan = k /\ pet'.sent = <<>> /\ pet'.at = "send"
         /\ ~ieee.listener /\ ~ieee.talker /\ ~dos.listening /\ ~dos.talking /\ ~dos.opening
         /\ Plan(ctl', ieee', dos', pet', dropped') => IeeeInv'
<1> USE DEF IeeeInv
<1>1. /\ ctl' \in CtlTypes /\ ~ctl'.atn /\ ieee' \in DriveTypes /\ SameState(ieee, ieee') /\ dos' = dos
      /\ pet' \in PetTypes /\ Left(pet') = cmds /\ pet'.next = next /\ pet'.chan = k /\ pet'.sent = <<>>
      /\ pet'.at = "send" /\ pet.at = "idle"
      /\ CtlShape(ctl', pet') /\ Answers(ctl', ieee', pet') /\ Addressed(ctl', ieee', dos', pet')
      /\ Arrives(ctl', dos', pet') /\ \A g, lost : Talks(ctl', ieee', pet', g, lost)
      /\ ~ieee.listener /\ ~ieee.talker /\ ~dos.listening /\ ~dos.talking /\ ~dos.opening /\ \A x : ~Due(pet, x)
  BY Starts
<1>2. \A c : ~Opens(pet', c) /\ ~Opens(pet, c)
  BY <1>1 DEF Opens, Due
<1>3. Types'
  <2>1. dropped' \subseteq DosChannels
    BY DEF Types, Bytes, Forgotten
  <2> QED BY <1>1, <2>1 DEF Types
<1>4. Bytes(ieee', dos', pet', got', dropped')
  <2>1. ASSUME NEW c \in DosChannels \ dropped' PROVE FileBytes(ieee', dos', pet', got', c)
    <3>1. FileBytes(ieee, dos, pet, got, c)
      BY <2>1 DEF Bytes
    <3> QED BY <1>1, <1>2, <3>1 DEF FileBytes, Keeps, SameState
  <2>2. Left(pet') # <<Secondary("open", pet'.chan)>>
    <3>1. Len(<<Secondary("open", pet'.chan)>>) = 1
      OBVIOUS
    <3> QED BY <1>1, <3>1
  <2>3. ieee'.pending => ieee'.pchan \in DosChannels /\ ieee.pchan \in Forgotten /\ ieee'.pchan = ieee.pchan
    BY <1>1 DEF SameState, Bytes, Forgotten
  <2>4. Due(pet', Secondary("close", pet'.chan)) => \E i \in 1 .. Len(cmds) : cmds[i] = Secondary("close", k)
    BY <1>1 DEF Due
  <2> QED BY <1>1, <1>2, <2>1, <2>2, <2>3, <2>4 DEF Bytes
<1> QED BY <1>1, <1>3, <1>4

\* Two bytes under ATN, and three.
LEMMA Pair ==
  ASSUME NEW S, NEW a \in S, NEW b \in S
  PROVE  <<a, b>> \in Seq(S) /\ Len(<<a, b>>) = 2 /\ \A i \in 1 .. 2 : <<a, b>>[i] = IF i = 1 THEN a ELSE b
OBVIOUS

LEMMA Triple ==
  ASSUME NEW S, NEW a \in S, NEW b \in S, NEW c \in S
  PROVE  /\ <<a, b, c>> \in Seq(S) /\ Len(<<a, b, c>>) = 3
         /\ \A i \in 1 .. 3 : <<a, b, c>>[i] = IF i = 1 THEN a ELSE IF i = 2 THEN b ELSE c
OBVIOUS

LEMMA Writing ==
  ASSUME IeeeInv, NEW k \in DosChannels, NEW n \in Nat, PetWrite(k, n) PROVE IeeeInv'
<1> DEFINE b == Secondary("data", k)
           cmds == <<L8, b>>
<1>1. Transfer(cmds, "write", k, n) /\ got' = got /\ dropped' = dropped \cup Forgotten
  BY DEF PetWrite, L8
<1>2. cmds \in Seq(BusValues \ {Free}) /\ Len(cmds) = 2 /\ \A i \in 1 .. 2 : cmds[i] = IF i = 1 THEN L8 ELSE b
  <2>1. b \in BusValues \ {Free} /\ L8 \in BusValues \ {Free}
    BY Bus DEF SecondaryKinds
  <2> HIDE DEF b
  <2> QED BY <2>1, Pair
<1>3. \A c : b # Secondary("open", c) /\ L8 # Secondary("open", c)
  BY Bus DEF SecondaryKinds
<1>0. cmds = <<L8, Secondary("data", k)>>
  OBVIOUS
<1> HIDE DEF cmds, b
<1>4. /\ ~ctl'.atn /\ SameState(ieee, ieee') /\ dos' = dos
      /\ Left(pet') = cmds /\ pet'.next = "write" /\ pet'.chan = k /\ pet'.sent = <<>> /\ pet'.at = "send"
      /\ ~ieee.listener /\ ~ieee.talker /\ ~dos.listening /\ ~dos.talking /\ ~dos.opening
      /\ Plan(ctl', ieee', dos', pet', dropped') => IeeeInv'
  <2>1. \A c : \A i \in 1 .. Len(cmds) : cmds[i] # Secondary("open", c)
    BY <1>2, <1>3
  <2>3. /\ dropped \subseteq dropped' /\ dropped' \subseteq dropped \cup Forgotten
        /\ ("write" = "write" \/ \E i \in 1 .. Len(cmds) : cmds[i] = Secondary("close", k)) => Forgotten \subseteq dropped'
    BY <1>1
  <2>4. n \in Int /\ Len(cmds) >= 2 /\ "write" \in {"write", "read", "done"}
    BY <1>2
  <2> QED BY <1>1, <1>2, <2>1, <2>3, <2>4, StartsNoOpen
<1>5. Plan(ctl', ieee', dos', pet', dropped')
  BY <1>4, <1>0 DEF Plan, WritePlan, SameState, Quiet, Reads
<1> QED BY <1>4, <1>5

LEMMA Closing ==
  ASSUME IeeeInv, NEW k \in DosChannels, PetClose(k) PROVE IeeeInv'
<1> DEFINE b == Secondary("close", k)
           cmds == <<L8, b, UL>>
<1>1. Transfer(cmds, "done", k, 0) /\ got' = got /\ dropped' = dropped \cup Forgotten
  BY DEF PetClose, L8, UL
<1>2. /\ cmds \in Seq(BusValues \ {Free}) /\ Len(cmds) = 3
      /\ \A i \in 1 .. 3 : cmds[i] = IF i = 1 THEN L8 ELSE IF i = 2 THEN b ELSE UL
  <2>1. b \in BusValues \ {Free} /\ L8 \in BusValues \ {Free} /\ UL \in BusValues \ {Free}
    BY Bus DEF SecondaryKinds
  <2> HIDE DEF b
  <2> QED BY <2>1, Triple
<1>3. \A c : b # Secondary("open", c) /\ L8 # Secondary("open", c) /\ UL # Secondary("open", c)
  <2>1. \A c : b # Secondary("open", c)
    BY Bus
  <2>2. \A c : Secondary("open", c) \notin {L8, T8, UL, UT, Free}
    BY Bus DEF SecondaryKinds
  <2> QED BY <2>1, <2>2
<1>0. cmds = <<L8, Secondary("close", k), UL>>
  OBVIOUS
<1> HIDE DEF cmds, b
<1>4. /\ ~ctl'.atn /\ SameState(ieee, ieee') /\ dos' = dos
      /\ Left(pet') = cmds /\ pet'.next = "done" /\ pet'.chan = k /\ pet'.sent = <<>> /\ pet'.at = "send"
      /\ ~ieee.listener /\ ~ieee.talker /\ ~dos.listening /\ ~dos.talking /\ ~dos.opening
      /\ Plan(ctl', ieee', dos', pet', dropped') => IeeeInv'
  <2>1. \A c : \A i \in 1 .. Len(cmds) : cmds[i] # Secondary("open", c)
    BY <1>2, <1>3
  <2>3. /\ dropped \subseteq dropped' /\ dropped' \subseteq dropped \cup Forgotten
        /\ ("done" = "write" \/ \E i \in 1 .. Len(cmds) : cmds[i] = Secondary("close", k)) => Forgotten \subseteq dropped'
    BY <1>1
  <2>4. 0 \in Int /\ Len(cmds) >= 2 /\ "done" \in {"write", "read", "done"}
    BY <1>2
  <2> QED BY <1>1, <1>2, <2>1, <2>3, <2>4, StartsNoOpen
<1>5. Plan(ctl', ieee', dos', pet', dropped')
  BY <1>4, <1>0 DEF Plan, DonePlan, SameState, Quiet, Reads
<1> QED BY <1>4, <1>5

LEMMA Reading ==
  ASSUME IeeeInv, NEW k \in DosChannels, NEW n \in Nat, PetRead(k, n) PROVE IeeeInv'
<1> DEFINE b == Secondary("data", k)
           cmds == <<T8, b>>
<1>1. Transfer(cmds, "read", k, n) /\ got' = got /\ dropped' = dropped \cup (Forgotten \ {k})
  BY DEF PetRead, T8
<1>2. cmds \in Seq(BusValues \ {Free}) /\ Len(cmds) = 2 /\ \A i \in 1 .. 2 : cmds[i] = IF i = 1 THEN T8 ELSE b
  <2>1. b \in BusValues \ {Free} /\ T8 \in BusValues \ {Free}
    BY Bus DEF SecondaryKinds
  <2> HIDE DEF b
  <2> QED BY <2>1, Pair
<1>3. \A c : b # Secondary("open", c) /\ T8 # Secondary("open", c)
  BY Bus DEF SecondaryKinds
<1>4. b # Secondary("close", k) /\ T8 # Secondary("close", k)
  BY Bus DEF SecondaryKinds
<1>0. cmds = <<T8, Secondary("data", k)>>
  OBVIOUS
<1> HIDE DEF cmds, b
<1>5. /\ ~ctl'.atn /\ SameState(ieee, ieee') /\ dos' = dos
      /\ Left(pet') = cmds /\ pet'.next = "read" /\ pet'.chan = k /\ pet'.sent = <<>> /\ pet'.at = "send"
      /\ ~ieee.listener /\ ~ieee.talker /\ ~dos.listening /\ ~dos.talking /\ ~dos.opening
      /\ Plan(ctl', ieee', dos', pet', dropped') => IeeeInv'
  <2>1. \A c : \A i \in 1 .. Len(cmds) : cmds[i] # Secondary("open", c)
    BY <1>2, <1>3
  <2>2. \A i \in 1 .. Len(cmds) : cmds[i] # Secondary("close", k)
    BY <1>2, <1>4
  <2>3. /\ dropped \subseteq dropped' /\ dropped' \subseteq dropped \cup Forgotten
        /\ ("read" = "write" \/ \E i \in 1 .. Len(cmds) : cmds[i] = Secondary("close", k)) => Forgotten \subseteq dropped'
    BY <1>1, <2>2
  <2>4. n \in Int /\ Len(cmds) >= 2 /\ "read" \in {"write", "read", "done"}
    BY <1>2
  <2> QED BY <1>1, <1>2, <2>1, <2>3, <2>4, StartsNoOpen
<1>6. ieee'.pending => ieee'.pchan = k \/ ieee'.pchan \in dropped'
  BY <1>1, <1>5 DEF SameState, Forgotten
<1>7. Plan(ctl', ieee', dos', pet', dropped')
  BY <1>5, <1>6, <1>0 DEF Plan, ReadPlan, SameState, Quiet, Reads
<1> QED BY <1>5, <1>7

LEMMA CallingOther ==
  ASSUME IeeeInv, NEW k \in DosChannels, NEW a, PetOther(a, k) PROVE IeeeInv'
<1> DEFINE b == Secondary("data", k)
           cmds == <<a, b>>
<1>1. Transfer(cmds, "done", k, 0) /\ got' = got /\ dropped' = dropped /\ a \in Others
  BY DEF PetOther, Others
<1>2. cmds \in Seq(BusValues \ {Free}) /\ Len(cmds) = 2 /\ \A i \in 1 .. 2 : cmds[i] = IF i = 1 THEN a ELSE b
  <2>1. b \in BusValues \ {Free} /\ a \in BusValues \ {Free}
    BY <1>1, Bus DEF SecondaryKinds
  <2> HIDE DEF b
  <2> QED BY <2>1, Pair
<1>3. \A c : b # Secondary("open", c) /\ a # Secondary("open", c)
  BY <1>1, Bus DEF SecondaryKinds
<1>4. b # Secondary("close", k) /\ a # Secondary("close", k)
  BY <1>1, Bus DEF SecondaryKinds
<1>0. cmds = <<a, Secondary("data", k)>>
  OBVIOUS
<1> HIDE DEF cmds, b
<1>5. /\ ~ctl'.atn /\ SameState(ieee, ieee') /\ dos' = dos
      /\ Left(pet') = cmds /\ pet'.next = "done" /\ pet'.chan = k /\ pet'.sent = <<>> /\ pet'.at = "send"
      /\ ~ieee.listener /\ ~ieee.talker /\ ~dos.listening /\ ~dos.talking /\ ~dos.opening
      /\ Plan(ctl', ieee', dos', pet', dropped') => IeeeInv'
  <2>1. \A c : \A i \in 1 .. Len(cmds) : cmds[i] # Secondary("open", c)
    BY <1>2, <1>3
  <2>2. \A i \in 1 .. Len(cmds) : cmds[i] # Secondary("close", k)
    BY <1>2, <1>4
  <2>3. /\ dropped \subseteq dropped' /\ dropped' \subseteq dropped \cup Forgotten
        /\ ("done" = "write" \/ \E i \in 1 .. Len(cmds) : cmds[i] = Secondary("close", k)) => Forgotten \subseteq dropped'
    BY <1>1, <2>2
  <2>4. 0 \in Int /\ Len(cmds) >= 2 /\ "done" \in {"write", "read", "done"}
    BY <1>2
  <2> QED BY <1>1, <1>2, <2>1, <2>3, <2>4, StartsNoOpen
<1>6. Plan(ctl', ieee', dos', pet', dropped')
  BY <1>1, <1>5, <1>0 DEF Plan, DonePlan, SameState, Quiet, Reads
<1> QED BY <1>5, <1>6

LEMMA Alone ==
  ASSUME NEW S, NEW a \in S
  PROVE  <<a>> \in Seq(S) /\ Len(<<a>>) = 1 /\ <<a>>[1] = a /\ <<a>> # <<>>
OBVIOUS

\* One more command ends the transfer.
LEMMA EndsTransfer ==
  ASSUME IeeeInv, NEW b \in BusValues \ {Free}, Set("atn", FALSE), ctl.atn, ctl.dav, ctl.nrfd, ctl.ndac, ctl.data = Free,
         b \notin Secondaries, pet' \in PetTypes, pet'.at = "send", pet'.todo = <<b>>, pet'.next = "done",
         pet'.chan = pet.chan, pet.at # "idle", \A k : ~Due(pet, k),
         got' = got, dropped' = dropped,
         \/ b = UL /\ ~ieee.talker /\ ~ieee.pending
         \/ b = UT /\ ~ieee.listener
  PROVE  IeeeInv'
<1> USE DEF IeeeInv
<1>1. ieee.prevAtn
  BY DEF Answers
<1>2. /\ ctl' \in CtlTypes /\ ~ctl'.atn /\ ctl'.dav = ctl.dav /\ ctl'.nrfd = ctl.nrfd /\ ctl'.ndac = ctl.ndac
      /\ ctl'.data = ctl.data
      /\ ieee' \in DriveTypes /\ Awaits(ieee') /\ ~ieee'.prevAtn /\ ~ieee'.tentative /\ ~ieee'.onBus
      /\ SameState(ieee, ieee') /\ dos' = dos
  BY <1>1, AtnDown
<1>3. Left(pet') = <<b>>
  BY DEF Left
<1>4. \A k : Due(pet', k) <=> k = b
  <2>1. Len(<<b>>) = 1 /\ <<b>>[1] = b
    BY Alone
  <2>2. \A k : Due(pet', k) <=> \E i \in 1 .. 1 : <<b>>[i] = k
    BY <1>3, <2>1 DEF Due
  <2>3. \A i \in 1 .. 1 : i = 1
    OBVIOUS
  <2>4. 1 \in 1 .. 1
    OBVIOUS
  <2> QED BY <2>1, <2>2, <2>3, <2>4
<1>5. pet.chan \in DosChannels
  BY DEF Plan
<1>6. Types'
  BY <1>2 DEF Types
<1>7. CtlShape(ctl', pet')
  BY <1>2 DEF CtlShape, Puts, Reads
<1>8. Answers(ctl', ieee', pet')
  BY <1>2 DEF Answers, DriveTypes, CtlTypes
<1>9. Plan(ctl', ieee', dos', pet', dropped')
  <2>1. DonePlan(ctl', ieee', pet')
    BY <1>2, <1>3 DEF DonePlan, SameState
  <2> QED BY <1>2, <1>5, <2>1 DEF Plan, SameState, Reads
<1>10. Addressed(ctl', ieee', dos', pet') /\ Arrives(ctl', dos', pet')
  BY DEF Addressed, Arrives
<1>11. Talks(ctl', ieee', pet', got', dropped')
  BY <1>2 DEF Talks, Reads
<1>12. Bytes(ieee', dos', pet', got', dropped')
  <2>1. \A c : c \in DosChannels => ~Opens(pet', c) /\ ~Opens(pet, c)
    <3>1. \A c \in DosChannels : Secondary("open", c) \in Secondaries
      BY DEF Secondaries, SecondaryKinds
    <3> QED BY <1>4, <3>1 DEF Opens
  <2>2. \A c \in DosChannels : FileBytes(ieee, dos, pet, got, c) => FileBytes(ieee', dos', pet', got', c)
    BY <1>2, <2>1 DEF FileBytes, Keeps, SameState
  <2>3. Left(pet') # <<Secondary("open", pet'.chan)>>
    <3>1. <<b>>[1] # <<Secondary("open", pet'.chan)>>[1]
      BY <1>5 DEF Secondaries, SecondaryKinds
    <3> QED BY <1>3, <3>1
  <2>4. \A k \in SecondaryKinds : ~Due(pet', Secondary(k, pet'.chan))
    BY <1>4, <1>5 DEF Secondaries
  <2>5. ~Due(pet', Secondary("close", pet'.chan))
    BY <2>4 DEF SecondaryKinds
  <2> QED BY <1>2, <2>1, <2>2, <2>3, <2>4, <2>5 DEF Bytes, SameState
<1> QED BY <1>6, <1>7, <1>8, <1>9, <1>10, <1>11, <1>12

LEMMA Unlistens ==
  ASSUME IeeeInv, PetUnlisten PROVE IeeeInv'
<1> USE DEF IeeeInv, Types
<1> DEFINE t == <<UL>>
           p == [pet EXCEPT !.todo = t, !.next = "done"]
<1>1. /\ pet.at = "send" /\ pet.todo = <<>> /\ ctl.atn /\ Set("atn", FALSE) /\ pet' = p
      /\ got' = got /\ dropped' = dropped
  BY DEF PetUnlisten, hist, UL
<1>2. t \in Seq(BusValues \ {Free})
  BY Alone, Bus
<1>3. t = <<UL>>
  OBVIOUS
<1> HIDE DEF t
<1>4. p \in PetTypes /\ p.at = "send" /\ p.todo = t /\ p.next = "done" /\ p.chan = pet.chan
  <2>1. p \in PetTypes
    BY <1>2 DEF PetTypes
  <2>2. p.at = pet.at /\ p.todo = t /\ p.next = "done" /\ p.chan = pet.chan
    BY DEF PetTypes
  <2> QED BY <1>1, <2>1, <2>2
<1>5. ctl.dav /\ ctl.nrfd /\ ctl.ndac /\ ctl.data = Free
  BY <1>1 DEF CtlShape, Puts, Reads
<1>6. ~ieee.talker /\ ~ieee.pending
  BY <1>1 DEF Plan, WritePlan, DonePlan, ReadPlan, PetTypes, Reads
<1>7. \A k : ~Due(pet, k)
  BY <1>1 DEF Due, Left
<1>8. UL \in BusValues \ {Free} /\ UL \notin Secondaries
  BY Bus DEF Secondaries
<1> HIDE DEF p
<1> QED BY <1>1, <1>3, <1>4, <1>5, <1>6, <1>7, <1>8, EndsTransfer

LEMMA Untalks ==
  ASSUME IeeeInv, PetUntalk PROVE IeeeInv'
<1> USE DEF IeeeInv, Types
<1> DEFINE t == <<UT>>
           p == [pet EXCEPT !.at = "send", !.todo = t, !.next = "done", !.left = 0]
<1>1. /\ pet.at = "letgo" /\ ctl.nrfd /\ ctl.ndac /\ Set("atn", FALSE) /\ pet' = p
      /\ got' = got /\ dropped' = dropped
  BY DEF PetUntalk, hist, UT
<1>2. t \in Seq(BusValues \ {Free})
  BY Alone, Bus
<1>3. t = <<UT>>
  OBVIOUS
<1> HIDE DEF t
<1>4. p \in PetTypes /\ p.at = "send" /\ p.todo = t /\ p.next = "done" /\ p.chan = pet.chan
  <2> DEFINE q == [pet EXCEPT !.at = "send", !.todo = t]
             r == [q EXCEPT !.next = "done"]
             none == 0
  <2>1. q \in PetTypes
    BY <1>2 DEF PetTypes, PetAts
  <2>2. p = [r EXCEPT !.left = none] /\ none \in Int
    BY DEF PetTypes
  <2> HIDE DEF q
  <2>3. r \in PetTypes
    BY <2>1 DEF PetTypes
  <2> HIDE DEF r, none
  <2>4. p.at = "send" /\ p.todo = t /\ p.next = "done" /\ p.chan = pet.chan
    BY DEF PetTypes
  <2> HIDE DEF p
  <2>5. p \in PetTypes
    BY <2>2, <2>3 DEF PetTypes
  <2> QED BY <2>4, <2>5
<1>5. ctl.atn /\ ctl.dav /\ ctl.data = Free
  BY <1>1 DEF CtlShape, Puts, Reads
<1>6. ~ieee.listener /\ pet.todo = <<>>
  BY <1>1 DEF Plan, ReadPlan, Reads
<1>7. \A k : ~Due(pet, k)
  BY <1>1, <1>6 DEF Due, Left
<1>8. UT \in BusValues \ {Free} /\ UT \notin Secondaries
  BY Bus DEF Secondaries
<1> HIDE DEF p
<1> QED BY <1>1, <1>3, <1>4, <1>5, <1>6, <1>7, <1>8, EndsTransfer
-----------------------------------------------------------------------------
(***************************************************************************)
(* ATN goes high: the commands are out.                                    *)
(***************************************************************************)
LEMMA AtnUp ==
  ASSUME Types, ~ieee.prevAtn, ~ctl.atn, ctl.dav, ~ctl.nrfd \/ ctl.ndac, Set("atn", TRUE)
  PROVE  /\ ctl' \in CtlTypes /\ ctl'.atn /\ ctl'.dav = ctl.dav /\ ctl'.nrfd = ctl.nrfd /\ ctl'.ndac = ctl.ndac
         /\ ctl'.data = ctl.data
         /\ ieee' \in DriveTypes /\ ieee'.prevAtn /\ ~ieee'.tentative /\ ~ieee'.onBus
         /\ (ieee.listener => Awaits(ieee')) /\ (~ieee.listener => TalkLines(ieee'))
         /\ SameState(ieee, ieee') /\ dos' = dos
<1> DEFINE c == [ctl EXCEPT !.atn = TRUE]
           d == High(ieee)
<1>1. /\ c \in CtlTypes /\ c.atn /\ c.dav = ctl.dav /\ c.nrfd = ctl.nrfd /\ c.ndac = ctl.ndac /\ c.data = ctl.data
      /\ c # ctl /\ SetLines(c)
  BY DEF Types, CtlTypes, Set
<1> HIDE DEF c
<1>2. Step(c, Both(ieee, dos)) = Both(d, dos)
  BY <1>1, AtnRises DEF Types
<1>3. ctl' = c /\ ieee' = d /\ dos' = dos
  BY <1>1, <1>2, LinesSet
<1>4. /\ d \in DriveTypes /\ d.prevAtn /\ ~d.tentative /\ ~d.onBus
      /\ (ieee.listener => Awaits(d)) /\ (~ieee.listener => TalkLines(d))
      /\ \A f \in {"listener", "talker", "ourListen", "ourTalk", "pending", "pbyte", "plast", "pchan"} : d[f] = ieee[f]
  BY HighTypes DEF Types
<1> HIDE DEF d
<1>5. SameState(ieee, d)
  BY <1>4 DEF SameState
<1> QED BY <1>1, <1>3, <1>4, <1>5

LEMMA TurnsAtn ==
  ASSUME IeeeInv, PetTurnAtn PROVE IeeeInv'
<1> USE DEF IeeeInv, Types
<1> DEFINE p == [pet EXCEPT !.at = "recv"]
<1>1. pet.at = "turned" /\ Set("atn", TRUE) /\ pet' = p /\ got' = got /\ dropped' = dropped
  BY DEF PetTurnAtn, Goto, hist
<1>2. /\ p \in PetTypes /\ p.at = "recv" /\ p.todo = pet.todo /\ p.next = pet.next /\ p.chan = pet.chan
      /\ p.sent = pet.sent /\ p.swapped = pet.swapped
  BY DEF PetTypes, PetAts
<1> HIDE DEF p
<1>3. pet.next = "read" /\ pet.todo = <<>> /\ ~ieee.listener /\ Left(pet) = <<>> /\ Left(p) = <<>>
  BY <1>1, <1>2 DEF Plan, ReadPlan, Reads, Left
<1>4. ~ctl.atn /\ ctl.dav /\ ~ctl.nrfd /\ ~ctl.ndac /\ ctl.data = Free /\ ~ieee.prevAtn
  BY <1>1 DEF CtlShape, Puts, Reads, Answers
<1>5. /\ ctl' \in CtlTypes /\ ctl'.atn /\ ctl'.dav = ctl.dav /\ ctl'.nrfd = ctl.nrfd /\ ctl'.ndac = ctl.ndac
      /\ ctl'.data = ctl.data
      /\ ieee' \in DriveTypes /\ ieee'.prevAtn /\ ~ieee'.tentative /\ ~ieee'.onBus
      /\ (ieee.listener => Awaits(ieee')) /\ (~ieee.listener => TalkLines(ieee'))
      /\ SameState(ieee, ieee') /\ dos' = dos
  BY <1>1, <1>4, AtnUp
<1>6. Types'
  BY <1>1, <1>2, <1>5
<1>7. CtlShape(ctl', p)
  BY <1>2, <1>4, <1>5 DEF CtlShape, Puts, Reads
<1>8. Answers(ctl', ieee', p)
  BY <1>2, <1>3, <1>5 DEF Answers, DriveTypes, CtlTypes, SameState
<1>9. Plan(ctl', ieee', dos', p, dropped')
  <2>1. Left(pet) # <<T8, Secondary("data", pet.chan)>> /\ Left(pet) # <<Secondary("data", pet.chan)>>
    <3>1. Len(<<T8, Secondary("data", pet.chan)>>) = 2 /\ Len(<<Secondary("data", pet.chan)>>) = 1
      OBVIOUS
    <3> QED BY <1>3, <3>1
  <2>2. ReadPlan(ctl, ieee, dos, pet, dropped)
    BY <1>1, <1>3 DEF Plan
  <2>3. ReadPlan(ctl', ieee', dos', p, dropped')
    BY <1>1, <1>2, <1>3, <1>5, <2>1, <2>2 DEF ReadPlan, SameState, Reads
  <2> QED BY <1>1, <1>2, <1>3, <1>5, <2>3 DEF Plan, SameState, Reads
<1>10. Addressed(ctl', ieee', dos', p) /\ Arrives(ctl', dos', p)
  BY <1>2, <1>3 DEF Addressed, Arrives
<1>11. Talks(ctl', ieee', p, got', dropped')
  BY <1>2, <1>3, <1>5 DEF Talks, Reads
<1>12. Bytes(ieee', dos', p, got', dropped')
  <2>1. Bytes(ieee', dos, p, got, dropped)
    BY <1>2, <1>3, <1>5, BytesStay DEF SameState
  <2> QED BY <1>1, <1>5, <2>1
<1> HIDE DEF Types
<1> QED BY <1>1, <1>6, <1>7, <1>8, <1>9, <1>10, <1>11, <1>12

LEMMA EndsCommands ==
  ASSUME IeeeInv, PetWriteData PROVE IeeeInv'
<1> USE DEF IeeeInv, Types
<1> DEFINE data == [i \in 1 .. pet.left |-> Byte(i)]
           a == IF pet.next = "write" THEN "send" ELSE "idle"
           t == IF pet.next = "write" THEN data ELSE <<>>
           p == [pet EXCEPT !.at = a, !.todo = t]
<1>1. /\ pet.at = "send" /\ pet.todo = <<>> /\ ~ctl.atn /\ pet.next \in {"write", "done"}
      /\ Set("atn", TRUE) /\ pet' = p /\ got' = got /\ dropped' = dropped
  BY DEF PetWriteData, hist
<1>2. data \in Seq(AllBytes) /\ AllBytes \subseteq BusValues \ {Free}
  <2>1. pet.left \in Int /\ \A i \in 1 .. pet.left : Byte(i) \in AllBytes
    BY DEF PetTypes, AllBytes
  <2>2. \E n \in Nat : 1 .. pet.left = 1 .. n
    <3>1. CASE pet.left > 0
      BY <2>1, <3>1
    <3>2. CASE pet.left <= 0
      <4>1. 1 .. pet.left = 1 .. 0
        BY <2>1, <3>2
      <4> QED BY <4>1
    <3> QED BY <2>1, <3>1, <3>2
  <2>3. data \in [1 .. pet.left -> AllBytes]
    BY <2>1
  <2>4. data \in Seq(AllBytes)
    <3> HIDE DEF data
    <3>1. PICK n \in Nat : 1 .. pet.left = 1 .. n
      BY <2>2
    <3>2. data \in [1 .. n -> AllBytes]
      BY <2>3, <3>1
    <3> QED BY <3>2
  <2>5. \A b \in AllBytes : b # Free
    BY DEF AllBytes, Byte, Free
  <2> QED BY <2>4, <2>5 DEF BusValues
<1> HIDE DEF data
<1>3. /\ t \in Seq(BusValues \ {Free}) /\ a \in PetAts /\ a = (IF pet.next = "write" THEN "send" ELSE "idle")
      /\ (pet.next # "write" => t = <<>>) /\ \A i \in 1 .. Len(t) : t[i] \in AllBytes
  BY <1>2 DEF PetAts
<1> HIDE DEF t, a
<1>4. /\ p \in PetTypes /\ p.at = a /\ p.todo = t /\ p.next = pet.next /\ p.chan = pet.chan
      /\ p.sent = pet.sent /\ p.swapped = pet.swapped
  BY <1>3 DEF PetTypes
<1> HIDE DEF p
<1>5. Left(p) = t /\ Left(pet) = <<>>
  BY <1>1, <1>3, <1>4 DEF Left
<1>6. ~ctl.atn /\ ctl.dav /\ ctl.nrfd /\ ctl.ndac /\ ctl.data = Free /\ ~ieee.prevAtn
  BY <1>1 DEF CtlShape, Puts, Reads, Answers
<1>7. /\ ctl' \in CtlTypes /\ ctl'.atn /\ ctl'.dav = ctl.dav /\ ctl'.nrfd = ctl.nrfd /\ ctl'.ndac = ctl.ndac
      /\ ctl'.data = ctl.data
      /\ ieee' \in DriveTypes /\ ieee'.prevAtn /\ ~ieee'.tentative /\ ~ieee'.onBus
      /\ (ieee.listener => Awaits(ieee')) /\ (~ieee.listener => TalkLines(ieee'))
      /\ SameState(ieee, ieee') /\ dos' = dos
  BY <1>1, <1>6, AtnUp
<1>8. /\ pet.next = "write" => ~ieee.talker /\ ~ieee.pending /\ pet.sent = <<>>
      /\ pet.next = "done" => Quiet(ieee)
  <2>1. \A x, y, z : Len(<<x, y, z>>) = 3 /\ Len(<<x, y>>) = 2 /\ Len(<<x>>) = 1
    OBVIOUS
  <2>2. \A x, y, z : Left(pet) # <<x, y, z>> /\ Left(pet) # <<x, y>> /\ Left(pet) # <<x>>
    BY <1>5, <2>1
  <2>3. pet.next = "write" => WritePlan(ctl, ieee, pet)
    BY <1>1 DEF Plan
  <2>4. pet.next = "done" => DonePlan(ctl, ieee, pet)
    BY <1>1 DEF Plan
  <2>5. pet.next = "write" => ~ieee.talker /\ ~ieee.pending /\ pet.sent = <<>>
    BY <1>1, <2>2, <2>3 DEF WritePlan
  <2>6. pet.next = "done" => Quiet(ieee)
    BY <2>2, <2>4, Zenon DEF DonePlan
  <2> QED BY <2>5, <2>6
<1>9. \A k \in SecondaryKinds : \A c : ~Due(p, Secondary(k, c)) /\ ~Due(pet, Secondary(k, c))
  <2>1. \A k \in SecondaryKinds : \A c : Secondary(k, c) \notin AllBytes
    BY DEF Secondary, SecondaryKinds, AllBytes, Byte
  <2>2. Len(Left(pet)) = 0
    BY <1>5
  <2> QED BY <1>3, <1>5, <2>1, <2>2 DEF Due
<1>10. Types'
  BY <1>1, <1>4, <1>7
<1>11. CtlShape(ctl', p)
  BY <1>3, <1>4, <1>6, <1>7 DEF CtlShape, Puts, Reads
<1>12. Answers(ctl', ieee', p)
  BY <1>3, <1>4, <1>7 DEF Answers, DriveTypes, CtlTypes, SameState
<1>13. Plan(ctl', ieee', dos', p, dropped')
  <2>1. pet.next = "write" => WritePlan(ctl', ieee', p)
    BY <1>3, <1>4, <1>7, <1>8 DEF WritePlan, SameState
  <2>2. pet.next = "done" => Quiet(ieee') /\ p.at = "idle" /\ p.todo = <<>>
    BY <1>3, <1>4, <1>7, <1>8 DEF Quiet, SameState
  <2>3. pet.next = "write" => p.at = "send"
    BY <1>3, <1>4
  <2> QED BY <1>1, <1>4, <1>7, <2>1, <2>2, <2>3 DEF Plan, SameState, Reads
<1>14. Addressed(ctl', ieee', dos', p)
  <2>1. Len(Left(pet)) < 2
    BY <1>5
  <2> QED BY <1>1, <1>3, <1>4, <1>7, <2>1 DEF Addressed, SameState
<1>15. Arrives(ctl', dos', p)
  <2>1. Len(Left(pet)) < 2
    BY <1>5
  <2> QED BY <1>1, <1>3, <1>4, <1>7, <1>8, <2>1 DEF Arrives
<1>16. Talks(ctl', ieee', p, got', dropped')
  BY <1>3, <1>4, <1>7 DEF Talks, Reads
<1>17. Bytes(ieee', dos', p, got', dropped')
  <2>1. \A c : ~Opens(p, c) /\ ~Opens(pet, c)
    BY <1>9 DEF Opens, SecondaryKinds
  <2>2. \A c : FileBytes(ieee, dos, pet, got, c) => FileBytes(ieee', dos', p, got', c)
    BY <1>1, <1>7, <2>1 DEF FileBytes, Keeps, SameState
  <2>3. Left(p) # <<Secondary("open", p.chan)>>
    <3>1. <<Secondary("open", p.chan)>>[1] = Secondary("open", p.chan) /\ Len(<<Secondary("open", p.chan)>>) = 1
      OBVIOUS
    <3>2. ~Due(p, Secondary("open", p.chan))
      BY <2>1 DEF Opens
    <3>3. 1 \in 1 .. 1
      OBVIOUS
    <3> QED BY <3>1, <3>2, <3>3 DEF Due
  <2>4. ~Due(p, Secondary("close", p.chan))
    BY <1>9 DEF SecondaryKinds
  <2>5. \A k \in SecondaryKinds : ~Due(p, Secondary(k, p.chan))
    BY <1>9
  <2> QED BY <1>1, <1>4, <1>7, <1>8, <2>1, <2>2, <2>3, <2>4, <2>5 DEF Bytes, SameState
<1> HIDE DEF Types
<1> QED BY <1>1, <1>7, <1>10, <1>11, <1>12, <1>13, <1>14, <1>15, <1>16, <1>17
-----------------------------------------------------------------------------
(***************************************************************************)
(* DAV goes low.  Under ATN the drive hears a command; otherwise a         *)
(* listener takes a byte of data.                                          *)
(***************************************************************************)
LEMMA DavFalls ==
  ASSUME IeeeInv, PetDav, NEW c, c = [ctl EXCEPT !.dav = FALSE]
  PROVE  /\ pet.at = "dav" /\ SetLines(c) /\ c # ctl /\ c \in CtlTypes /\ c.data = ctl.data /\ c.atn = ctl.atn /\ ~c.dav
         /\ c.nrfd = ctl.nrfd /\ c.ndac = ctl.ndac /\ ctl.data = pet.todo[1] /\ ctl.data # Free /\ pet.todo # <<>>
         /\ Left(pet) = pet.todo /\ Left(pet') = Tail(pet.todo)
         /\ pet' \in PetTypes /\ pet'.at = "accepted" /\ pet'.todo = pet.todo /\ pet'.next = pet.next
         /\ pet'.chan = pet.chan /\ pet'.sent = pet.sent /\ pet'.swapped = pet.swapped
         /\ got' = got /\ dropped' = dropped
<1> USE DEF IeeeInv, Types
<1> DEFINE p == [pet EXCEPT !.at = "accepted"]
<1>1. pet.at = "dav" /\ SetLines(c) /\ pet' = p /\ got' = got /\ dropped' = dropped
  BY DEF PetDav, Set, Goto, hist
<1>2. /\ p \in PetTypes /\ p.at = "accepted" /\ p.todo = pet.todo /\ p.next = pet.next /\ p.chan = pet.chan
      /\ p.sent = pet.sent /\ p.swapped = pet.swapped
  BY DEF PetTypes, PetAts
<1> HIDE DEF p
<1>3. ctl.dav /\ pet.todo # <<>> /\ ctl.data = pet.todo[1]
  BY <1>1 DEF CtlShape, Puts
<1>4. c \in CtlTypes /\ c.data = ctl.data /\ c.atn = ctl.atn /\ ~c.dav /\ c.nrfd = ctl.nrfd /\ c.ndac = ctl.ndac
  BY DEF CtlTypes
<1>5. pet.todo[1] # Free
  BY <1>3 DEF PetTypes
<1>6. Left(pet) = pet.todo /\ Left(p) = Tail(pet.todo)
  BY <1>1, <1>2 DEF Left
<1> QED BY <1>1, <1>2, <1>3, <1>4, <1>5, <1>6

LEMMA Heard ==
  ASSUME IeeeInv, PetDav, ~ctl.atn, NEW e \in DriveTypes, NEW u \in DosTypes,
         Command(Both(ieee, dos), pet.todo[1]) = Both(e, u), SameLines(ieee, e),
         Plan(ctl, e, u, pet', dropped), Addressed(ctl, e, u, pet'), Arrives(ctl, u, pet'), Bytes(e, u, pet', got, dropped)
  PROVE  IeeeInv'
<1> USE DEF IeeeInv
<1> DEFINE c == [ctl EXCEPT !.dav = FALSE]
           d == Taken(e)
<1>1. /\ pet.at = "dav" /\ SetLines(c) /\ c # ctl /\ c \in CtlTypes /\ c.data = ctl.data /\ c.atn = ctl.atn /\ ~c.dav
      /\ c.nrfd = ctl.nrfd /\ c.ndac = ctl.ndac /\ ctl.data = pet.todo[1] /\ ctl.data # Free /\ pet.todo # <<>>
      /\ Left(pet) = pet.todo /\ Left(pet') = Tail(pet.todo)
      /\ pet' \in PetTypes /\ pet'.at = "accepted" /\ pet'.todo = pet.todo /\ pet'.next = pet.next
      /\ pet'.chan = pet.chan /\ pet'.sent = pet.sent /\ pet'.swapped = pet.swapped
      /\ got' = got /\ dropped' = dropped
  BY DavFalls
<1> HIDE DEF c
<1>2. ieee.prevAtn = c.atn /\ ~c.atn /\ Awaits(ieee) /\ ctl.ndac /\ ctl.nrfd
  BY <1>1 DEF Answers, CtlShape, Puts
<1>3. Step(c, Both(ieee, dos)) = Both(d, u)
  BY <1>1, <1>2, CommandTaken DEF Types
<1>4. ctl' = c /\ ieee' = d /\ dos' = u
  BY <1>1, <1>3, LinesSet
<1>5. Awaits(e) /\ e.prevAtn = ieee.prevAtn /\ e.tentative = ieee.tentative /\ e.pbyte = ieee.pbyte
  BY <1>2 DEF SameLines, Awaits
<1>6. d \in DriveTypes /\ Took(d) /\ SameState(e, d) /\ d.prevAtn = e.prevAtn /\ d.tentative = e.tentative
  <2>1. /\ d \in DriveTypes /\ Took(d)
        /\ \A f \in {"listener", "talker", "ourListen", "ourTalk", "pending", "pbyte", "plast", "pchan", "prevAtn",
                     "tentative", "onBus", "ended"} : d[f] = e[f]
    BY <1>5, TakenTypes
  <2> HIDE DEF d
  <2> QED BY <2>1 DEF SameState
<1> HIDE DEF d
<1>7. Types'
  BY <1>1, <1>4, <1>6 DEF Types
<1>8. CtlShape(c, pet')
  BY <1>1, <1>2 DEF CtlShape, Puts, Reads
<1>9. Answers(c, d, pet')
  BY <1>1, <1>2, <1>5, <1>6 DEF Answers
<1>10. Plan(c, d, u, pet', dropped)
  <2>1. WritePlan(ctl, e, pet') => WritePlan(c, d, pet')
    BY <1>1, <1>6 DEF WritePlan, SameState, Quiet
  <2>2. DonePlan(ctl, e, pet') => DonePlan(c, d, pet')
    BY <1>1, <1>6, Zenon DEF DonePlan, SameState, Quiet
  <2>3. ReadPlan(ctl, e, u, pet', dropped) => ReadPlan(c, d, u, pet', dropped)
    BY <1>1, <1>6 DEF ReadPlan, SameState
  <2> QED BY <1>1, <1>6, <2>1, <2>2, <2>3 DEF Plan, SameState, Reads, Quiet
<1>11. Addressed(c, d, u, pet')
  BY <1>1, <1>6 DEF Addressed, SameState
<1>12. Arrives(c, u, pet')
  BY <1>1 DEF Arrives
<1>13. Talks(c, d, pet', got, dropped)
  BY <1>1, <1>5, <1>6 DEF Talks, Reads
<1>14. Bytes(d, u, pet', got, dropped)
  BY <1>6, BytesStay DEF SameState
<1> QED BY <1>1, <1>4, <1>7, <1>8, <1>9, <1>10, <1>11, <1>12, <1>13, <1>14

\* The bytes still to come, before and after the next one.
LEMMA Ahead ==
  ASSUME NEW a, NEW b, NEW c
  PROVE  /\ Tail(<<a, b, c>>) = <<b, c>> /\ Tail(<<a, b>>) = <<b>> /\ Tail(<<a>>) = <<>>
         /\ <<a, b, c>>[1] = a /\ <<a, b>>[1] = a /\ <<a>>[1] = a
         /\ Len(<<a, b, c>>) = 3 /\ Len(<<a, b>>) = 2 /\ Len(<<a>>) = 1
OBVIOUS

LEMMA DueIs ==
  ASSUME NEW p, NEW a, NEW b, NEW c, NEW k
  PROVE  /\ Left(p) = <<>> => ~Due(p, k)
         /\ Left(p) = <<a>> => (Due(p, k) <=> k = a)
         /\ Left(p) = <<a, b>> => (Due(p, k) <=> k = a \/ k = b)
         /\ Left(p) = <<a, b, c>> => (Due(p, k) <=> k = a \/ k = b \/ k = c)
<1>1. Left(p) = <<>> => ~Due(p, k)
  BY DEF Due
<1>2. Left(p) = <<a>> => (Due(p, k) <=> k = a)
  <2>1. Len(<<a>>) = 1 /\ <<a>>[1] = a /\ 1 \in 1 .. 1 /\ \A i \in 1 .. 1 : i = 1
    OBVIOUS
  <2> QED BY <2>1 DEF Due
<1>3. Left(p) = <<a, b>> => (Due(p, k) <=> k = a \/ k = b)
  <2>1. Len(<<a, b>>) = 2 /\ <<a, b>>[1] = a /\ <<a, b>>[2] = b
    OBVIOUS
  <2>2. 1 \in 1 .. 2 /\ 2 \in 1 .. 2 /\ \A i \in 1 .. 2 : i = 1 \/ i = 2
    OBVIOUS
  <2> QED BY <2>1, <2>2 DEF Due
<1>4. Left(p) = <<a, b, c>> => (Due(p, k) <=> k = a \/ k = b \/ k = c)
  <2>1. Len(<<a, b, c>>) = 3 /\ <<a, b, c>>[1] = a /\ <<a, b, c>>[2] = b /\ <<a, b, c>>[3] = c
    OBVIOUS
  <2>2. 1 \in 1 .. 3 /\ 2 \in 1 .. 3 /\ 3 \in 1 .. 3 /\ \A i \in 1 .. 3 : i = 1 \/ i = 2 \/ i = 3
    OBVIOUS
  <2> QED BY <2>1, <2>2 DEF Due
<1> QED BY <1>1, <1>2, <1>3, <1>4

\* LISTEN or TALK, or nothing of ours: which bytes are kept does not change.
LEMMA BytesAfterCall ==
  ASSUME IeeeInv, NEW e, NEW u, NEW q, SameLines(ieee, e), e.pending = ieee.pending, e.pchan = ieee.pchan,
         u.pos = dos.pos, u.opening = dos.opening, u.chan = dos.chan, q.next = pet.next, q.chan = pet.chan,
         \A k \in SecondaryKinds, c \in DosChannels :
             Due(q, Secondary(k, c)) => Due(pet, Secondary(k, c)),
         \A c \in DosChannels : Opens(pet, c) => Opens(q, c),
         q.chan \in DosChannels,
         Left(q) = <<Secondary("open", q.chan)>> => u.listening
  PROVE  Bytes(e, u, q, got, dropped)
<1> USE DEF IeeeInv
<1>1. e.pbyte = ieee.pbyte
  BY DEF SameLines
<1>2. \A c \in DosChannels : Opens(pet, c) <=> Opens(q, c)
  BY DEF Opens, SecondaryKinds
<1>3. Due(q, Secondary("close", q.chan)) => Due(pet, Secondary("close", pet.chan))
  BY DEF SecondaryKinds
<1>4. \A k \in SecondaryKinds : Due(q, Secondary(k, q.chan)) => Due(pet, Secondary(k, pet.chan))
  OBVIOUS
<1>5. \A c : Keeps(e, c) = Keeps(ieee, c)
  BY DEF Keeps
<1>6. \A c \in DosChannels : FileBytes(ieee, dos, pet, got, c) => FileBytes(e, u, q, got, c)
  BY <1>1, <1>2, <1>5 DEF FileBytes
<1> QED BY <1>2, <1>3, <1>4, <1>6 DEF Bytes

LEMMA DavGoto ==
  ASSUME IeeeInv, PetDav
  PROVE  /\ pet.at = "dav" /\ pet.todo # <<>> /\ Left(pet) = pet.todo /\ Left(pet') = Tail(pet.todo)
         /\ pet' \in PetTypes /\ pet'.at = "accepted" /\ pet'.todo = pet.todo /\ pet'.next = pet.next
         /\ pet'.chan = pet.chan /\ pet'.sent = pet.sent /\ pet'.swapped = pet.swapped
         /\ pet'.chan \in DosChannels
<1> DEFINE c == [ctl EXCEPT !.dav = FALSE]
<1>1. PICK z : z = c
  OBVIOUS
<1>2. pet.chan \in DosChannels
  BY DavFalls DEF IeeeInv, Plan
<1> QED BY <1>1, <1>2, DavFalls

LEMMA HeardListenToWrite ==
  ASSUME IeeeInv, PetDav, ~ctl.atn, pet.next = "write", NEW k \in {"open", "data"},
         Left(pet) = <<L8, Secondary(k, pet.chan)>>, Quiet(ieee)
  PROVE  IeeeInv'
<1> USE DEF IeeeInv
<1> DEFINE b == Secondary(k, pet.chan)
<1>1. /\ pet.at = "dav" /\ pet.todo # <<>> /\ Left(pet) = pet.todo /\ Left(pet') = Tail(pet.todo)
      /\ pet' \in PetTypes /\ pet'.at = "accepted" /\ pet'.todo = pet.todo /\ pet'.next = pet.next
      /\ pet'.chan = pet.chan /\ pet'.sent = pet.sent /\ pet'.swapped = pet.swapped
      /\ pet'.chan \in DosChannels
  BY DavGoto
<1>2. pet.todo[1] = L8 /\ Left(pet') = <<b>>
  <2>1. <<L8, b>>[1] = L8 /\ Tail(<<L8, b>>) = <<b>>
    BY Ahead
  <2> QED BY <1>1, <2>1
<1>3. PICK e \in DriveTypes, u \in DosTypes :
            /\ Command(Both(ieee, dos), L8) = Both(e, u) /\ SameLines(ieee, e) /\ u = DosListen(dos)
            /\ e.ourListen /\ e.listener /\ e.talker = ieee.talker /\ e.pending = ieee.pending /\ e.pchan = ieee.pchan
  BY HearListen DEF Types
<1>4. /\ u.listening = TRUE /\ u.in = <<>> /\ u.talking = dos.talking /\ u.opening = dos.opening /\ u.chan = dos.chan
      /\ u.pos = dos.pos
  BY <1>3 DEF DosListen, DosTypes, Types
<1>5. ~dos.talking /\ ~ieee.talker /\ pet.chan \in DosChannels /\ ~dos.opening /\ pet.sent = <<>>
  BY <1>1 DEF Plan, Quiet, WritePlan
<1>6. Len(<<b>>) = 1
  BY Ahead
<1>7. Plan(ctl, e, u, pet', dropped)
  <2>1. WritePlan(ctl, e, pet')
    BY <1>1, <1>2, <1>3, <1>5 DEF WritePlan
  <2> QED BY <1>1, <1>3, <1>4, <1>5, <2>1 DEF Plan, Reads
<1>8. Addressed(ctl, e, u, pet') /\ Arrives(ctl, u, pet')
  BY <1>3, <1>4 DEF Addressed, Arrives
<1>9. Bytes(e, u, pet', got, dropped)
  <2>1. \A x : Due(pet, x) <=> x = L8 \/ x = b
    BY DueIs
  <2>2. \A x : Due(pet', x) <=> x = b
    BY <1>2, DueIs
  <2>3. \A c : Secondary("open", c) # L8
    BY Bus DEF SecondaryKinds
  <2>4. \A c \in DosChannels : Opens(pet, c) => Opens(pet', c)
    BY <2>1, <2>2, <2>3 DEF Opens
  <2> HIDE DEF b
  <2> QED BY <1>1, <1>3, <1>4, <1>5, <2>1, <2>2, <2>4, BytesAfterCall
<1> QED BY <1>2, <1>3, <1>7, <1>8, <1>9, Heard

LEMMA HeardSecondToWrite ==
  ASSUME IeeeInv, PetDav, ~ctl.atn, pet.next = "write", NEW k \in {"open", "data"},
         Left(pet) = <<Secondary(k, pet.chan)>>, ieee.ourListen
  PROVE  IeeeInv'
<1> USE DEF IeeeInv
<1> DEFINE b == Secondary(k, pet.chan)
<1>1. /\ pet.at = "dav" /\ pet.todo # <<>> /\ Left(pet) = pet.todo /\ Left(pet') = Tail(pet.todo)
      /\ pet' \in PetTypes /\ pet'.at = "accepted" /\ pet'.todo = pet.todo /\ pet'.next = pet.next
      /\ pet'.chan = pet.chan /\ pet'.sent = pet.sent /\ pet'.swapped = pet.swapped
      /\ pet'.chan \in DosChannels
  BY DavGoto
<1>2. pet.todo[1] = b /\ Left(pet') = <<>>
  <2>1. <<b>>[1] = b /\ Tail(<<b>>) = <<>>
    BY Ahead
  <2> QED BY <1>1, <2>1
<1>3. PICK e \in DriveTypes, u \in DosTypes :
            /\ Command(Both(ieee, dos), b) = Both(e, u) /\ SameLines(ieee, e) /\ u = DosSecond(dos, b)
            /\ ~e.pending /\ e.ourListen /\ e.listener = ieee.listener /\ e.talker = ieee.talker
  <2>1. k \in SecondaryKinds
    BY DEF SecondaryKinds
  <2> QED BY <1>1, <2>1, HearSecond DEF Types
<1>4. /\ u.listening = dos.listening /\ u.in = dos.in /\ u.talking = dos.talking
      /\ ~dos.listening => u = dos
      /\ dos.listening => u.chan = pet.chan /\ (u.opening <=> k = "open") /\ u.pos = dos.pos
  <2>1. CASE ~dos.listening
    BY <1>3, <2>1 DEF DosSecond
  <2>2. CASE dos.listening
    <3> DEFINE q == [dos.pos EXCEPT ![pet.chan] = dos.pos[pet.chan]]
               o == k = "open"
    <3>1. u = [dos EXCEPT !.chan = pet.chan, !.opening = o, !.pos = q]
      BY <1>3, <2>2 DEF DosSecond, Secondary, DosTypes, Types
    <3>2. q = dos.pos
      BY DEF DosTypes, Types
    <3> HIDE DEF q, o
    <3>3. u.listening = dos.listening /\ u.in = dos.in /\ u.talking = dos.talking /\ u.chan = pet.chan /\ u.opening = o /\ u.pos = q
      BY <3>1 DEF DosTypes, Types
    <3> QED BY <2>2, <3>2, <3>3 DEF o
  <2> QED BY <2>1, <2>2
<1>5. ~dos.talking /\ ~ieee.talker /\ ~dos.opening /\ pet.sent = <<>>
  <2>1. Due(pet, b)
    BY DueIs
  <2>2. k \in SecondaryKinds
    BY DEF SecondaryKinds
  <2> QED BY <1>1, <2>1, <2>2 DEF Plan, WritePlan, Bytes
<1>6. Len(<<b>>) = 1 /\ Len(Left(pet')) = 0
  BY <1>2, Ahead
<1>7. Plan(ctl, e, u, pet', dropped)
  <2>1. WritePlan(ctl, e, pet')
    BY <1>1, <1>2, <1>3, <1>5 DEF WritePlan
  <2>2. (dos.listening => ieee.listener) /\ ~(ieee.listener /\ ieee.talker)
    BY DEF Plan
  <2>3. u.opening => u.listening
    BY <1>4, <1>5
  <2> QED BY <1>1, <1>3, <1>4, <1>5, <2>1, <2>2, <2>3 DEF Plan, Reads
<1>8. Addressed(ctl, e, u, pet') /\ Arrives(ctl, u, pet')
  BY <1>1, <1>3, <1>4, <1>6 DEF Addressed, Arrives
<1>9. Bytes(e, u, pet', got, dropped)
  <2>1. \A x : Due(pet, x) <=> x = b
    BY DueIs
  <2>2. \A x : ~Due(pet', x)
    BY <1>2, DueIs
  <2>3. \A c : ~Opens(pet', c) /\ (Opens(pet, c) <=> k = "open" /\ c = pet.chan)
    BY <2>1, <2>2, Bus DEF Opens
  <2>4. ASSUME NEW c \in DosChannels \ dropped PROVE FileBytes(e, u, pet', got, c)
    <3>1. FileBytes(ieee, dos, pet, got, c) /\ ~(ieee.pending /\ ieee.pchan = c /\ ~Opens(pet, c))
      BY <2>4 DEF Bytes
    <3>2. CASE k = "open" /\ c = pet.chan
      <4>1. ~dos.listening => dos.pos[c] = FileLen
        BY <1>1, <3>2 DEF Bytes
      <4>2. dos.listening => u.opening /\ u.chan = c
        BY <1>4, <3>2
      <4> QED BY <1>3, <1>4, <3>1, <4>1, <4>2 DEF FileBytes
    <3>3. CASE ~(k = "open" /\ c = pet.chan)
      <4>1. ~Opens(pet, c) /\ ~(ieee.pending /\ ieee.pchan = c)
        BY <2>3, <3>1, <3>3
      <4>2. dos.pos[c] = FileLen \/ dos.pos[c] = Len(got[c]) + 0
        BY <1>5, <3>1, <4>1 DEF FileBytes, Keeps
      <4>3. u.pos = dos.pos
        BY <1>4
      <4> QED BY <1>3, <3>1, <4>2, <4>3 DEF FileBytes, Keeps
    <3> QED BY <3>2, <3>3
  <2>5. u.opening => k = "open" /\ u.chan = pet.chan
    BY <1>4, <1>5
  <2>6. k = "open" => got[pet.chan] = <<>>
    BY <1>1, <2>3 DEF Bytes
  <2>7. Left(pet') # <<Secondary("open", pet'.chan)>>
    <3>1. Len(<<Secondary("open", pet'.chan)>>) = 1
      BY Ahead
    <3> QED BY <1>6, <3>1
  <2> QED BY <1>1, <1>3, <2>2, <2>3, <2>4, <2>5, <2>6, <2>7 DEF Bytes
<1> QED BY <1>2, <1>3, <1>7, <1>8, <1>9, Heard

LEMMA HeardListenToClose ==
  ASSUME IeeeInv, PetDav, ~ctl.atn, pet.next = "done", Left(pet) = <<L8, Secondary("close", pet.chan), UL>>, Quiet(ieee)
  PROVE  IeeeInv'
<1> USE DEF IeeeInv
<1> DEFINE b == Secondary("close", pet.chan)
<1>1. /\ pet.at = "dav" /\ pet.todo # <<>> /\ Left(pet) = pet.todo /\ Left(pet') = Tail(pet.todo)
      /\ pet' \in PetTypes /\ pet'.at = "accepted" /\ pet'.todo = pet.todo /\ pet'.next = pet.next
      /\ pet'.chan = pet.chan /\ pet'.sent = pet.sent /\ pet'.swapped = pet.swapped
      /\ pet'.chan \in DosChannels
  BY DavGoto
<1>2. pet.todo[1] = L8 /\ Left(pet') = <<b, UL>>
  <2>1. <<L8, b, UL>>[1] = L8 /\ Tail(<<L8, b, UL>>) = <<b, UL>>
    BY Ahead
  <2> QED BY <1>1, <2>1
<1>3. PICK e \in DriveTypes, u \in DosTypes :
            /\ Command(Both(ieee, dos), L8) = Both(e, u) /\ SameLines(ieee, e) /\ u = DosListen(dos)
            /\ e.ourListen /\ e.listener /\ e.talker = ieee.talker /\ e.pending = ieee.pending /\ e.pchan = ieee.pchan
  BY HearListen DEF Types
<1>4. /\ u.listening = TRUE /\ u.in = <<>> /\ u.talking = dos.talking /\ u.opening = dos.opening /\ u.chan = dos.chan
      /\ u.pos = dos.pos
  BY <1>3 DEF DosListen, DosTypes, Types
<1>5. ~dos.talking /\ ~ieee.talker /\ ~dos.opening
  BY <1>1 DEF Plan, Quiet
<1>6. Plan(ctl, e, u, pet', dropped)
  <2>1. DonePlan(ctl, e, pet')
    BY <1>1, <1>2, <1>3, <1>5 DEF DonePlan
  <2> QED BY <1>1, <1>3, <1>4, <1>5, <2>1 DEF Plan, Reads
<1>7. Addressed(ctl, e, u, pet') /\ Arrives(ctl, u, pet')
  BY <1>1 DEF Addressed, Arrives
<1>8. Bytes(e, u, pet', got, dropped)
  <2>1. \A x : Due(pet, x) <=> x = L8 \/ x = b \/ x = UL
    BY DueIs
  <2>2. \A x : Due(pet', x) <=> x = b \/ x = UL
    BY <1>2, DueIs
  <2>3. \A c : Secondary("open", c) # L8
    BY Bus DEF SecondaryKinds
  <2>4. \A c \in DosChannels : Opens(pet, c) => Opens(pet', c)
    BY <2>1, <2>2, <2>3 DEF Opens
  <2> HIDE DEF b
  <2> QED BY <1>1, <1>3, <1>4, <2>1, <2>2, <2>4, BytesAfterCall
<1> QED BY <1>2, <1>3, <1>6, <1>7, <1>8, Heard

LEMMA HeardOther ==
  ASSUME IeeeInv, PetDav, ~ctl.atn, pet.next = "done", NEW a \in Others,
         Left(pet) = <<a, Secondary("data", pet.chan)>>, Quiet(ieee)
  PROVE  IeeeInv'
<1> USE DEF IeeeInv
<1> DEFINE b == Secondary("data", pet.chan)
<1>1. /\ pet.at = "dav" /\ pet.todo # <<>> /\ Left(pet) = pet.todo /\ Left(pet') = Tail(pet.todo)
      /\ pet' \in PetTypes /\ pet'.at = "accepted" /\ pet'.todo = pet.todo /\ pet'.next = pet.next
      /\ pet'.chan = pet.chan /\ pet'.sent = pet.sent /\ pet'.swapped = pet.swapped
      /\ pet'.chan \in DosChannels
  BY DavGoto
<1>2. pet.todo[1] = a /\ Left(pet') = <<b>>
  <2>1. <<a, b>>[1] = a /\ Tail(<<a, b>>) = <<b>>
    BY Ahead
  <2> QED BY <1>1, <2>1
<1>3. PICK e \in DriveTypes, u \in DosTypes :
            /\ Command(Both(ieee, dos), a) = Both(e, u) /\ SameLines(ieee, e) /\ u = dos
            /\ ~e.ourListen /\ ~e.ourTalk /\ ~e.talker /\ e.listener = ieee.listener
            /\ e.pending = ieee.pending /\ e.pchan = ieee.pchan
  BY HearOther DEF Types, Quiet
<1>4. ~dos.talking /\ ~dos.listening /\ ~dos.opening /\ ~ieee.listener
  BY <1>1 DEF Plan, Quiet
<1>5. Plan(ctl, e, u, pet', dropped)
  <2>1. DonePlan(ctl, e, pet')
    BY <1>1, <1>2, <1>3, <1>4 DEF DonePlan, Quiet
  <2> QED BY <1>1, <1>3, <1>4, <2>1 DEF Plan, Reads
<1>6. Addressed(ctl, e, u, pet') /\ Arrives(ctl, u, pet')
  BY <1>1 DEF Addressed, Arrives
<1>7. Bytes(e, u, pet', got, dropped)
  <2>1. \A x : Due(pet, x) <=> x = a \/ x = b
    BY DueIs
  <2>2. \A x : Due(pet', x) <=> x = b
    BY <1>2, DueIs
  <2>3. \A c : Secondary("open", c) # a /\ Secondary("open", c) # b
    BY Bus DEF SecondaryKinds
  <2>4. \A c \in DosChannels : Opens(pet, c) => Opens(pet', c)
    BY <2>1, <2>3 DEF Opens
  <2>5. Left(pet') = <<Secondary("open", pet'.chan)>> => u.listening
    <3>1. <<b>>[1] = b /\ <<Secondary("open", pet'.chan)>>[1] = Secondary("open", pet'.chan)
      BY Ahead
    <3> QED BY <1>2, <2>3, <3>1
  <2> HIDE DEF b
  <2> QED BY <1>1, <1>3, <2>1, <2>2, <2>4, <2>5, BytesAfterCall
<1> QED BY <1>2, <1>3, <1>5, <1>6, <1>7, Heard

LEMMA HeardOthersSecond ==
  ASSUME IeeeInv, PetDav, ~ctl.atn, pet.next = "done", Left(pet) = <<Secondary("data", pet.chan)>>, Quiet(ieee),
         ~ieee.ourListen, ~ieee.ourTalk
  PROVE  IeeeInv'
<1> USE DEF IeeeInv
<1> DEFINE b == Secondary("data", pet.chan)
<1>1. /\ pet.at = "dav" /\ pet.todo # <<>> /\ Left(pet) = pet.todo /\ Left(pet') = Tail(pet.todo)
      /\ pet' \in PetTypes /\ pet'.at = "accepted" /\ pet'.todo = pet.todo /\ pet'.next = pet.next
      /\ pet'.chan = pet.chan /\ pet'.sent = pet.sent /\ pet'.swapped = pet.swapped
      /\ pet'.chan \in DosChannels
  BY DavGoto
<1>2. pet.todo[1] = b /\ Left(pet') = <<>>
  <2>1. <<b>>[1] = b /\ Tail(<<b>>) = <<>>
    BY Ahead
  <2> QED BY <1>1, <2>1
<1>3. Command(Both(ieee, dos), b) = Both(ieee, dos) /\ SameLines(ieee, ieee)
  <2>1. "data" \in SecondaryKinds
    BY DEF SecondaryKinds
  <2> QED BY <1>1, <2>1, HearNothing DEF Types, SameLines
<1>4. ~dos.talking /\ ~dos.listening /\ ~dos.opening /\ ~ieee.listener /\ ~ieee.talker
  BY <1>1 DEF Plan, Quiet
<1>5. Plan(ctl, ieee, dos, pet', dropped)
  <2>1. DonePlan(ctl, ieee, pet')
    BY <1>1, <1>2 DEF DonePlan
  <2> QED BY <1>1, <1>4, <2>1 DEF Plan, Reads
<1>6. Addressed(ctl, ieee, dos, pet') /\ Arrives(ctl, dos, pet')
  BY <1>1 DEF Addressed, Arrives
<1>7. Bytes(ieee, dos, pet', got, dropped)
  <2>1. \A x : Due(pet, x) <=> x = b
    BY DueIs
  <2>2. \A x : ~Due(pet', x)
    BY <1>2, DueIs
  <2>3. \A c : Secondary("open", c) # b
    BY Bus DEF SecondaryKinds
  <2>4. \A c \in DosChannels : Opens(pet, c) => Opens(pet', c)
    BY <2>1, <2>3 DEF Opens
  <2>5. Left(pet') # <<Secondary("open", pet'.chan)>>
    <3>1. Len(<<Secondary("open", pet'.chan)>>) = 1
      BY Ahead
    <3> QED BY <1>2, <3>1
  <2> HIDE DEF b
  <2> QED BY <1>1, <1>3, <2>2, <2>4, <2>5, BytesAfterCall
<1> QED BY <1>2, <1>3, <1>5, <1>6, <1>7, Heard DEF Types

LEMMA HeardTalk ==
  ASSUME IeeeInv, PetDav, ~ctl.atn, pet.next = "read", Left(pet) = <<T8, Secondary("data", pet.chan)>>,
         ~ieee.talker, ~ieee.listener
  PROVE  IeeeInv'
<1> USE DEF IeeeInv
<1> DEFINE b == Secondary("data", pet.chan)
<1>1. /\ pet.at = "dav" /\ pet.todo # <<>> /\ Left(pet) = pet.todo /\ Left(pet') = Tail(pet.todo)
      /\ pet' \in PetTypes /\ pet'.at = "accepted" /\ pet'.todo = pet.todo /\ pet'.next = pet.next
      /\ pet'.chan = pet.chan /\ pet'.sent = pet.sent /\ pet'.swapped = pet.swapped
      /\ pet'.chan \in DosChannels
  BY DavGoto
<1>2. pet.todo[1] = T8 /\ Left(pet') = <<b>>
  <2>1. <<T8, b>>[1] = T8 /\ Tail(<<T8, b>>) = <<b>>
    BY Ahead
  <2> QED BY <1>1, <2>1
<1>3. PICK e \in DriveTypes, u \in DosTypes :
            /\ Command(Both(ieee, dos), T8) = Both(e, u) /\ SameLines(ieee, e) /\ u = DosTalk(dos)
            /\ e.ourTalk /\ ~e.ourListen /\ e.talker /\ e.listener = ieee.listener
            /\ e.pending = ieee.pending /\ e.pchan = ieee.pchan
  <2>1. ieee \in DriveTypes /\ dos \in DosTypes
    BY DEF Types
  <2> HIDE DEF IeeeInv, b
  <2> QED BY <2>1, HearTalk
<1>4. /\ u.listening = dos.listening /\ u.in = dos.in /\ u.talking = TRUE /\ u.opening = dos.opening
      /\ u.chan = dos.chan /\ u.pos = dos.pos
  BY <1>3 DEF DosTalk, DosTypes, Types
<1>5. ~dos.listening /\ ~dos.opening
  BY DEF Plan
<1>6. Plan(ctl, e, u, pet', dropped)
  <2>1. ieee.pending => ieee.pchan = pet.chan \/ ieee.pchan \in dropped
    BY <1>1 DEF Plan, ReadPlan
  <2>2. ReadPlan(ctl, e, u, pet', dropped)
    BY <1>1, <1>2, <1>3, <2>1 DEF ReadPlan
  <2> QED BY <1>1, <1>3, <1>4, <1>5, <2>2 DEF Plan, Reads
<1>7. Addressed(ctl, e, u, pet') /\ Arrives(ctl, u, pet')
  BY <1>1 DEF Addressed, Arrives
<1>8. Bytes(e, u, pet', got, dropped)
  <2>1. \A x : Due(pet, x) <=> x = T8 \/ x = b
    BY DueIs
  <2>2. \A x : Due(pet', x) <=> x = b
    BY <1>2, DueIs
  <2>3. \A c : Secondary("open", c) # T8 /\ Secondary("open", c) # b
    BY Bus DEF SecondaryKinds
  <2>4. \A c \in DosChannels : Opens(pet, c) => Opens(pet', c)
    BY <2>1, <2>3 DEF Opens
  <2>5. Left(pet') = <<Secondary("open", pet'.chan)>> => u.listening
    <3>1. <<b>>[1] = b /\ <<Secondary("open", pet'.chan)>>[1] = Secondary("open", pet'.chan)
      BY Ahead
    <3> QED BY <1>2, <2>3, <3>1
  <2> HIDE DEF b
  <2> QED BY <1>1, <1>3, <1>4, <2>1, <2>2, <2>4, <2>5, BytesAfterCall
<1> QED BY <1>2, <1>3, <1>6, <1>7, <1>8, Heard

LEMMA HeardTksa ==
  ASSUME IeeeInv, PetDav, ~ctl.atn, pet.next = "read", Left(pet) = <<Secondary("data", pet.chan)>>,
         ieee.ourTalk, ~ieee.ourListen, ieee.pending => ieee.talker, pet.swapped \/ ieee.talker
  PROVE  IeeeInv'
<1> USE DEF IeeeInv
<1> DEFINE b == Secondary("data", pet.chan)
<1>1. /\ pet.at = "dav" /\ pet.todo # <<>> /\ Left(pet) = pet.todo /\ Left(pet') = Tail(pet.todo)
      /\ pet' \in PetTypes /\ pet'.at = "accepted" /\ pet'.todo = pet.todo /\ pet'.next = pet.next
      /\ pet'.chan = pet.chan /\ pet'.sent = pet.sent /\ pet'.swapped = pet.swapped
      /\ pet'.chan \in DosChannels
  BY DavGoto
<1>2. pet.todo[1] = b /\ Left(pet') = <<>>
  <2>1. <<b>>[1] = b /\ Tail(<<b>>) = <<>>
    BY Ahead
  <2> QED BY <1>1, <2>1
<1>3. PICK e \in DriveTypes, u \in DosTypes :
            /\ Command(Both(ieee, dos), b) = Both(e, u) /\ SameLines(ieee, e) /\ u = DosTksa(dos, b)
            /\ e.pending = (ieee.pending /\ pet.chan = ieee.pchan) /\ e.pchan = pet.chan
            /\ e.listener = ieee.listener /\ e.talker = ieee.talker
  <2>1. "data" \in SecondaryKinds
    BY DEF SecondaryKinds
  <2> QED BY <1>1, <2>1, HearTksa DEF Types
<1>4. /\ u.listening = dos.listening /\ u.in = dos.in /\ u.talking = dos.talking /\ u.opening = dos.opening
      /\ u.pos = dos.pos /\ (dos.talking => u.chan = pet.chan)
  BY <1>3 DEF DosTksa, Secondary, DosTypes, Types
<1>5. /\ ~dos.listening /\ ~dos.opening /\ ~ieee.listener /\ (dos.talking => ieee.talker)
      /\ (ieee.pending => ieee.pchan = pet.chan \/ ieee.pchan \in dropped)
  BY <1>1 DEF Plan, ReadPlan
<1>6. Plan(ctl, e, u, pet', dropped)
  <2>1. ReadPlan(ctl, e, u, pet', dropped)
    BY <1>1, <1>2, <1>3, <1>4, <1>5 DEF ReadPlan
  <2> QED BY <1>1, <1>3, <1>4, <1>5, <2>1 DEF Plan, Reads
<1>7. Addressed(ctl, e, u, pet') /\ Arrives(ctl, u, pet')
  BY <1>1 DEF Addressed, Arrives
<1>8. Bytes(e, u, pet', got, dropped)
  <2>1. \A x : Due(pet, x) <=> x = b
    BY DueIs
  <2>2. \A x : ~Due(pet', x)
    BY <1>2, DueIs
  <2>3. \A c : ~Opens(pet', c) /\ ~Opens(pet, c)
    BY <2>1, <2>2, Bus DEF Opens, SecondaryKinds
  <2>4. Left(pet') # <<Secondary("open", pet'.chan)>>
    <3>1. Len(<<Secondary("open", pet'.chan)>>) = 1
      BY Ahead
    <3> QED BY <1>2, <3>1
  <2>5. ASSUME NEW c \in DosChannels \ dropped PROVE FileBytes(e, u, pet', got, c)
    <3>1. FileBytes(ieee, dos, pet, got, c) /\ (ieee.pending /\ ieee.pchan = c => c = pet.chan)
      BY <1>5, <2>5 DEF Bytes
    <3>2. Keeps(e, c) = Keeps(ieee, c)
      BY <1>3, <3>1 DEF Keeps
    <3>3. e.pbyte = ieee.pbyte
      BY <1>3 DEF SameLines
    <3>4. (dos.pos[c] = FileLen \/ dos.pos[c] = Len(got[c]) + Keeps(ieee, c))
          /\ (ieee.pending /\ ieee.pchan = c => ieee.pbyte = Byte(Len(got[c]) + 1))
      BY <1>5, <2>3, <3>1 DEF FileBytes
    <3>5. e.pending /\ e.pchan = c => ieee.pending /\ ieee.pchan = c
      BY <1>3
    <3> QED BY <1>4, <3>1, <3>2, <3>3, <3>4, <3>5 DEF FileBytes
  <2> QED BY <1>1, <1>3, <1>4, <1>5, <2>2, <2>3, <2>4, <2>5 DEF Bytes
<1> QED BY <1>2, <1>3, <1>6, <1>7, <1>8, Heard

LEMMA HeardClose ==
  ASSUME IeeeInv, PetDav, ~ctl.atn, pet.next = "done", Left(pet) = <<Secondary("close", pet.chan), UL>>,
         ieee.ourListen, ~ieee.talker
  PROVE  IeeeInv'
<1> USE DEF IeeeInv
<1> DEFINE b == Secondary("close", pet.chan)
<1>1. /\ pet.at = "dav" /\ pet.todo # <<>> /\ Left(pet) = pet.todo /\ Left(pet') = Tail(pet.todo)
      /\ pet' \in PetTypes /\ pet'.at = "accepted" /\ pet'.todo = pet.todo /\ pet'.next = pet.next
      /\ pet'.chan = pet.chan /\ pet'.sent = pet.sent /\ pet'.swapped = pet.swapped
      /\ pet'.chan \in DosChannels
  BY DavGoto
<1>2. pet.todo[1] = b /\ Left(pet') = <<UL>>
  <2>1. <<b, UL>>[1] = b /\ Tail(<<b, UL>>) = <<UL>>
    BY Ahead
  <2> QED BY <1>1, <2>1
<1>3. PICK e \in DriveTypes, u \in DosTypes :
            /\ Command(Both(ieee, dos), b) = Both(e, u) /\ SameLines(ieee, e) /\ u = DosSecond(dos, b)
            /\ ~e.pending /\ e.ourListen /\ e.listener = ieee.listener /\ e.talker = ieee.talker
  <2>1. "close" \in SecondaryKinds
    BY DEF SecondaryKinds
  <2> QED BY <1>1, <2>1, HearSecond DEF Types
<1>4. ~dos.talking /\ ~dos.opening /\ (dos.listening => ieee.listener)
  <2>1. Due(pet, b)
    BY DueIs
  <2>2. "close" \in SecondaryKinds
    BY DEF SecondaryKinds
  <2> QED BY <1>1, <2>1, <2>2 DEF Plan, Bytes
<1>5. /\ u.listening = dos.listening /\ u.in = dos.in /\ u.talking = dos.talking /\ ~u.opening
      /\ \A c \in DosChannels : u.pos[c] = dos.pos[c] \/ u.pos[c] = FileLen
  <2>1. CASE ~dos.listening
    BY <1>3, <1>4, <2>1 DEF DosSecond
  <2>2. CASE dos.listening
    <3> DEFINE q == [dos.pos EXCEPT ![pet.chan] = FileLen]
               o == b[1] = "open"
    <3>1. u = [dos EXCEPT !.chan = pet.chan, !.opening = o, !.pos = q]
      BY <1>3, <2>2 DEF DosSecond, Secondary, DosTypes, Types
    <3>2. \A c \in DosChannels : q[c] = dos.pos[c] \/ q[c] = FileLen
      BY DEF DosTypes, Types
    <3>3. ~o
      BY DEF Secondary
    <3> HIDE DEF q, o
    <3>4. u.listening = dos.listening /\ u.in = dos.in /\ u.talking = dos.talking /\ u.opening = o /\ u.pos = q
      BY <3>1 DEF DosTypes, Types
    <3> QED BY <3>2, <3>3, <3>4
  <2> QED BY <2>1, <2>2
<1>6. Plan(ctl, e, u, pet', dropped)
  <2>1. DonePlan(ctl, e, pet')
    BY <1>1, <1>2, <1>3 DEF DonePlan
  <2> QED BY <1>1, <1>3, <1>4, <1>5, <2>1 DEF Plan, Reads
<1>7. Addressed(ctl, e, u, pet') /\ Arrives(ctl, u, pet')
  BY <1>1 DEF Addressed, Arrives
<1>8. Bytes(e, u, pet', got, dropped)
  <2>1. \A x : Due(pet, x) <=> x = b \/ x = UL
    BY DueIs
  <2>2. \A x : Due(pet', x) <=> x = UL
    BY <1>2, DueIs
  <2>3. \A k \in SecondaryKinds : \A c : Secondary(k, c) # UL
    BY Bus
  <2>4. \A c : ~Opens(pet', c) /\ ~Opens(pet, c)
    BY <2>1, <2>2, <2>3, Bus DEF Opens, SecondaryKinds
  <2>5. Left(pet') # <<Secondary("open", pet'.chan)>>
    <3>1. <<UL>>[1] = UL /\ <<Secondary("open", pet'.chan)>>[1] = Secondary("open", pet'.chan)
      BY Ahead
    <3> QED BY <1>2, <2>3, <3>1 DEF SecondaryKinds
  <2>6. ASSUME NEW c \in DosChannels \ dropped PROVE FileBytes(e, u, pet', got, c)
    <3>1. FileBytes(ieee, dos, pet, got, c) /\ ~(ieee.pending /\ ieee.pchan = c)
      BY <2>1, <2>6 DEF Bytes
    <3>2. Keeps(e, c) = 0 /\ Keeps(ieee, c) = 0
      BY <1>3, <3>1 DEF Keeps
    <3>3. dos.pos[c] = FileLen \/ dos.pos[c] = Len(got[c]) + 0
      BY <1>4, <2>4, <3>1, <3>2 DEF FileBytes
    <3> QED BY <1>3, <1>5, <3>1, <3>2, <3>3 DEF FileBytes
  <2>7. \A k \in SecondaryKinds : ~Due(pet', Secondary(k, pet'.chan))
    BY <2>2, <2>3
  <2> QED BY <1>1, <1>3, <1>5, <2>4, <2>5, <2>6, <2>7 DEF Bytes
<1> QED BY <1>2, <1>3, <1>6, <1>7, <1>8, Heard

LEMMA HeardUnlisten ==
  ASSUME IeeeInv, PetDav, ~ctl.atn, pet.next = "done", Left(pet) = <<UL>>, ~ieee.talker, ~ieee.pending
  PROVE  IeeeInv'
<1> USE DEF IeeeInv
<1>1. /\ pet.at = "dav" /\ pet.todo # <<>> /\ Left(pet) = pet.todo /\ Left(pet') = Tail(pet.todo)
      /\ pet' \in PetTypes /\ pet'.at = "accepted" /\ pet'.todo = pet.todo /\ pet'.next = pet.next
      /\ pet'.chan = pet.chan /\ pet'.sent = pet.sent /\ pet'.swapped = pet.swapped
      /\ pet'.chan \in DosChannels
  BY DavGoto
<1>2. pet.todo[1] = UL /\ Left(pet') = <<>>
  <2>1. <<UL>>[1] = UL /\ Tail(<<UL>>) = <<>>
    BY Ahead
  <2> QED BY <1>1, <2>1
<1>3. PICK e \in DriveTypes, u \in DosTypes :
            /\ Command(Both(ieee, dos), UL) = Both(e, u) /\ SameLines(ieee, e)
            /\ u = (IF ieee.listener THEN DosUnlisten(dos) ELSE dos)
            /\ ~e.listener /\ e.talker = ieee.talker /\ e.pending = ieee.pending /\ e.pchan = ieee.pchan
  BY HearUnlisten DEF Types
<1>4. ~dos.talking /\ (dos.opening => dos.listening) /\ (dos.listening => ieee.listener)
  BY DEF Plan
<1>5. /\ ~u.listening /\ ~u.talking /\ ~u.opening
      /\ \A c \in DosChannels : u.pos[c] = IF dos.opening /\ dos.chan = c THEN 0 ELSE dos.pos[c]
  <2>1. CASE ~dos.listening
    BY <1>3, <1>4, <2>1 DEF DosUnlisten
  <2>2. CASE dos.listening
    <3> DEFINE at == IF dos.opening THEN 0 ELSE dos.pos[dos.chan]
               q == [dos.pos EXCEPT ![dos.chan] = at]
    <3>1. u = [dos EXCEPT !.listening = FALSE, !.opening = FALSE, !.pos = q]
      BY <1>3, <1>4, <2>2 DEF DosUnlisten, DosTypes, Types
    <3>2. \A c \in DosChannels : q[c] = IF dos.opening /\ dos.chan = c THEN 0 ELSE dos.pos[c]
      BY DEF DosTypes, Types
    <3> HIDE DEF q
    <3>3. u.listening = FALSE /\ u.talking = dos.talking /\ u.opening = FALSE /\ u.pos = q
      BY <3>1 DEF DosTypes, Types
    <3> QED BY <1>4, <3>2, <3>3
  <2> QED BY <2>1, <2>2
<1>6. Plan(ctl, e, u, pet', dropped)
  <2>1. DonePlan(ctl, e, pet')
    BY <1>1, <1>2, <1>3 DEF DonePlan, Quiet
  <2> QED BY <1>1, <1>3, <1>4, <1>5, <2>1 DEF Plan, Reads
<1>7. Addressed(ctl, e, u, pet') /\ Arrives(ctl, u, pet')
  BY <1>1 DEF Addressed, Arrives
<1>8. Bytes(e, u, pet', got, dropped)
  <2>1. \A x : Due(pet, x) <=> x = UL
    BY DueIs
  <2>2. \A x : ~Due(pet', x)
    BY <1>2, DueIs
  <2>3. \A k \in SecondaryKinds : \A c : Secondary(k, c) # UL
    BY Bus
  <2>4. \A c : ~Opens(pet', c) /\ ~Opens(pet, c)
    BY <2>1, <2>2, <2>3 DEF Opens, SecondaryKinds
  <2>5. Left(pet') # <<Secondary("open", pet'.chan)>>
    <3>1. Len(<<Secondary("open", pet'.chan)>>) = 1
      BY Ahead
    <3> QED BY <1>2, <3>1
  <2>6. ASSUME NEW c \in DosChannels \ dropped PROVE FileBytes(e, u, pet', got, c)
    <3>1. FileBytes(ieee, dos, pet, got, c)
      BY <2>6 DEF Bytes
    <3>2. Keeps(e, c) = 0 /\ Keeps(ieee, c) = 0
      BY <1>3 DEF Keeps
    <3>3. CASE dos.opening /\ dos.chan = c
      <4>1. got[c] = <<>>
        BY <3>3 DEF Bytes
      <4>2. u.pos[c] = 0
        BY <1>5, <3>3
      <4> QED BY <1>3, <3>1, <3>2, <4>1, <4>2 DEF FileBytes
    <3>4. CASE ~(dos.opening /\ dos.chan = c)
      <4>1. u.pos[c] = dos.pos[c]
        BY <1>5, <3>4
      <4> QED BY <1>3, <2>4, <3>1, <3>2, <3>4, <4>1 DEF FileBytes
    <3> QED BY <3>3, <3>4
  <2> QED BY <1>1, <1>3, <1>5, <2>2, <2>4, <2>5, <2>6 DEF Bytes
<1> QED BY <1>2, <1>3, <1>6, <1>7, <1>8, Heard

LEMMA HeardUntalk ==
  ASSUME IeeeInv, PetDav, ~ctl.atn, pet.next = "done", Left(pet) = <<UT>>, ~ieee.listener
  PROVE  IeeeInv'
<1> USE DEF IeeeInv
<1>1. /\ pet.at = "dav" /\ pet.todo # <<>> /\ Left(pet) = pet.todo /\ Left(pet') = Tail(pet.todo)
      /\ pet' \in PetTypes /\ pet'.at = "accepted" /\ pet'.todo = pet.todo /\ pet'.next = pet.next
      /\ pet'.chan = pet.chan /\ pet'.sent = pet.sent /\ pet'.swapped = pet.swapped
      /\ pet'.chan \in DosChannels
  BY DavGoto
<1>2. pet.todo[1] = UT /\ Left(pet') = <<>>
  <2>1. <<UT>>[1] = UT /\ Tail(<<UT>>) = <<>>
    BY Ahead
  <2> QED BY <1>1, <2>1
<1>3. PICK e \in DriveTypes, u \in DosTypes :
            /\ Command(Both(ieee, dos), UT) = Both(e, u) /\ SameLines(ieee, e)
            /\ u = (IF ieee.talker THEN DosUntalk(dos) ELSE dos)
            /\ ~e.talker /\ e.listener = ieee.listener /\ e.pending = ieee.pending /\ e.pchan = ieee.pchan
  BY HearUntalk DEF Types
<1>4. ~dos.listening /\ ~dos.opening /\ (dos.talking => ieee.talker)
  BY DEF Plan
<1>5. ~u.listening /\ ~u.talking /\ ~u.opening /\ u.pos = dos.pos /\ u.opening = dos.opening /\ u.chan = dos.chan
  BY <1>3, <1>4 DEF DosUntalk, DosTypes, Types
<1>6. Plan(ctl, e, u, pet', dropped)
  <2>1. DonePlan(ctl, e, pet')
    BY <1>1, <1>2, <1>3 DEF DonePlan, Quiet
  <2> QED BY <1>1, <1>3, <1>5, <2>1 DEF Plan, Reads
<1>7. Addressed(ctl, e, u, pet') /\ Arrives(ctl, u, pet')
  BY <1>1 DEF Addressed, Arrives
<1>8. Bytes(e, u, pet', got, dropped)
  <2>1. \A x : Due(pet, x) <=> x = UT
    BY DueIs
  <2>2. \A x : ~Due(pet', x)
    BY <1>2, DueIs
  <2>3. \A k \in SecondaryKinds : \A c : Secondary(k, c) # UT
    BY Bus
  <2>4. \A c \in DosChannels : Opens(pet, c) => Opens(pet', c)
    BY <2>1, <2>3 DEF Opens, SecondaryKinds
  <2>5. Left(pet') # <<Secondary("open", pet'.chan)>>
    <3>1. Len(<<Secondary("open", pet'.chan)>>) = 1
      BY Ahead
    <3> QED BY <1>2, <3>1
  <2> QED BY <1>1, <1>3, <1>5, <2>2, <2>4, <2>5, BytesAfterCall
<1> QED BY <1>2, <1>3, <1>6, <1>7, <1>8, Heard

\* A byte of data, to a listener or to nobody.
LEMMA HeardData ==
  ASSUME IeeeInv, PetDav, ctl.atn PROVE IeeeInv'
<1> USE DEF IeeeInv
<1> DEFINE c == [ctl EXCEPT !.dav = FALSE]
           b == pet.todo[1]
<1>1. /\ pet.at = "dav" /\ SetLines(c) /\ c # ctl /\ c \in CtlTypes /\ c.data = ctl.data /\ c.atn = ctl.atn /\ ~c.dav
      /\ c.nrfd = ctl.nrfd /\ c.ndac = ctl.ndac /\ ctl.data = pet.todo[1] /\ ctl.data # Free /\ pet.todo # <<>>
      /\ Left(pet) = pet.todo /\ Left(pet') = Tail(pet.todo)
      /\ pet' \in PetTypes /\ pet'.at = "accepted" /\ pet'.todo = pet.todo /\ pet'.next = pet.next
      /\ pet'.chan = pet.chan /\ pet'.sent = pet.sent /\ pet'.swapped = pet.swapped
      /\ got' = got /\ dropped' = dropped
  BY DavFalls
<1> HIDE DEF c
<1>2. /\ pet.next = "write" /\ ~ieee.talker /\ ~ieee.pending /\ \A i \in 1 .. Len(pet.todo) : pet.todo[i] \in AllBytes
      /\ pet.chan \in DosChannels
  BY <1>1 DEF Plan, WritePlan, DonePlan, ReadPlan, PetTypes, Types, Reads
<1>3. ieee.prevAtn = c.atn /\ c.atn /\ (ieee.listener => Awaits(ieee)) /\ ctl.ndac /\ ctl.nrfd
  BY <1>1 DEF Answers, CtlShape, Puts
<1>4. b \in BusValues
  BY <1>1 DEF CtlTypes, Types
<1>5. PICK d \in DriveTypes, u \in DosTypes :
            /\ ctl' = c /\ ieee' = d /\ dos' = u /\ SameState(ieee, d) /\ d.prevAtn = ieee.prevAtn
            /\ d.tentative = ieee.tentative /\ (d.listener => Took(d))
            /\ u.listening = dos.listening /\ u.talking = dos.talking /\ u.opening = dos.opening
            /\ u.chan = dos.chan /\ u.pos = dos.pos
            /\ ieee.listener /\ dos.listening => u.in = Append(dos.in, b)
  <2>1. CASE ieee.listener
    <3> DEFINE d == Taken(ieee)
               u == DosCiout(dos, b)
    <3>1. Step(c, Both(ieee, dos)) = Both(d, u)
      BY <1>1, <1>3, <2>1, DataTaken DEF Types
    <3>2. ctl' = c /\ ieee' = d /\ dos' = u
      BY <1>1, <3>1, LinesSet
    <3>3. /\ d \in DriveTypes /\ Took(d)
          /\ \A f \in {"listener", "talker", "ourListen", "ourTalk", "pending", "pbyte", "plast", "pchan", "prevAtn",
                       "tentative", "onBus", "ended"} : d[f] = ieee[f]
      BY <1>3, <2>1, TakenTypes DEF Types
    <3> HIDE DEF d
    <3>4. SameState(ieee, d) /\ d.prevAtn = ieee.prevAtn /\ d.tentative = ieee.tentative
      BY <3>3 DEF SameState
    <3>5. u \in DosTypes
      BY <1>4, DosTyped DEF Types
    <3>6. /\ u.listening = dos.listening /\ u.talking = dos.talking /\ u.opening = dos.opening
          /\ u.chan = dos.chan /\ u.pos = dos.pos
          /\ dos.listening => u.in = Append(dos.in, b)
      BY DEF DosCiout, DosTypes, Types
    <3> HIDE DEF u
    <3> QED BY <3>2, <3>3, <3>4, <3>5, <3>6
  <2>2. CASE ~ieee.listener
    <3>1. ctl' = c /\ ieee' = ieee /\ dos' = dos
      BY <1>1, <1>2, <1>3, <2>2, LinesStay DEF Types
    <3> QED BY <2>2, <3>1 DEF Types, SameState
  <2> QED BY <2>1, <2>2
<1> HIDE DEF b
<1>6. Types'
  BY <1>1, <1>5 DEF Types
<1>7. CtlShape(c, pet')
  BY <1>1, <1>3 DEF CtlShape, Puts, Reads
<1>8. Answers(c, d, pet')
  BY <1>1, <1>3, <1>5 DEF Answers
<1>9. Plan(c, d, u, pet', dropped)
  <2>1. WritePlan(c, d, pet')
    BY <1>1, <1>2, <1>3, <1>5 DEF WritePlan, SameState
  <2> QED BY <1>1, <1>2, <1>5, <2>1 DEF Plan, SameState, Reads
<1>10. Addressed(c, d, u, pet')
  BY <1>1, <1>3, <1>5 DEF Addressed, SameState
<1>11. Arrives(c, u, pet')
  <2>1. ~pet.swapped => ieee.listener /\ dos.listening /\ dos.in = pet.sent
    BY <1>1, <1>2, <1>3 DEF Addressed, Arrives
  <2>2. ~pet.swapped => u.in = Append(pet.sent, pet.todo[1])
    BY <1>5, <2>1 DEF b
  <2> QED BY <1>1, <1>3, <2>2 DEF Arrives
<1>12. Talks(c, d, pet', got, dropped)
  BY <1>1, <1>5 DEF Talks, Reads
<1>13. Bytes(d, u, pet', got, dropped)
  <2>1. \A i \in 1 .. Len(Tail(pet.todo)) : Tail(pet.todo)[i] \in AllBytes
    <3> DEFINE t == Tail(pet.todo)
    <3>1. \A i \in 1 .. Len(t) : t[i] = pet.todo[i + 1] /\ i + 1 \in 1 .. Len(pet.todo)
      BY <1>1 DEF PetTypes, Types
    <3> HIDE DEF t
    <3>2. \A i \in 1 .. Len(t) : t[i] \in AllBytes
      BY <1>2, <3>1
    <3> QED BY <3>2 DEF t
  <2>2. \A k \in SecondaryKinds : \A x : Secondary(k, x) \notin AllBytes
    BY DEF Secondary, SecondaryKinds, AllBytes, Byte
  <2>3. \A k \in SecondaryKinds : \A x : ~Due(pet, Secondary(k, x))
    BY <1>1, <1>2, <2>2 DEF Due
  <2> DEFINE t == Left(pet')
  <2>4. \A i \in 1 .. Len(t) : t[i] \in AllBytes
    BY <1>1, <2>1
  <2>5. \A k \in SecondaryKinds : \A x : ~Due(pet', Secondary(k, x))
    <3>1. \A x : Due(pet', x) <=> \E i \in 1 .. Len(t) : t[i] = x
      BY DEF Due
    <3> HIDE DEF t
    <3> QED BY <2>2, <2>4, <3>1
  <2>6. \A x : ~Opens(pet', x) /\ ~Opens(pet, x)
    BY <2>3, <2>5 DEF Opens, SecondaryKinds
  <2>7. Left(pet') # <<Secondary("open", pet'.chan)>>
    <3>1. <<Secondary("open", pet'.chan)>>[1] = Secondary("open", pet'.chan) /\ Len(<<Secondary("open", pet'.chan)>>) = 1
      BY Ahead
    <3>2. ~Due(pet', Secondary("open", pet'.chan))
      BY <2>6 DEF Opens
    <3>3. 1 \in 1 .. 1
      OBVIOUS
    <3> QED BY <3>1, <3>2, <3>3 DEF Due
  <2>8. \A x : FileBytes(ieee, dos, pet, got, x) => FileBytes(d, u, pet', got, x)
    BY <1>5, <2>6 DEF FileBytes, Keeps, SameState
  <2>9. ~d.pending
    BY <1>2, <1>5 DEF SameState
  <2> QED BY <1>1, <1>2, <1>5, <2>5, <2>6, <2>7, <2>8, <2>9 DEF Bytes
<1> QED BY <1>1, <1>5, <1>6, <1>7, <1>8, <1>9, <1>10, <1>11, <1>12, <1>13

LEMMA TakesByte ==
  ASSUME IeeeInv, PetDav PROVE IeeeInv'
<1>1. CASE ctl.atn
  BY <1>1, HeardData
<1>2. CASE ~ctl.atn
  <2>1. pet.at = "dav" /\ Left(pet) = pet.todo /\ pet.todo # <<>> /\ pet.next \in {"write", "read", "done"}
    BY DavFalls, DavGoto DEF IeeeInv, Types, PetTypes
  <2>2. CASE pet.next = "write"
    <3>1. WritePlan(ctl, ieee, pet)
      BY <2>1, <2>2 DEF IeeeInv, Plan
    <3>2. \/ \E k \in {"open", "data"} : Left(pet) = <<L8, Secondary(k, pet.chan)>> /\ Quiet(ieee)
          \/ \E k \in {"open", "data"} : Left(pet) = <<Secondary(k, pet.chan)>> /\ ieee.ourListen
      BY <1>2, <2>1, <3>1 DEF WritePlan
    <3> QED BY <1>2, <2>2, <3>2, HeardListenToWrite, HeardSecondToWrite
  <2>3. CASE pet.next = "done"
    <3>1. DonePlan(ctl, ieee, pet)
      BY <2>1, <2>3 DEF IeeeInv, Plan
    <3>2. \/ Left(pet) = <<L8, Secondary("close", pet.chan), UL>> /\ Quiet(ieee)
          \/ Left(pet) = <<Secondary("close", pet.chan), UL>> /\ ieee.ourListen /\ ~ieee.talker
          \/ Left(pet) = <<UL>> /\ ~ieee.talker /\ ~ieee.pending
          \/ Left(pet) = <<UT>> /\ ~ieee.listener
          \/ \E b \in Others : Left(pet) = <<b, Secondary("data", pet.chan)>> /\ Quiet(ieee)
          \/ Left(pet) = <<Secondary("data", pet.chan)>> /\ Quiet(ieee) /\ ~ieee.ourListen /\ ~ieee.ourTalk
      BY <2>1, <3>1, Zenon DEF DonePlan
    <3> QED BY <1>2, <2>3, <3>2, HeardListenToClose, HeardClose, HeardUnlisten, HeardUntalk, HeardOther, HeardOthersSecond
  <2>4. CASE pet.next = "read"
    <3>1. ReadPlan(ctl, ieee, dos, pet, dropped)
      BY <2>1, <2>4 DEF IeeeInv, Plan
    <3>2. ~ieee.listener
      BY <3>1 DEF ReadPlan
    <3>3. \/ Left(pet) = <<T8, Secondary("data", pet.chan)>> /\ ~ieee.talker
          \/ Left(pet) = <<Secondary("data", pet.chan)>> /\ ieee.ourTalk /\ ~ieee.ourListen /\ (ieee.pending => ieee.talker)
             /\ (pet.swapped \/ ieee.talker)
      BY <2>1, <3>1 DEF ReadPlan
    <3> QED BY <1>2, <2>4, <3>2, <3>3, HeardTalk, HeardTksa
  <2> QED BY <2>1, <2>2, <2>3, <2>4
<1> QED BY <1>1, <1>2
-----------------------------------------------------------------------------
(***************************************************************************)
(* Reading.  The commands are out and the computer holds NRFD and NDAC.    *)
(***************************************************************************)
LEMMA ReadOn ==
  ASSUME IeeeInv, NEW c \in CtlTypes, NEW d \in DriveTypes, NEW u \in DosTypes, NEW p \in PetTypes,
         ctl' = c, ieee' = d, dos' = u, pet' = p, got' \in [DosChannels -> Seq(BusValues)], dropped' = dropped,
         pet.next = "read", pet.at # "idle", Left(pet) = <<>>, p.next = "read", p.todo = <<>>, p.chan = pet.chan,
         p.swapped = pet.swapped, p.at \in Reads \cup {"turn", "turned"}, c.atn = ctl.atn, c.atn => p.at \in Reads, ~c.atn => Awaits(d),
         d.prevAtn = ieee.prevAtn, d.listener = ieee.listener, d.talker = ieee.talker, d.pchan = ieee.pchan,
         d.pending => d.talker, u.listening = dos.listening, u.talking = dos.talking, u.opening = dos.opening,
         u.chan = dos.chan,
         p.at \in {"ready", "busy"} /\ d.onBus /\ p.chan \notin dropped => d.pending \/ u.pos[p.chan] = FileLen,
         CtlShape(c, p), Talks(c, d, p, got', dropped), Bytes(d, u, p, got', dropped)
  PROVE  IeeeInv'
<1> USE DEF IeeeInv
<1>1. Types'
  BY DEF Types
<1>2. Left(p) = <<>> /\ p.at # "accepted" /\ p.at # "idle"
  BY DEF Left, Reads
<1>3. ReadPlan(ctl, ieee, dos, pet, dropped)
  BY DEF Plan
<1>4. ~ieee.listener /\ ieee.pchan = pet.chan /\ (dos.talking => dos.chan = pet.chan) /\ ieee.prevAtn = ctl.atn
      /\ (pet.swapped \/ ieee.talker)
  <2>1. \A x, y : Len(<<x, y>>) = 2 /\ Len(<<x>>) = 1
    OBVIOUS
  <2> QED BY <1>3, <2>1 DEF ReadPlan, Answers
<1>5. Answers(c, d, p)
  BY <1>2, <1>4 DEF Answers
<1>6. Plan(c, d, u, p, dropped)
  <2>1. ReadPlan(c, d, u, p, dropped)
    BY <1>2, <1>4 DEF ReadPlan
  <2> QED BY <1>2, <2>1 DEF Plan
<1>7. Addressed(c, d, u, p) /\ Arrives(c, u, p)
  BY DEF Addressed, Arrives
<1> QED BY <1>1, <1>5, <1>6, <1>7

\* What holds while reading, before any byte.
LEMMA ReadState ==
  ASSUME IeeeInv, pet.next = "read", pet.todo = <<>>, pet.at # "idle"
  PROVE  /\ Left(pet) = <<>> /\ pet.chan \in DosChannels /\ ~ieee.listener /\ ieee.pchan = pet.chan
         /\ (dos.talking => dos.chan = pet.chan /\ ieee.talker) /\ ieee.prevAtn = ctl.atn /\ (pet.swapped \/ ieee.talker)
         /\ (ieee.pending => ieee.talker) /\ ~dos.opening
         /\ (pet.at \in {"ready", "busy"} /\ ieee.onBus /\ pet.chan \notin dropped => ieee.pending \/ dos.pos[pet.chan] = FileLen)
         /\ \A c \in DosChannels \ dropped :
               /\ got[c] = [i \in 1 .. Len(got[c]) |-> Byte(i)]
               /\ dos.pos[c] = FileLen \/ dos.pos[c] = Len(got[c]) + Keeps(ieee, c)
               /\ ieee.pending /\ ieee.pchan = c => ieee.pbyte = Byte(Len(got[c]) + 1)
<1> USE DEF IeeeInv
<1>1. pet.at \notin {"accepted", "clear"}
  BY DEF CtlShape, Puts
<1>2. Left(pet) = <<>>
  BY <1>1 DEF Left
<1>3. ReadPlan(ctl, ieee, dos, pet, dropped) /\ pet.chan \in DosChannels /\ (dos.talking => ieee.talker)
  BY DEF Plan
<1>4. /\ ~ieee.listener /\ ieee.pchan = pet.chan /\ (dos.talking => dos.chan = pet.chan) /\ (ieee.pending => ieee.talker)
      /\ (pet.swapped \/ ieee.talker)
      /\ (pet.at \in {"ready", "busy"} /\ ieee.onBus /\ pet.chan \notin dropped => ieee.pending \/ dos.pos[pet.chan] = FileLen)
  <2>1. \A x, y : Len(<<x, y>>) = 2 /\ Len(<<x>>) = 1
    OBVIOUS
  <2> QED BY <1>2, <1>3, <2>1 DEF ReadPlan
<1>5. ~dos.opening
  BY DEF Bytes
<1>6. \A c : ~Opens(pet, c)
  BY <1>2 DEF Opens, Due
<1>7. \A c \in DosChannels \ dropped : FileBytes(ieee, dos, pet, got, c)
  BY DEF Bytes
<1> QED BY <1>2, <1>3, <1>4, <1>5, <1>6, <1>7 DEF FileBytes, Answers

\* The same of the files is what has to hold after a step.
LEMMA ReadBytes ==
  ASSUME NEW d, NEW u, NEW p, NEW g, NEW lost, p.next = "read", Left(p) = <<>>, ~u.opening,
         d.pending => d.pchan \in DosChannels,
         \A c \in DosChannels \ lost :
               /\ g[c] = [i \in 1 .. Len(g[c]) |-> Byte(i)]
               /\ u.pos[c] = FileLen \/ u.pos[c] = Len(g[c]) + Keeps(d, c)
               /\ d.pending /\ d.pchan = c => d.pbyte = Byte(Len(g[c]) + 1)
  PROVE  Bytes(d, u, p, g, lost)
<1>1. \A k : ~Due(p, k)
  BY DEF Due
<1>2. Left(p) # <<Secondary("open", p.chan)>>
  <2>1. Len(<<Secondary("open", p.chan)>>) = 1
    BY Ahead
  <2> QED BY <2>1
<1>3. \A c \in DosChannels \ lost : FileBytes(d, u, p, g, c)
  BY DEF FileBytes
<1> QED BY <1>1, <1>2, <1>3 DEF Bytes, Opens

\* The drive does nothing.
LEMMA ReadStays ==
  ASSUME IeeeInv, pet.next = "read", pet.todo = <<>>, pet.at # "idle",
         NEW c \in CtlTypes, NEW p \in PetTypes, ctl' = c, ieee' = ieee, dos' = dos, pet' = p, got' = got, dropped' = dropped,
         p.next = "read", p.todo = <<>>, p.chan = pet.chan, p.swapped = pet.swapped, p.at \in Reads \cup {"turn", "turned"}, c.atn = ctl.atn,
         c.atn => p.at \in Reads, p.at \in {"ready", "busy"} => pet.at \in {"ready", "busy"} \/ ~ieee.onBus,
         CtlShape(c, p), Talks(c, ieee, p, got, dropped)
  PROVE  IeeeInv'
<1>1. /\ Left(pet) = <<>> /\ pet.chan \in DosChannels /\ ieee.prevAtn = ctl.atn /\ (ieee.pending => ieee.talker)
      /\ (pet.at \in {"ready", "busy"} /\ ieee.onBus /\ pet.chan \notin dropped => ieee.pending \/ dos.pos[pet.chan] = FileLen)
  BY ReadState
<1>2. ~ctl.atn => Awaits(ieee)
  <2>1. pet.at # "accepted"
    BY DEF IeeeInv, CtlShape, Puts
  <2> QED BY <2>1 DEF IeeeInv, Answers
<1>3. Left(p) = Left(pet)
  BY <1>1 DEF Left, Reads
<1>4. Bytes(ieee, dos, p, got', dropped)
  BY <1>3, BytesStay DEF IeeeInv
<1>5. got' \in [DosChannels -> Seq(BusValues)] /\ ieee \in DriveTypes /\ dos \in DosTypes
  BY DEF IeeeInv, Types
<1>6. Talks(c, ieee, p, got', dropped)
  OBVIOUS
<1>7. p.at \in {"ready", "busy"} /\ ieee.onBus /\ p.chan \notin dropped => ieee.pending \/ dos.pos[p.chan] = FileLen
  BY <1>1
<1> HIDE DEF IeeeInv
<1> QED BY <1>1, <1>2, <1>4, <1>5, <1>6, <1>7, ReadOn

LEMMA Turning ==
  ASSUME IeeeInv, PetTurnNrfd \/ PetTurnNdac PROVE IeeeInv'
<1> DEFINE c == IF pet.at = "send" THEN [ctl EXCEPT !.nrfd = FALSE] ELSE [ctl EXCEPT !.ndac = FALSE]
           a == IF pet.at = "send" THEN "turn" ELSE "turned"
           p == [pet EXCEPT !.at = a]
<1>1. /\ pet.at \in {"send", "turn"} /\ SetLines(c) /\ pet' = p /\ got' = got /\ dropped' = dropped
      /\ pet.at = "send" => pet.todo = <<>> /\ ~ctl.atn /\ pet.next = "read"
  BY DEF PetTurnNrfd, PetTurnNdac, Set, Goto, hist
<1>2. ~ctl.atn /\ pet.next = "read" /\ pet.todo = <<>> /\ ctl.dav /\ ctl.data = Free
  BY <1>1 DEF IeeeInv, Plan, CtlShape, Puts
<1>3. /\ c \in CtlTypes /\ c.atn = ctl.atn /\ c.dav = ctl.dav /\ c.data = ctl.data /\ ~c.nrfd
      /\ (IF pet.at = "send" THEN c.ndac = ctl.ndac ELSE ~c.ndac)
  BY <1>1 DEF IeeeInv, Types, CtlTypes, CtlShape
<1>4. a \in PetAts /\ a = (IF pet.at = "send" THEN "turn" ELSE "turned") /\ a \notin Reads \cup Puts \cup {"idle", "send"}
  BY DEF PetAts, Reads, Puts
<1> HIDE DEF c, a
<1>5. /\ p \in PetTypes /\ p.at = a /\ p.todo = pet.todo /\ p.next = pet.next /\ p.chan = pet.chan /\ p.swapped = pet.swapped
  BY <1>4 DEF IeeeInv, Types, PetTypes
<1> HIDE DEF p
<1>6. ctl' = c /\ ieee' = ieee /\ dos' = dos
  <2>1. Awaits(ieee) /\ ieee.prevAtn = c.atn
    BY <1>1, <1>2, <1>3 DEF IeeeInv, Answers
  <2>2. (~c.atn \/ ieee.listener) /\ Awaits(ieee) /\ c.dav
    BY <1>2, <1>3, <2>1
  <2> QED BY <1>1, <1>3, <2>1, <2>2, LinesStay DEF IeeeInv, Types
<1>7. CtlShape(c, p)
  BY <1>1, <1>2, <1>3, <1>4, <1>5 DEF IeeeInv, CtlShape, Puts, Reads
<1>8. Talks(c, ieee, p, got, dropped)
  BY <1>1, <1>4, <1>5 DEF IeeeInv, Talks, Reads
<1>9. p.at \notin {"ready", "busy"} /\ p.at \in Reads \cup {"turn", "turned"}
  BY <1>4, <1>5 DEF Reads
<1> HIDE DEF IeeeInv
<1> QED BY <1>1, <1>2, <1>3, <1>5, <1>6, <1>7, <1>8, <1>9, ReadStays

\* NRFD goes up while the computer holds NDAC: a talker shows its next byte, or has no more.
LEMMA ReadyFor ==
  ASSUME IeeeInv, pet.at \in {"recv", "letgo"}, ~ctl.nrfd, ~ctl.ndac, SetLines([ctl EXCEPT !.nrfd = TRUE]),
         NEW p \in PetTypes, pet' = p, got' = got, dropped' = dropped, p.next = pet.next, p.todo = pet.todo, p.chan = pet.chan,
         p.swapped = pet.swapped,
         p.at = (IF pet.at = "recv" THEN "ready" ELSE "letgo")
  PROVE  IeeeInv'
<1> DEFINE c == [ctl EXCEPT !.nrfd = TRUE]
<1>1. c # ctl /\ c \in CtlTypes /\ c.atn = ctl.atn /\ c.dav = ctl.dav /\ c.data = ctl.data /\ c.nrfd /\ ~c.ndac /\ SetLines(c)
  BY DEF IeeeInv, Types, CtlTypes
<1> HIDE DEF c
<1>2. /\ pet.next = "read" /\ pet.todo = <<>> /\ pet.at # "idle" /\ ctl.atn /\ ctl.dav /\ ctl.data = Free
      /\ TalkLines(ieee) /\ ~ieee.onBus /\ ~ieee.tentative
  BY DEF IeeeInv, Plan, CtlShape, Puts, Reads, Talks
<1>3. /\ Left(pet) = <<>> /\ pet.chan \in DosChannels /\ ~ieee.listener /\ ieee.pchan = pet.chan
      /\ (dos.talking => dos.chan = pet.chan /\ ieee.talker) /\ ieee.prevAtn = ctl.atn
      /\ (ieee.pending => ieee.talker) /\ ~dos.opening
      /\ \A k \in DosChannels \ dropped :
            /\ got[k] = [i \in 1 .. Len(got[k]) |-> Byte(i)]
            /\ dos.pos[k] = FileLen \/ dos.pos[k] = Len(got[k]) + Keeps(ieee, k)
            /\ ieee.pending /\ ieee.pchan = k => ieee.pbyte = Byte(Len(got[k]) + 1)
  BY <1>2, ReadState
<1>4. CtlShape(c, p)
  BY <1>1, <1>2 DEF CtlShape, Puts, Reads
<1>5. ieee \in DriveTypes /\ dos \in DosTypes /\ got' \in [DosChannels -> Seq(BusValues)]
  BY DEF IeeeInv, Types
<1>6. Left(p) = <<>> /\ p.next = "read" /\ p.todo = <<>> /\ p.at \in Reads
  BY <1>2 DEF Left, Reads
<1>7. CASE ~ieee.talker \/ ieee.ended
  <2>1. ctl' = c /\ ieee' = ieee /\ dos' = dos
    <3>1. ieee.prevAtn = c.atn
      BY <1>1, <1>3
    <3>2. \/ c.atn /\ ~ieee.listener /\ ~ieee.talker
          \/ c.atn /\ ~ieee.listener /\ TalkLines(ieee) /\ IF ieee.onBus THEN ~c.ndac ELSE ieee.ended \/ ~c.nrfd \/ c.ndac
      BY <1>1, <1>2, <1>3, <1>7
    <3> QED BY <1>1, <1>5, <3>1, <3>2, LinesStay
  <2>2. Talks(c, ieee, p, got, dropped)
    BY <1>1, <1>2, <1>3 DEF Talks, Reads
  <2> HIDE DEF IeeeInv
  <2> QED BY <1>1, <1>2, <1>4, <1>6, <2>1, <2>2, ReadStays
<1>8. CASE ieee.talker /\ ~ieee.ended
  <2>1. /\ ieee.pending => Step(c, Both(ieee, dos)) = Both(Shown(ieee, ieee.pbyte, ieee.plast), dos)
        /\ ~ieee.pending /\ DosHasByte(dos) =>
              Step(c, Both(ieee, dos)) = Both(Shown(ieee, DosByte(dos), DosLast(dos)), DosAcptr(dos))
        /\ ~ieee.pending /\ ~DosHasByte(dos) => Step(c, Both(ieee, dos)) = Both(Over(ieee), dos)
    <3>1. ieee.prevAtn = c.atn /\ c.atn
      BY <1>1, <1>2, <1>3
    <3> QED BY <1>1, <1>2, <1>3, <1>5, <1>8, <3>1, ByteSent
  <2>2. ASSUME NEW b \in BusValues, NEW last \in BOOLEAN, NEW u \in DosTypes,
               Step(c, Both(ieee, dos)) = Both(Shown(ieee, b, last), u),
               u.listening = dos.listening, u.talking = dos.talking, u.opening = dos.opening, u.chan = dos.chan,
               \A k \in DosChannels \ dropped :
                  u.pos[k] = FileLen \/ u.pos[k] = Len(got[k]) + (IF k = pet.chan THEN 1 ELSE 0),
               pet.chan \notin dropped => b = Byte(Len(got[pet.chan]) + 1)
        PROVE  IeeeInv'
    <3> DEFINE d == Shown(ieee, b, last)
    <3>1. /\ d \in DriveTypes /\ TalkLines(d) /\ d.onBus = TRUE /\ d.pending = TRUE /\ d.tentative = FALSE
          /\ d.pbyte = b /\ d.data = b /\ d.listener = ieee.listener /\ d.talker = ieee.talker
          /\ d.pchan = ieee.pchan /\ d.prevAtn = ieee.prevAtn
      <4>1. d = Shown(ieee, b, last)
        OBVIOUS
      <4>2. d.onBus = TRUE /\ d.pending = TRUE /\ d.tentative = FALSE /\ d.pbyte = b /\ d.data = b
        BY <1>5 DEF Shown, DriveTypes
      <4>3. d.listener = ieee.listener /\ d.talker = ieee.talker /\ d.pchan = ieee.pchan /\ d.prevAtn = ieee.prevAtn
        BY <1>5 DEF Shown, DriveTypes
      <4> HIDE DEF d
      <4>4. d \in DriveTypes /\ TalkLines(d)
        BY <1>2, <1>5, <4>1, ShownTypes
      <4> QED BY <4>2, <4>3, <4>4
    <3>2. Step(c, Both(ieee, dos)) = Both(d, u)
      BY <2>2
    <3> HIDE DEF d
    <3>3. ctl' = c /\ ieee' = d /\ dos' = u
      BY <1>1, <3>2, LinesSet
    <3>4. Talks(c, d, p, got', dropped)
      BY <1>1, <2>2, <3>1 DEF Talks, Reads
    <3>5. Bytes(d, u, p, got', dropped)
      <4>1. \A k \in DosChannels \ dropped : Keeps(d, k) = IF k = pet.chan THEN 1 ELSE 0
        BY <1>3, <3>1 DEF Keeps
      <4>2. \A k \in DosChannels \ dropped :
               /\ got'[k] = [i \in 1 .. Len(got'[k]) |-> Byte(i)]
               /\ u.pos[k] = FileLen \/ u.pos[k] = Len(got'[k]) + Keeps(d, k)
               /\ d.pending /\ d.pchan = k => d.pbyte = Byte(Len(got'[k]) + 1)
        BY <1>3, <2>2, <3>1, <4>1
      <4>3. ~u.opening /\ (d.pending => d.pchan \in DosChannels)
        BY <1>3, <2>2, <3>1
      <4> QED BY <1>6, <4>2, <4>3, ReadBytes
    <3> HIDE DEF IeeeInv
    <3> QED BY <1>1, <1>2, <1>3, <1>4, <1>5, <1>6, <1>8, <2>2, <3>1, <3>3, <3>4, <3>5, ReadOn
  <2>3. CASE ieee.pending
    <3>1. ieee.pbyte \in BusValues /\ ieee.plast \in BOOLEAN
      BY <1>5 DEF DriveTypes
    <3>2. \A k \in DosChannels \ dropped : Keeps(ieee, k) = IF k = pet.chan THEN 1 ELSE 0
      BY <1>3, <2>3 DEF Keeps
    <3>3. \A k \in DosChannels \ dropped :
              dos.pos[k] = FileLen \/ dos.pos[k] = Len(got[k]) + (IF k = pet.chan THEN 1 ELSE 0)
      BY <1>3, <3>2
    <3>4. pet.chan \notin dropped => ieee.pbyte = Byte(Len(got[pet.chan]) + 1)
      BY <1>3, <2>3
    <3> QED BY <1>5, <2>1, <2>2, <2>3, <3>1, <3>3, <3>4
  <2>4. CASE ~ieee.pending /\ DosHasByte(dos)
    <3> DEFINE b == DosByte(dos)
               last == DosLast(dos)
               u == DosAcptr(dos)
    <3>1. dos.talking /\ dos.chan = pet.chan /\ dos.pos[pet.chan] < FileLen /\ dos.pos[pet.chan] \in Nat
      BY <1>3, <1>5, <2>4 DEF DosHasByte, DosTypes
    <3>2. b = Byte(dos.pos[pet.chan] + 1) /\ last \in BOOLEAN
      BY <3>1 DEF DosByte, DosLast
    <3>3. b \in BusValues
      BY <3>1, <3>2 DEF BusValues, AllBytes
    <3>4. u \in DosTypes
      BY <1>5, <2>4, DosTyped
    <3>5. /\ u.listening = dos.listening /\ u.talking = dos.talking /\ u.opening = dos.opening /\ u.chan = dos.chan
          /\ \A k \in DosChannels : u.pos[k] = IF k = pet.chan THEN dos.pos[k] + 1 ELSE dos.pos[k]
      BY <1>5, <3>1 DEF DosAcptr, DosTypes
    <3>6. \A k \in DosChannels \ dropped : Keeps(ieee, k) = 0 /\ Len(got[k]) \in Nat /\ dos.pos[k] \in Int
      BY <1>5, <2>4 DEF Keeps, IeeeInv, Types, DosTypes
    <3>7. pet.chan \notin dropped => dos.pos[pet.chan] = Len(got[pet.chan])
      <4>1. ASSUME NEW k \in DosChannels \ dropped PROVE dos.pos[k] = FileLen \/ dos.pos[k] = Len(got[k])
        <5>1. dos.pos[k] = FileLen \/ dos.pos[k] = Len(got[k]) + Keeps(ieee, k)
          BY <1>3
        <5> QED BY <3>6, <5>1
      <4>2. FileLen \in Nat
        BY DosAssumption
      <4>3. pet.chan \notin dropped => Len(got[pet.chan]) \in Nat
        BY <1>3, <3>6
      <4> QED BY <1>3, <3>1, <4>1, <4>2, <4>3
    <3>8. \A k \in DosChannels \ dropped :
              u.pos[k] = FileLen \/ u.pos[k] = Len(got[k]) + (IF k = pet.chan THEN 1 ELSE 0)
      <4>1. ASSUME NEW k \in DosChannels \ dropped
            PROVE  u.pos[k] = FileLen \/ u.pos[k] = Len(got[k]) + (IF k = pet.chan THEN 1 ELSE 0)
        <5>1. dos.pos[k] = FileLen \/ dos.pos[k] = Len(got[k]) + Keeps(ieee, k)
          BY <1>3
        <5>2. CASE k = pet.chan
          BY <3>5, <3>7, <5>2
        <5>3. CASE k # pet.chan
          BY <3>5, <3>6, <5>1, <5>3
        <5> QED BY <5>2, <5>3
      <4> QED BY <4>1
    <3>9. pet.chan \notin dropped => b = Byte(Len(got[pet.chan]) + 1)
      BY <3>2, <3>7
    <3>10. Step(c, Both(ieee, dos)) = Both(Shown(ieee, b, last), u)
      BY <2>1, <2>4
    <3> HIDE DEF b, last, u
    <3> QED BY <2>2, <3>2, <3>3, <3>4, <3>5, <3>8, <3>9, <3>10
  <2>5. CASE ~ieee.pending /\ ~DosHasByte(dos)
    <3> DEFINE d == Over(ieee)
    <3>1. /\ d \in DriveTypes /\ TalkLines(d) /\ d.ended = TRUE /\ d.pending = FALSE /\ d.tentative = FALSE
          /\ d.listener = ieee.listener /\ d.talker = ieee.talker /\ d.pchan = ieee.pchan /\ d.prevAtn = ieee.prevAtn
          /\ d.onBus = ieee.onBus
      <4>1. /\ d \in DriveTypes /\ TalkLines(d) /\ d.ended = TRUE /\ d.pending = FALSE /\ d.tentative = FALSE
            /\ \A f \in {"listener", "talker", "ourListen", "ourTalk", "pchan", "prevAtn", "taken", "onBus", "pbyte", "data"} :
                  d[f] = ieee[f]
        BY <1>2, <1>5, OverTypes
      <4> HIDE DEF d
      <4> QED BY <4>1
    <3>2. Step(c, Both(ieee, dos)) = Both(d, dos)
      BY <2>1, <2>5
    <3> HIDE DEF d
    <3>3. ctl' = c /\ ieee' = d /\ dos' = dos
      BY <1>1, <3>2, LinesSet
    <3>4. Talks(c, d, p, got', dropped)
      BY <1>2, <3>1 DEF Talks, Reads
    <3>5. Bytes(d, dos, p, got', dropped)
      <4>1. \A k : Keeps(d, k) = Keeps(ieee, k)
        BY <2>5, <3>1 DEF Keeps
      <4>2. \A k \in DosChannels \ dropped :
               /\ got'[k] = [i \in 1 .. Len(got'[k]) |-> Byte(i)]
               /\ dos.pos[k] = FileLen \/ dos.pos[k] = Len(got'[k]) + Keeps(d, k)
               /\ d.pending /\ d.pchan = k => d.pbyte = Byte(Len(got'[k]) + 1)
        BY <1>3, <3>1, <4>1
      <4> QED BY <1>3, <1>6, <3>1, <4>2, ReadBytes
    <3> HIDE DEF IeeeInv
    <3> QED BY <1>1, <1>2, <1>3, <1>4, <1>5, <1>6, <1>8, <3>1, <3>3, <3>4, <3>5, ReadOn
  <2> QED BY <2>3, <2>4, <2>5
<1> QED BY <1>7, <1>8 DEF IeeeInv, Types, DriveTypes

LEMMA Readies ==
  ASSUME IeeeInv, PetReady PROVE IeeeInv'
<1> DEFINE p == [pet EXCEPT !.at = "ready"]
<1>1. pet.at = "recv" /\ SetLines([ctl EXCEPT !.nrfd = TRUE]) /\ pet' = p /\ got' = got /\ dropped' = dropped
  BY DEF PetReady, Set, Goto, hist
<1>2. /\ p \in PetTypes /\ p.at = "ready" /\ p.todo = pet.todo /\ p.next = pet.next /\ p.chan = pet.chan /\ p.swapped = pet.swapped
  BY DEF IeeeInv, Types, PetTypes, PetAts
<1> HIDE DEF p
<1>3. ~ctl.nrfd /\ ~ctl.ndac
  BY <1>1 DEF IeeeInv, CtlShape
<1>4. pet.at \in {"recv", "letgo"} /\ p.at = (IF pet.at = "recv" THEN "ready" ELSE "letgo")
  BY <1>1, <1>2
<1> HIDE DEF IeeeInv
<1> QED BY <1>1, <1>2, <1>3, <1>4, ReadyFor

\* The computer is busy with the byte on the bus.
LEMMA IsBusy ==
  ASSUME IeeeInv, PetBusy PROVE IeeeInv'
<1> DEFINE p == [pet EXCEPT !.at = "busy"]
           c == [ctl EXCEPT !.nrfd = FALSE]
<1>1. pet.at = "ready" /\ SetLines(c) /\ pet' = p /\ got' = got /\ dropped' = dropped /\ ~(ctl.dav /\ ieee.dav)
  BY DEF PetBusy, Set, Goto, hist, Level
<1>2. /\ p \in PetTypes /\ p.at = "busy" /\ p.todo = pet.todo /\ p.next = pet.next /\ p.chan = pet.chan /\ p.swapped = pet.swapped
  BY DEF IeeeInv, Types, PetTypes, PetAts
<1>3. c \in CtlTypes /\ c.atn = ctl.atn /\ c.dav = ctl.dav /\ c.data = ctl.data /\ ~c.nrfd /\ c.ndac = ctl.ndac
  BY DEF IeeeInv, Types, CtlTypes
<1> HIDE DEF p, c
<1>4. /\ pet.next = "read" /\ pet.todo = <<>> /\ pet.at # "idle" /\ ctl.atn /\ ctl.dav /\ ~ctl.ndac /\ ctl.data = Free
      /\ TalkLines(ieee) /\ ieee.onBus /\ ~ieee.tentative
  <2>1. /\ pet.next = "read" /\ pet.todo = <<>> /\ pet.at # "idle" /\ ctl.atn /\ ctl.dav /\ ~ctl.ndac /\ ctl.data = Free
        /\ TalkLines(ieee) /\ ~ieee.tentative
    BY <1>1 DEF IeeeInv, Plan, CtlShape, Puts, Reads, Talks
  <2> QED BY <1>1, <2>1 DEF TalkLines, IeeeInv, Types, DriveTypes
<1>5. ieee.prevAtn = ctl.atn /\ ~ieee.listener /\ ieee \in DriveTypes
  BY <1>4, ReadState DEF IeeeInv, Types
<1>6. ctl' = c /\ ieee' = ieee /\ dos' = dos
  BY <1>1, <1>3, <1>4, <1>5, LinesStay
<1>7. CtlShape(c, p)
  BY <1>2, <1>3, <1>4 DEF CtlShape, Puts, Reads
<1>8. Talks(c, ieee, p, got, dropped)
  BY <1>1, <1>2, <1>3, <1>4 DEF Talks, Reads, IeeeInv
<1>9. p.at \in Reads \cup {"turn", "turned"} /\ p.at \in Reads
  BY <1>2 DEF Reads
<1> HIDE DEF IeeeInv
<1> QED BY <1>1, <1>2, <1>3, <1>4, <1>6, <1>7, <1>8, <1>9, ReadStays

\* DAV is high again: the computer holds NDAC until the next byte.
LEMMA SeesTaken ==
  ASSUME IeeeInv, PetTaken PROVE IeeeInv'
<1> DEFINE p == [pet EXCEPT !.at = "recv"]
           c == [ctl EXCEPT !.ndac = FALSE]
<1>1. pet.at = "took" /\ SetLines(c) /\ pet' = p /\ got' = got /\ dropped' = dropped /\ ieee.dav
  BY DEF PetTaken, Set, Goto, hist, Level
<1>2. /\ p \in PetTypes /\ p.at = "recv" /\ p.todo = pet.todo /\ p.next = pet.next /\ p.chan = pet.chan /\ p.swapped = pet.swapped
  BY DEF IeeeInv, Types, PetTypes, PetAts
<1>3. c \in CtlTypes /\ c.atn = ctl.atn /\ c.dav = ctl.dav /\ c.data = ctl.data /\ c.nrfd = ctl.nrfd /\ ~c.ndac
  BY DEF IeeeInv, Types, CtlTypes
<1> HIDE DEF p, c
<1>4. /\ pet.next = "read" /\ pet.todo = <<>> /\ pet.at # "idle" /\ ctl.atn /\ ctl.dav /\ ~ctl.nrfd /\ ctl.data = Free
      /\ TalkLines(ieee) /\ ~ieee.tentative
  BY <1>1 DEF IeeeInv, Plan, CtlShape, Puts, Reads, Talks
<1>5. ieee.prevAtn = ctl.atn /\ ~ieee.listener /\ ieee \in DriveTypes
  BY <1>4, ReadState DEF IeeeInv, Types
<1>6. ~ieee.onBus
  BY <1>1, <1>4 DEF TalkLines
<1>7. ctl' = c /\ ieee' = ieee /\ dos' = dos
  BY <1>1, <1>3, <1>4, <1>5, <1>6, LinesStay
<1>8. CtlShape(c, p)
  BY <1>2, <1>3, <1>4 DEF CtlShape, Puts, Reads
<1>9. Talks(c, ieee, p, got, dropped)
  BY <1>2, <1>4, <1>6 DEF Talks, Reads
<1>10. p.at \in Reads \cup {"turn", "turned"} /\ p.at \in Reads /\ p.at \notin {"ready", "busy"}
  BY <1>2 DEF Reads
<1> HIDE DEF IeeeInv
<1> QED BY <1>1, <1>2, <1>3, <1>4, <1>7, <1>8, <1>9, <1>10, ReadStays

\* The computer stops waiting for a byte, or for the drive to let go of DAV.
LEMMA LetsGo ==
  ASSUME IeeeInv, PetLetGo \/ PetStuckTalker PROVE IeeeInv'
<1> DEFINE p == [pet EXCEPT !.at = "letgo"]
<1>1. /\ pet.at \in {"recv", "ready", "took"} /\ (pet.at = "ready" => ieee.dav)
      /\ pet' = p /\ ctl' = ctl /\ ieee' = ieee /\ dos' = dos /\ got' = got /\ dropped' = dropped
  BY DEF PetLetGo, PetStuckTalker, Goto, hist, Level
<1>2. /\ p \in PetTypes /\ p.at = "letgo" /\ p.todo = pet.todo /\ p.next = pet.next /\ p.chan = pet.chan /\ p.swapped = pet.swapped
  BY DEF IeeeInv, Types, PetTypes, PetAts
<1> HIDE DEF p
<1>3. /\ pet.next = "read" /\ pet.todo = <<>> /\ pet.at # "idle" /\ ctl.atn /\ ctl.dav /\ ctl.data = Free
      /\ TalkLines(ieee) /\ ~ieee.tentative /\ ctl \in CtlTypes
  BY <1>1 DEF IeeeInv, Plan, CtlShape, Puts, Reads, Talks, Types
<1>4. CtlShape(ctl, p)
  BY <1>2, <1>3 DEF CtlShape, Puts, Reads
<1>5. Talks(ctl, ieee, p, got, dropped)
  <2>1. ctl.ndac /\ ieee.talker => ~ieee.onBus
    BY <1>1 DEF IeeeInv, CtlShape, Talks
  <2>2. ~ctl.nrfd /\ ~ctl.ndac => ~ieee.onBus
    BY <1>1 DEF IeeeInv, CtlShape, Talks
  <2> QED BY <1>2, <1>3, <2>1, <2>2 DEF Talks, Reads
<1>6. p.at \in Reads \cup {"turn", "turned"} /\ p.at \in Reads /\ p.at \notin {"ready", "busy"}
  BY <1>2 DEF Reads
<1> HIDE DEF IeeeInv
<1> QED BY <1>1, <1>2, <1>3, <1>4, <1>5, <1>6, ReadStays

\* NDAC and NRFD go up before UNTALK: a byte on the bus may have been taken.
LEMMA Releases ==
  ASSUME IeeeInv, NEW line \in {"nrfd", "ndac"}, PetRelease(line) PROVE IeeeInv'
<1>1. pet.at = "letgo" /\ ~ctl[line] /\ Set(line, TRUE) /\ pet' = pet /\ got' = got /\ dropped' = dropped
  BY DEF PetRelease, hist
<1>2. /\ pet.next = "read" /\ pet.todo = <<>> /\ pet.at # "idle" /\ ctl.atn /\ ctl.dav /\ ctl.data = Free
      /\ TalkLines(ieee) /\ ctl \in CtlTypes /\ pet \in PetTypes /\ ieee \in DriveTypes /\ dos \in DosTypes
      /\ got \in [DosChannels -> Seq(BusValues)]
  BY <1>1 DEF IeeeInv, Plan, CtlShape, Puts, Reads, Talks, Types
<1>3. /\ Left(pet) = <<>> /\ pet.chan \in DosChannels /\ ~ieee.listener /\ ieee.pchan = pet.chan
      /\ ieee.prevAtn = ctl.atn /\ (ieee.pending => ieee.talker)
  BY <1>2, ReadState
<1>4. pet.at \in Reads \cup {"turn", "turned"} /\ pet.at \in Reads /\ pet.at \notin {"ready", "busy"}
  BY <1>1 DEF Reads
<1>5. CASE line = "nrfd" /\ ~ctl.ndac
  <2>1. pet.at \in {"recv", "letgo"} /\ pet.at = (IF pet.at = "recv" THEN "ready" ELSE "letgo") /\ ~ctl.nrfd
        /\ SetLines([ctl EXCEPT !.nrfd = TRUE])
    BY <1>1, <1>5 DEF Set
  <2>2. PICK p \in PetTypes : p = pet
    BY <1>2
  <2> HIDE DEF IeeeInv
  <2> QED BY <1>1, <1>5, <2>1, <2>2, ReadyFor
<1>6. CASE line = "nrfd" /\ ctl.ndac
  <2> DEFINE c == [ctl EXCEPT !.nrfd = TRUE]
  <2>1. c \in CtlTypes /\ c.atn = ctl.atn /\ c.dav = ctl.dav /\ c.data = ctl.data /\ c.ndac /\ SetLines(c)
    BY <1>1, <1>2, <1>6 DEF CtlTypes, Set
  <2> HIDE DEF c
  <2>2. ieee.talker => ~ieee.onBus
    BY <1>1, <1>6 DEF IeeeInv, Talks
  <2>3. \/ c.atn /\ ~ieee.listener /\ ~ieee.talker
        \/ c.atn /\ ~ieee.listener /\ TalkLines(ieee) /\ IF ieee.onBus THEN ~c.ndac ELSE ieee.ended \/ ~c.nrfd \/ c.ndac
    BY <1>2, <1>3, <2>1, <2>2
  <2>4. ctl' = c /\ ieee' = ieee /\ dos' = dos
    BY <1>2, <1>3, <2>1, <2>3, LinesStay
  <2>5. CtlShape(c, pet)
    BY <1>1, <1>2, <2>1 DEF CtlShape, Puts, Reads
  <2>6. Talks(c, ieee, pet, got, dropped)
    BY <1>1, <1>2, <2>1, <2>2 DEF Talks, Reads
  <2> HIDE DEF IeeeInv
  <2> QED BY <1>1, <1>2, <1>4, <2>1, <2>4, <2>5, <2>6, ReadStays
<1>7. CASE line = "ndac"
  <2> DEFINE c == [ctl EXCEPT !.ndac = TRUE]
  <2>1. c \in CtlTypes /\ c.atn = ctl.atn /\ c.dav = ctl.dav /\ c.data = ctl.data /\ c.ndac /\ c.nrfd = ctl.nrfd
        /\ SetLines(c) /\ c # ctl /\ ~ctl.ndac
    BY <1>1, <1>2, <1>7 DEF CtlTypes, Set
  <2> HIDE DEF c
  <2>2. CtlShape(c, pet)
    BY <1>1, <1>2, <2>1 DEF CtlShape, Puts, Reads
  <2>3. ~ieee.tentative /\ (~ctl.nrfd => ~ieee.onBus)
    BY <1>1, <2>1 DEF IeeeInv, Talks
  <2>4. CASE ~ieee.talker \/ ~ieee.onBus
    <3>1. \/ c.atn /\ ~ieee.listener /\ ~ieee.talker
          \/ c.atn /\ ~ieee.listener /\ TalkLines(ieee) /\ IF ieee.onBus THEN ~c.ndac ELSE ieee.ended \/ ~c.nrfd \/ c.ndac
      BY <1>2, <1>3, <2>1, <2>4
    <3>2. ctl' = c /\ ieee' = ieee /\ dos' = dos
      BY <1>2, <1>3, <2>1, <3>1, LinesStay
    <3>3. Talks(c, ieee, pet, got, dropped)
      BY <1>1, <1>2, <2>1, <2>3, <2>4 DEF Talks, Reads
    <3> HIDE DEF IeeeInv
    <3> QED BY <1>1, <1>2, <1>4, <2>1, <2>2, <3>2, <3>3, ReadStays
  <2>5. CASE ieee.talker /\ ieee.onBus
    <3> DEFINE d == Gone(c, ieee)
    <3>1. /\ Step(c, Both(ieee, dos)) = Both(d, dos)
          /\ d \in DriveTypes /\ TalkLines(d) /\ ~d.onBus
          /\ d.pending = (ieee.pending /\ c.nrfd) /\ d.tentative = (ieee.tentative \/ c.nrfd)
          /\ \A f \in {"listener", "talker", "ourListen", "ourTalk", "pbyte", "plast", "pchan", "prevAtn", "ended"} :
                d[f] = ieee[f]
      <4>1. ieee.prevAtn = c.atn /\ c.atn
        BY <1>2, <1>3, <2>1
      <4> QED BY <1>2, <1>3, <2>1, <2>5, <4>1, ByteGone
    <3> HIDE DEF d
    <3>2. ctl' = c /\ ieee' = d /\ dos' = dos
      BY <2>1, <3>1, LinesSet
    <3>3. c.nrfd /\ d.pending = ieee.pending
      BY <1>2, <2>1, <2>3, <2>5, <3>1 DEF DriveTypes
    <3>4. Talks(c, d, pet, got', dropped)
      BY <1>1, <2>1, <3>1 DEF Talks, Reads
    <3>5. d.pchan = ieee.pchan /\ d.pbyte = ieee.pbyte /\ d.listener = ieee.listener /\ d.talker = ieee.talker
          /\ d.prevAtn = ieee.prevAtn
      BY <3>1
    <3>6. Bytes(d, dos, pet, got, dropped)
      BY <3>3, <3>5, BytesStay DEF IeeeInv
    <3> HIDE DEF IeeeInv
    <3> QED BY <1>1, <1>2, <1>3, <1>4, <2>1, <2>2, <3>1, <3>2, <3>3, <3>4, <3>5, <3>6, ReadOn
  <2> QED BY <2>4, <2>5
<1> QED BY <1>5, <1>6, <1>7

\* The computer takes the byte on the bus.
LEMMA GetsByte ==
  ASSUME IeeeInv, PetTake PROVE IeeeInv'
<1> DEFINE c == [ctl EXCEPT !.ndac = TRUE]
           b == DataOnBus(ctl, ieee)
           n == IF ~Level(ctl, ieee, "eoi") THEN 0 ELSE pet.left - 1
           p == [pet EXCEPT !.at = "took", !.left = n]
           k == pet.chan
<1>1. /\ pet.at = "busy" /\ SetLines(c) /\ pet' = p /\ got' = [got EXCEPT ![k] = Append(got[k], b)]
      /\ dropped' = dropped
  BY DEF PetTake, Set
<1>2. /\ pet.next = "read" /\ pet.todo = <<>> /\ pet.at # "idle" /\ ctl.atn /\ ctl.dav /\ ctl.data = Free
      /\ TalkLines(ieee) /\ ieee.onBus /\ ~ieee.tentative /\ ~ctl.ndac /\ ~ctl.nrfd
      /\ (k \notin dropped => ieee.data = Byte(Len(got[k]) + 1))
      /\ ctl \in CtlTypes /\ pet \in PetTypes /\ ieee \in DriveTypes /\ dos \in DosTypes
      /\ got \in [DosChannels -> Seq(BusValues)]
  BY <1>1 DEF IeeeInv, Plan, CtlShape, Puts, Reads, Talks, Types
<1>3. /\ Left(pet) = <<>> /\ k \in DosChannels /\ ~ieee.listener /\ ieee.pchan = k
      /\ (dos.talking => dos.chan = k /\ ieee.talker) /\ ieee.prevAtn = ctl.atn
      /\ (ieee.pending => ieee.talker) /\ ~dos.opening
      /\ (k \notin dropped => ieee.pending \/ dos.pos[k] = FileLen)
      /\ \A j \in DosChannels \ dropped :
            /\ got[j] = [i \in 1 .. Len(got[j]) |-> Byte(i)]
            /\ dos.pos[j] = FileLen \/ dos.pos[j] = Len(got[j]) + Keeps(ieee, j)
            /\ ieee.pending /\ ieee.pchan = j => ieee.pbyte = Byte(Len(got[j]) + 1)
  BY <1>1, <1>2, ReadState
<1>4. b = ieee.data /\ b \in BusValues
  BY <1>2 DEF DataOnBus, DriveTypes
<1>5. n \in Int
  BY <1>2 DEF PetTypes
<1>6. c \in CtlTypes /\ c.atn = ctl.atn /\ c.dav = ctl.dav /\ c.data = ctl.data /\ c.ndac /\ ~c.nrfd /\ c # ctl
  BY <1>2 DEF CtlTypes
<1> HIDE DEF n, c, b
<1>7. p \in PetTypes /\ p.at = "took" /\ p.todo = pet.todo /\ p.next = pet.next /\ p.chan = k /\ p.swapped = pet.swapped
  BY <1>2, <1>5 DEF PetTypes, PetAts
<1> HIDE DEF p
<1>8. Left(p) = <<>> /\ p.at \in Reads /\ p.at \in Reads \cup {"turn", "turned"} /\ p.at \notin {"ready", "busy"}
  BY <1>2, <1>7 DEF Left, Reads
<1>9. /\ got' \in [DosChannels -> Seq(BusValues)] /\ got'[k] = Append(got[k], b)
      /\ \A j \in DosChannels : j # k => got'[j] = got[j]
  BY <1>1, <1>2, <1>3, <1>4
<1>10. CtlShape(c, p)
  BY <1>2, <1>6, <1>7 DEF CtlShape, Puts, Reads
<1>11. PICK d \in DriveTypes :
         /\ ctl' = c /\ ieee' = d /\ dos' = dos /\ TalkLines(d) /\ ~d.pending /\ ~d.tentative
         /\ (d.talker => ~d.onBus)
         /\ d.pchan = ieee.pchan /\ d.listener = ieee.listener /\ d.talker = ieee.talker /\ d.prevAtn = ieee.prevAtn
  <2>1. CASE ~ieee.talker
    <3>1. ieee.prevAtn = c.atn /\ c.atn
      BY <1>2, <1>3, <1>6
    <3>2. ctl' = c /\ ieee' = ieee /\ dos' = dos
      BY <1>1, <1>2, <1>3, <1>6, <2>1, <3>1, LinesStay
    <3> QED BY <1>2, <1>3, <2>1, <3>2
  <2>2. CASE ieee.talker
    <3> DEFINE d == Gone(c, ieee)
    <3>1. /\ Step(c, Both(ieee, dos)) = Both(d, dos)
          /\ d \in DriveTypes /\ TalkLines(d) /\ ~d.onBus
          /\ d.pending = (ieee.pending /\ c.nrfd) /\ d.tentative = (ieee.tentative \/ c.nrfd)
          /\ \A f \in {"listener", "talker", "ourListen", "ourTalk", "pbyte", "plast", "pchan", "prevAtn", "ended"} :
                d[f] = ieee[f]
      <4>1. ieee.prevAtn = c.atn /\ c.atn /\ c.ndac /\ c \in CtlTypes
        BY <1>2, <1>3, <1>6
      <4>2. ieee \in DriveTypes /\ ~ieee.listener /\ TalkLines(ieee) /\ ieee.onBus
        BY <1>2, <1>3
      <4> HIDE DEF d, IeeeInv
      <4>3. d = Gone(c, ieee)
        BY DEF d
      <4> QED BY <2>2, <4>1, <4>2, <4>3, ByteGone
    <3> HIDE DEF d
    <3>2. ctl' = c /\ ieee' = d /\ dos' = dos
      BY <1>1, <1>6, <3>1, LinesSet
    <3>3. ~d.pending /\ ~d.tentative
      BY <1>2, <1>6, <3>1
    <3>4. d.pchan = ieee.pchan /\ d.listener = ieee.listener /\ d.talker = ieee.talker /\ d.prevAtn = ieee.prevAtn
      BY <3>1
    <3> QED BY <3>1, <3>2, <3>3, <3>4
  <2> QED BY <2>1, <2>2
<1>12. Talks(c, d, p, got', dropped)
  BY <1>7, <1>11 DEF Talks, Reads
<1>13. Bytes(d, dos, p, got', dropped)
  <2>1. ASSUME NEW j \in DosChannels \ dropped
        PROVE  /\ got'[j] = [i \in 1 .. Len(got'[j]) |-> Byte(i)]
               /\ dos.pos[j] = FileLen \/ dos.pos[j] = Len(got'[j]) + Keeps(d, j)
    <3>1. Keeps(d, j) = 0
      BY <1>11 DEF Keeps
    <3>2. CASE j = k
      <4>1. /\ got[k] = [i \in 1 .. Len(got[k]) |-> Byte(i)] /\ b = Byte(Len(got[k]) + 1)
            /\ got[k] \in Seq(BusValues) /\ Len(got[k]) \in Nat
        BY <1>2, <1>3, <1>4, <2>1, <3>2
      <4>2. got'[k] = [i \in 1 .. Len(got'[k]) |-> Byte(i)] /\ Len(got'[k]) = Len(got[k]) + 1
        <5>1. Len(got'[k]) = Len(got[k]) + 1
          BY <1>9, <4>1
        <5>2. got'[k] = [i \in 1 .. Len(got'[k]) |-> got'[k][i]]
          BY <1>3, <1>9
        <5>3. \A i \in 1 .. Len(got'[k]) : got'[k][i] = Byte(i)
          <6>1. ASSUME NEW i \in 1 .. Len(got[k]) + 1 PROVE got'[k][i] = Byte(i)
            <7>1. CASE i = Len(got[k]) + 1
              BY <1>9, <4>1, <7>1
            <7>2. CASE i # Len(got[k]) + 1
              <8>1. i \in 1 .. Len(got[k])
                BY <4>1, <7>2
              <8>2. got'[k][i] = got[k][i]
                BY <1>9, <4>1, <8>1
              <8>3. [m \in 1 .. Len(got[k]) |-> Byte(m)][i] = Byte(i)
                BY <8>1
              <8> QED BY <4>1, <8>2, <8>3
            <7> QED BY <7>1, <7>2
          <6> QED BY <5>1, <6>1
        <5> QED BY <5>1, <5>2, <5>3
      <4>3. dos.pos[k] = FileLen \/ dos.pos[k] = Len(got[k]) + 1
        <5>1. ieee.pending => Keeps(ieee, k) = 1
          BY <1>3 DEF Keeps
        <5> QED BY <1>3, <2>1, <3>2, <5>1
      <4> QED BY <3>1, <3>2, <4>1, <4>2, <4>3
    <3>3. CASE j # k
      <4>1. Keeps(ieee, j) = 0
        BY <1>3, <3>3 DEF Keeps
      <4>2. got'[j] = got[j]
        BY <1>9, <3>3
      <4> QED BY <1>3, <3>1, <4>1, <4>2
    <3> QED BY <3>2, <3>3
  <2>2. ~dos.opening /\ ~d.pending /\ p.next = "read"
    BY <1>2, <1>3, <1>7, <1>11
  <2>3. \A j \in DosChannels \ dropped :
               /\ got'[j] = [i \in 1 .. Len(got'[j]) |-> Byte(i)]
               /\ dos.pos[j] = FileLen \/ dos.pos[j] = Len(got'[j]) + Keeps(d, j)
               /\ d.pending /\ d.pchan = j => d.pbyte = Byte(Len(got'[j]) + 1)
    BY <2>1, <2>2
  <2> QED BY <1>8, <2>2, <2>3, ReadBytes
<1>14. c.atn /\ (~c.atn => Awaits(d)) /\ p.next = "read" /\ p.todo = <<>> /\ c.atn = ctl.atn
  BY <1>2, <1>6, <1>7
<1>15. /\ pet.next = "read" /\ pet.at # "idle" /\ Left(pet) = <<>> /\ p.chan = pet.chan /\ p.swapped = pet.swapped
      /\ d.listener = ieee.listener
       /\ pet' = p /\ dropped' = dropped /\ ctl' = c /\ ieee' = d /\ dos' = dos /\ dos \in DosTypes
       /\ (d.pending => d.talker) /\ (c.atn => p.at \in Reads)
       /\ (p.at \in {"ready", "busy"} /\ d.onBus /\ p.chan \notin dropped => d.pending \/ dos.pos[p.chan] = FileLen)
  BY <1>1, <1>2, <1>3, <1>7, <1>8, <1>11
<1> HIDE DEF IeeeInv
<1> QED BY <1>6, <1>7, <1>8, <1>9, <1>10, <1>11, <1>12, <1>13, <1>14, <1>15, ReadOn
-----------------------------------------------------------------------------
(***************************************************************************)
(* A disk is changed; the machine is reset.                                *)
(***************************************************************************)
LEMMA DosEmpty ==
  /\ DosReset \in DosTypes
  /\ ~DosReset.listening /\ ~DosReset.talking /\ ~DosReset.opening /\ DosReset.in = <<>>
  /\ \A c \in DosChannels : DosReset.pos[c] = FileLen
<1> DEFINE k == CHOOSE c \in DosChannels : TRUE
           e == <<>>
           q == [c \in DosChannels |-> FileLen]
<1>1. k \in DosChannels /\ e \in Seq(BusValues) /\ e = <<>>
  BY DosAssumption
<1>2. q \in [DosChannels -> 0 .. FileLen] /\ \A c \in DosChannels : q[c] = FileLen
  <2>1. FileLen \in 0 .. FileLen
    BY DosAssumption
  <2> QED BY <2>1
<1>3. DosReset = [listening |-> FALSE, talking |-> FALSE, opening |-> FALSE, chan |-> k, pos |-> q, in |-> e]
  BY DEF DosReset
<1> HIDE DEF k, e, q
<1> QED BY <1>1, <1>2, <1>3 DEF DosTypes

LEMMA Swaps ==
  ASSUME IeeeInv, dos' = [DosReset EXCEPT !.in = dos.in], pet' = [pet EXCEPT !.swapped = pet.at # "idle"],
         ctl' = ctl, got' = got, dropped' = dropped, NEW d \in DriveTypes, ieee' = d,
         \A f \in {"dav", "eoi", "nrfd", "ndac", "data", "prevAtn", "taken", "onBus", "ourListen", "ourTalk", "pbyte",
                   "plast", "pchan"} : d[f] = ieee[f],
         \/ d.listener = ieee.listener /\ d.talker = ieee.talker /\ d.pending = ieee.pending /\ d.tentative = ieee.tentative
         \/ ~d.listener /\ ~d.talker /\ ~d.pending /\ ~d.tentative
  PROVE  IeeeInv'
<1> USE DEF IeeeInv
<1> DEFINE w == pet.at # "idle"
           p == [pet EXCEPT !.swapped = w]
           u == [DosReset EXCEPT !.in = dos.in]
<1>1. w \in BOOLEAN /\ w = (pet.at # "idle")
  OBVIOUS
<1> HIDE DEF w
<1>2. /\ p \in PetTypes /\ p.at = pet.at /\ p.todo = pet.todo /\ p.next = pet.next /\ p.chan = pet.chan /\ p.sent = pet.sent
      /\ p.swapped = w
  BY <1>1 DEF Types, PetTypes
<1>3. /\ u \in DosTypes /\ u.in = dos.in /\ ~u.listening /\ ~u.talking /\ ~u.opening
      /\ \A c \in DosChannels : u.pos[c] = FileLen
  BY DosEmpty DEF Types, DosTypes
<1>4. pet' = p /\ dos' = u
  BY DEF w
<1> HIDE DEF p, u
<1>5. Left(p) = Left(pet)
  BY <1>2 DEF Left
<1>6. /\ (d.listener => ieee.listener) /\ (d.talker => ieee.talker) /\ (d.pending => ieee.pending /\ d.talker = ieee.talker)
      /\ (d.tentative => ieee.tentative) /\ d.ourListen = ieee.ourListen /\ d.ourTalk = ieee.ourTalk
      /\ d.pchan = ieee.pchan /\ d.pbyte = ieee.pbyte /\ d.onBus = ieee.onBus /\ d.prevAtn = ieee.prevAtn
      /\ (Awaits(d) <=> Awaits(ieee)) /\ (Took(d) <=> Took(ieee)) /\ (TalkLines(d) <=> TalkLines(ieee)) /\ d.data = ieee.data
  BY DEF Awaits, Took, TalkLines
<1>7. Types'
  BY <1>2, <1>3, <1>4 DEF Types
<1>8. CtlShape(ctl, p)
  BY <1>2 DEF CtlShape
<1>9. Answers(ctl, d, p)
  BY <1>2, <1>6 DEF Answers
<1>10. Plan(ctl, d, u, p, dropped)
  <2>1. Quiet(ieee) => Quiet(d)
    BY <1>6 DEF Quiet
  <2>2. WritePlan(ctl, ieee, pet) => WritePlan(ctl, d, p)
    BY <1>2, <1>5, <1>6, <2>1 DEF WritePlan
  <2>3. DonePlan(ctl, ieee, pet) => DonePlan(ctl, d, p)
    <3>1. p.chan = pet.chan /\ Left(p) = Left(pet)
      BY <1>2, <1>5
    <3> HIDE DEF IeeeInv
    <3> QED BY <1>6, <2>1, <3>1, Zenon DEF DonePlan
  <2>4. pet.at # "idle" /\ pet.chan \in DosChannels /\ ReadPlan(ctl, ieee, dos, pet, dropped) => ReadPlan(ctl, d, u, p, dropped)
    <3>1. (pet.chan \in DosChannels => u.pos[p.chan] = FileLen) /\ (pet.at # "idle" => p.swapped)
      BY <1>1, <1>2, <1>3
    <3>2. d.pending => ieee.pending /\ (ieee.talker => d.talker)
      BY <1>6
    <3>3. \A x, y : Len(<<x, y>>) = 2 /\ Len(<<x>>) = 1
      OBVIOUS
    <3> HIDE DEF IeeeInv
    <3> QED BY <1>2, <1>3, <1>5, <1>6, <3>1, <3>2 DEF ReadPlan
  <2> QED BY <1>2, <1>3, <1>6, <2>1, <2>2, <2>3, <2>4 DEF Plan
<1>11. Addressed(ctl, d, u, p) /\ Arrives(ctl, u, p)
  BY <1>1, <1>2 DEF Addressed, Arrives
<1>12. Talks(ctl, d, p, got, dropped)
  BY <1>2, <1>6 DEF Talks
<1>13. Bytes(d, u, p, got, dropped)
  <2>1. \A c : Opens(p, c) <=> Opens(pet, c)
    BY <1>5 DEF Opens, Due
  <2>2. \A k : Due(p, k) <=> Due(pet, k)
    BY <1>5 DEF Due
  <2>3. \A c \in DosChannels \ dropped : FileBytes(d, u, p, got, c)
    <3>1. ASSUME NEW c \in DosChannels \ dropped PROVE FileBytes(d, u, p, got, c)
      <4>1. FileBytes(ieee, dos, pet, got, c)
        BY <3>1 DEF Bytes
      <4>2. got[c] = [i \in 1 .. Len(got[c]) |-> Byte(i)]
        BY <4>1 DEF FileBytes
      <4>3. CASE Opens(pet, c)
        BY <2>1, <4>2, <4>3 DEF FileBytes
      <4>4. CASE ~Opens(pet, c)
        <5>1. d.pending /\ d.pchan = c => d.pbyte = Byte(Len(got[c]) + 1)
          <6>1. SUFFICES ASSUME ieee.pending, ieee.pchan = c, dos.opening PROVE FALSE
            BY <1>6, <4>1, <4>4 DEF FileBytes
          <6>2. ieee.listener /\ pet.at # "idle" /\ pet.next = "done"
            <7>1. ieee.listener /\ pet.at # "idle"
              BY <6>1 DEF Plan, Quiet
            <7>2. pet.next # "read" /\ pet.next # "write"
              BY <3>1, <4>4, <6>1 DEF Bytes
            <7> QED BY <7>1, <7>2 DEF Types, PetTypes
          <6>3. DonePlan(ctl, ieee, pet)
            BY <6>2 DEF Plan
          <6>4. Left(pet) = <<Secondary("close", pet.chan), UL>>
            BY <6>1, <6>2, <6>3 DEF DonePlan, Quiet
          <6>5. Due(pet, Secondary("close", pet.chan))
            BY <6>4, DueIs
          <6>6. "close" \in SecondaryKinds
            BY DEF SecondaryKinds
          <6> QED BY <6>1, <6>5, <6>6 DEF Bytes
        <5> QED BY <1>3, <3>1, <4>2, <5>1 DEF FileBytes
      <4> QED BY <4>3, <4>4
    <3> QED BY <3>1
  <2>4. d.pending => /\ d.pchan \in DosChannels
                     /\ p.next = "write" => d.pchan \in dropped \/ Opens(p, d.pchan)
                     /\ Due(p, Secondary("close", p.chan)) => d.pchan \in dropped
    BY <1>2, <1>6, <2>1, <2>2 DEF Bytes
  <2>5. \A c \in DosChannels : Opens(p, c) => got[c] = <<>> /\ c = p.chan /\ p.next = "write"
    BY <1>2, <2>1 DEF Bytes
  <2>6. Left(p) = <<Secondary("open", p.chan)>> => u.pos[p.chan] = FileLen
    <3>1. Left(p) = <<Secondary("open", p.chan)>> => Due(p, Secondary("open", p.chan))
      BY DueIs
    <3>2. pet.at = "idle" => Left(p) = <<>>
      BY <1>5 DEF Plan, Left
    <3>3. <<>> # <<Secondary("open", p.chan)>>
      OBVIOUS
    <3> QED BY <1>2, <1>3, <3>2, <3>3 DEF Plan
  <2> QED BY <1>3, <2>2, <2>3, <2>4, <2>5, <2>6 DEF Bytes
<1> QED BY <1>4, <1>7, <1>8, <1>9, <1>10, <1>11, <1>12, <1>13

LEMMA ChangesDisk ==
  ASSUME IeeeInv, MountDisk \/ EjectDisk PROVE IeeeInv'
<1>1. CASE MountDisk
  <2> DEFINE d == [ieee EXCEPT !.listener = FALSE, !.talker = FALSE, !.pending = FALSE, !.tentative = FALSE, !.ended = FALSE]
  <2>1. /\ dos' = [DosReset EXCEPT !.in = dos.in] /\ pet' = [pet EXCEPT !.swapped = pet.at # "idle"]
        /\ ctl' = ctl /\ got' = got /\ dropped' = dropped /\ ieee' = d
    BY <1>1 DEF MountDisk, hist
  <2>2. d \in DriveTypes
    BY DEF IeeeInv, Types, DriveTypes
  <2>3. \A f \in {"dav", "eoi", "nrfd", "ndac", "data", "prevAtn", "taken", "onBus", "ourListen", "ourTalk", "pbyte",
                   "plast", "pchan"} : d[f] = ieee[f]
    BY DEF IeeeInv, Types, DriveTypes
  <2>4. ~d.listener /\ ~d.talker /\ ~d.pending /\ ~d.tentative
    BY DEF IeeeInv, Types, DriveTypes
  <2> HIDE DEF d, IeeeInv
  <2> QED BY <2>1, <2>2, <2>3, <2>4, Swaps
<1>2. CASE EjectDisk
  <2>1. /\ dos' = [DosReset EXCEPT !.in = dos.in] /\ pet' = [pet EXCEPT !.swapped = pet.at # "idle"]
        /\ ctl' = ctl /\ got' = got /\ dropped' = dropped /\ ieee' = ieee
    BY <1>2 DEF EjectDisk, hist
  <2>2. ieee \in DriveTypes
    BY DEF IeeeInv, Types
  <2> QED BY <2>1, <2>2, Swaps
<1> QED BY <1>1, <1>2

\* The state after a reset, which is the first one.
Fresh(c, d, s, p, g, lost) ==
  c = CtlReset /\ d = IeeeReset /\ s = DosReset /\ p = PetIdle /\ g = [k \in DosChannels |-> <<>>] /\ lost = {}

LEMMA FreshInv ==
  ASSUME NEW c, NEW d, NEW s, NEW p, NEW g, NEW lost, Fresh(c, d, s, p, g, lost)
  PROVE  /\ c \in CtlTypes /\ d \in DriveTypes /\ s \in DosTypes /\ p \in PetTypes
         /\ g \in [DosChannels -> Seq(BusValues)] /\ lost \subseteq DosChannels
         /\ CtlShape(c, p) /\ Answers(c, d, p) /\ Plan(c, d, s, p, lost) /\ Addressed(c, d, s, p) /\ Arrives(c, s, p)
         /\ Talks(c, d, p, g, lost) /\ Bytes(d, s, p, g, lost)
<1> DEFINE free == Free
           e == <<>>
           gone == -1
<1>1. free \in BusValues /\ free = Free /\ e \in Seq(BusValues) /\ e \in Seq(BusValues \ {Free}) /\ e = <<>>
      /\ gone \in DosChannels \cup {-1}
  BY DEF BusValues
<1>2. c = [atn |-> TRUE, dav |-> TRUE, eoi |-> TRUE, nrfd |-> TRUE, ndac |-> TRUE, data |-> free]
  BY DEF Fresh, CtlReset
<1>3. d = [dav |-> TRUE, eoi |-> TRUE, nrfd |-> TRUE, ndac |-> TRUE, data |-> free, listener |-> FALSE, talker |-> FALSE,
           ourListen |-> FALSE, ourTalk |-> FALSE, prevAtn |-> TRUE, taken |-> FALSE, onBus |-> FALSE, ended |-> FALSE,
           pending |-> FALSE, tentative |-> FALSE, pbyte |-> free, plast |-> FALSE, pchan |-> gone]
  BY DEF Fresh, IeeeReset
<1>4. p = [at |-> "idle", todo |-> e, next |-> "done", left |-> 0, sent |-> e, chan |-> 0, swapped |-> FALSE]
  BY DEF Fresh, PetIdle
<1>5. s = DosReset /\ lost = {} /\ g = [k \in DosChannels |-> e]
  BY DEF Fresh
<1> HIDE DEF free, e, gone
<1>6. c \in CtlTypes /\ d \in DriveTypes
  BY <1>1, <1>2, <1>3 DEF CtlTypes, DriveTypes
<1>7. p \in PetTypes
  BY <1>1, <1>4 DEF PetTypes, PetAts
<1>8. s \in DosTypes /\ ~s.listening /\ ~s.talking /\ ~s.opening /\ \A k \in DosChannels : s.pos[k] = FileLen
  BY <1>5, DosEmpty
<1>9. g \in [DosChannels -> Seq(BusValues)] /\ \A k \in DosChannels : g[k] = <<>>
  BY <1>1, <1>5
<1>10. CtlShape(c, p)
  BY <1>1, <1>2, <1>4 DEF CtlShape, Puts, Reads
<1>11. Answers(c, d, p)
  BY <1>2, <1>3 DEF Answers
<1>12. Plan(c, d, s, p, lost)
  BY <1>1, <1>3, <1>4, <1>8 DEF Plan, Quiet, Reads
<1>13. Addressed(c, d, s, p) /\ Arrives(c, s, p)
  BY <1>4 DEF Addressed, Arrives
<1>14. Talks(c, d, p, g, lost)
  BY <1>3, <1>4 DEF Talks, Reads
<1>15. Bytes(d, s, p, g, lost)
  <2>1. Left(p) = <<>>
    BY <1>1, <1>4 DEF Left
  <2>2. \A k : ~Due(p, k)
    BY <2>1, DueIs
  <2>3. Left(p) # <<Secondary("open", p.chan)>>
    <3>1. Len(<<Secondary("open", p.chan)>>) = 1
      BY Ahead
    <3> QED BY <2>1, <3>1
  <2>4. \A k \in DosChannels : FileBytes(d, s, p, g, k)
    <3>1. ASSUME NEW k \in DosChannels PROVE g[k] = [i \in 1 .. Len(g[k]) |-> Byte(i)]
      BY <1>9
    <3> QED BY <1>3, <1>8, <3>1 DEF FileBytes
  <2>5. ~d.pending
    BY <1>3
  <2> QED BY <1>8, <2>2, <2>3, <2>4, <2>5 DEF Bytes, Opens
<1> QED BY <1>5, <1>6, <1>7, <1>8, <1>9, <1>10, <1>11, <1>12, <1>13, <1>14, <1>15

LEMMA IeeeStep ==
  ASSUME IeeeInv, [IeeeNext]_ieeeVars PROVE IeeeInv'
<1>1. CASE UNCHANGED ieeeVars
  <2>1. ctl' = ctl /\ ieee' = ieee /\ dos' = dos /\ pet' = pet /\ got' = got /\ dropped' = dropped
    BY <1>1 DEF ieeeVars, dosVars
  <2> QED BY <2>1 DEF IeeeInv, Types
<1>2. CASE PetStart
  <2>1. PICK k \in DosChannels : \/ PetOpen(k) \/ PetClose(k)
                                 \/ \E n \in 1 .. MaxData : PetWrite(k, n) \/ PetRead(k, n)
                                 \/ \E b \in Commands : PetOther(b, k)
    BY <1>2 DEF PetStart
  <2>2. \A n \in 1 .. MaxData : n \in Nat
    OBVIOUS
  <2> QED BY <2>1, <2>2, Opening, Closing, Writing, Reading, CallingOther
<1>3. CASE PetStep
  <2>1. CASE PetPut \/ PetDav \/ PetAccepted \/ PetClear \/ PetWriteData \/ PetUnlisten \/ PetUntalk \/ PetGivesUp
    BY <2>1, PutsByte, TakesByte, AcceptsByte, ClearsByte, EndsCommands, Unlistens, Untalks, GivesUp
  <2>2. CASE PetTurnNrfd \/ PetTurnNdac \/ PetTurnAtn \/ PetReady \/ PetBusy \/ PetTake \/ PetTaken
    BY <2>2, Turning, TurnsAtn, Readies, IsBusy, GetsByte, SeesTaken
  <2>3. CASE PetLetGo \/ PetStuckTalker \/ PetRelease("ndac") \/ PetRelease("nrfd")
    BY <2>3, LetsGo, Releases
  <2> QED BY <1>3, <2>1, <2>2, <2>3 DEF PetStep
<1>4. CASE MountDisk \/ EjectDisk
  BY <1>4, ChangesDisk
<1>5. CASE IeeeMachineReset
  <2>1. Fresh(ctl', ieee', dos', pet', got', dropped')
    BY <1>5 DEF IeeeMachineReset, Fresh
  <2> QED BY <2>1, FreshInv DEF IeeeInv, Types
<1> QED BY <1>1, <1>2, <1>3, <1>4, <1>5 DEF IeeeNext

\* The invariant says what a program may rely on.
LEMMA IeeeMeans ==
  ASSUME IeeeInv PROVE IeeeRight
<1> USE DEF IeeeInv
<1>1. IeeeBytesInOrder
  BY DEF Bytes, FileBytes, IeeeBytesInOrder, InOrder
<1>2. IeeeWritesArrive
  <2>1. SUFFICES ASSUME pet.next = "write", ~pet.swapped, ctl.atn
                 PROVE  dos.in = pet.sent \/ (pet.todo # <<>> /\ dos.in = Append(pet.sent, Head(pet.todo)))
    BY DEF IeeeWritesArrive
  <2>2. pet.at \in {"send", "dav", "accepted", "clear"}
    BY <2>1 DEF Plan, CtlShape, Types, PetTypes, PetAts, Reads
  <2>3. CASE pet.at \in {"send", "dav"}
    BY <2>1, <2>3 DEF Arrives
  <2>4. CASE pet.at \in {"accepted", "clear"}
    <3>1. pet.todo # <<>> /\ dos.in = Append(pet.sent, pet.todo[1])
      BY <2>1, <2>4 DEF Arrives, CtlShape, Puts
    <3>2. Head(pet.todo) = pet.todo[1]
      BY <3>1 DEF Types, PetTypes
    <3> QED BY <3>1, <3>2
  <2> QED BY <2>2, <2>3, <2>4
<1>3. IeeeAnswered
  <2>1. ASSUME ~pet.swapped \/ ~ctl.atn, pet.at = "send", pet.todo # <<>> PROVE Level(ctl, ieee, "nrfd")
    <3>1. ctl.nrfd /\ pet.next \in {"write", "read", "done"}
      BY <2>1 DEF CtlShape, Puts, Types, PetTypes
    <3>2. ctl.atn => pet.next = "write"
      BY <2>1, <3>1 DEF Plan, DonePlan, ReadPlan, Reads
    <3>3. ctl.atn => ieee.listener
      BY <2>1, <3>2 DEF Addressed
    <3> QED BY <2>1, <3>1, <3>3 DEF Answers, Awaits, Level
  <2>2. ASSUME ~pet.swapped \/ ~ctl.atn, pet.at = "accepted" PROVE Level(ctl, ieee, "ndac")
    <3>1. ctl.ndac /\ pet.next \in {"write", "read", "done"}
      BY <2>2 DEF CtlShape, Puts, Types, PetTypes
    <3>2. ctl.atn => pet.next = "write"
      BY <2>2, <3>1 DEF Plan, DonePlan, ReadPlan, Reads
    <3>3. ctl.atn => ieee.listener
      BY <2>2, <3>2 DEF Addressed
    <3> QED BY <2>2, <3>1, <3>3 DEF Answers, Took, Level
  <2>3. ASSUME ~pet.swapped \/ ~ctl.atn, pet.at = "took" PROVE Level(ctl, ieee, "dav")
    <3>1. ctl.atn /\ ctl.dav /\ ctl.ndac /\ TalkLines(ieee) /\ pet.next = "read" /\ pet.todo = <<>>
      BY <2>3 DEF CtlShape, Plan, Talks, Reads
    <3>2. ieee.talker
      BY <2>3, <3>1, ReadState
    <3>3. ~ieee.onBus
      BY <2>3, <3>1, <3>2 DEF Talks
    <3> QED BY <2>3, <3>1, <3>3 DEF Level, TalkLines
  <2> QED BY <2>1, <2>2, <2>3 DEF IeeeAnswered
<1> QED BY <1>1, <1>2, <1>3 DEF IeeeRight

(***************************************************************************)
(* The bytes a program reads from a file are its first ones in order, what *)
(* it writes arrives, and the drive answers every step of the handshake    *)
(* unless a disk was changed under it (IEEE488Bus::step).                  *)
(***************************************************************************)
THEOREM IeeeCorrect == IeeeSpec => []IeeeRight
<1>1. IeeeInit => IeeeInv
  <2> SUFFICES ASSUME IeeeInit PROVE IeeeInv
    OBVIOUS
  <2>1. Fresh(ctl, ieee, dos, pet, got, dropped)
    BY DEF IeeeInit, DosInit, Fresh
  <2> QED BY <2>1, FreshInv DEF IeeeInv, Types
<1>2. IeeeInv /\ [IeeeNext]_ieeeVars => IeeeInv'
  BY IeeeStep
<1>3. IeeeInv => IeeeRight
  BY IeeeMeans
<1> QED BY <1>1, <1>2, <1>3, PTL DEF IeeeSpec
=============================================================================
