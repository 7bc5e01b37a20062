----------------------------- MODULE CbmImageDos -----------------------------
(***************************************************************************)
(* A disk image served as a drive (plugins/devices/ieee488/main/           *)
(* cbm_image_dos.cpp): the channels a program opens, reads, writes and     *)
(* closes, in any order and several at a time, direct-access buffers, the  *)
(* commands of channel 15 and its status.  A transaction on the bus        *)
(* (LISTEN or TALK, the secondary address, the bytes, UNLISTEN or UNTALK)  *)
(* is one action.  MFM disks and the burst commands are left out.          *)
(***************************************************************************)
EXTENDS Integers, Sequences, FiniteSets, SequencesExt

-----------------------------------------------------------------------------
(***************************************************************************)
(* A Commodore disk image (plugins/cbm-loader/main/cbm_sector_disk.cpp):   *)
(* tracks of sectors, a map of the free ones with a count per track (the   *)
(* BAM), a chain of directory sectors on the directory track, and files as *)
(* chains of sectors.  Operators on a disk record; names are values, a     *)
(* sector holds a few bytes.  flushed says whether the host takes the image *)
(* back into its file; what the file itself then holds is left out.        *)
(***************************************************************************)

CONSTANTS DiskTracks,   \* sectors on each track
          DiskDir,      \* the directory's track: sector 0 is the header, 1 the first of the directory
          DiskSlots,    \* entries in a directory sector: 8
          DiskFill,     \* data bytes in a sector: 254
          DiskIl,       \* interleave()
          DiskDirStep   \* sectors from a directory sector to the next: 3, or 1

ASSUME DiskAssumption ==
    /\ DiskDir \in 1 .. Len(DiskTracks) /\ DiskSlots \in Nat \ {0} /\ DiskFill \in Nat \ {0}
    /\ DiskIl \in Nat \ {0} /\ DiskDirStep \in Nat \ {0}

\* sectorsOn, allocTracks
DiskN == Len(DiskTracks)
DiskSpt(t) == IF t \in 1 .. DiskN THEN DiskTracks[t] ELSE 0
DiskAll == UNION {{<<t, s>> : s \in 0 .. DiskTracks[t] - 1} : t \in 1 .. DiskN}
DiskNoFile == [type |-> 0]

\* An image as it comes: no file on it; a file the host lets write.
DiskEmpty ==
    [writable |-> TRUE,
     free |-> DiskAll \ {<<DiskDir, 0>>, <<DiskDir, 1>>},
     count |-> [t \in 1 .. DiskN |-> IF t = DiskDir THEN DiskTracks[t] - 2 ELSE DiskTracks[t]],
     sec |-> [x \in DiskAll |-> [next |-> <<>>, data |-> <<>>]],
     dir |-> << [at |-> 1, slots |-> [i \in 1 .. DiskSlots |-> DiskNoFile]] >>]

\* allocate, release: the bit and the track's count.  What a freed sector still holds is not kept.
DiskAllocate(d, x) == [d EXCEPT !.free = @ \ {x}, !.count[x[1]] = @ - 1]
DiskRelease(d, x) ==
    IF x \in d.free THEN d ELSE [d EXCEPT !.free = @ \cup {x}, !.count[x[1]] = @ + 1, !.sec[x] = [next |-> <<>>, data |-> <<>>]]

\* allocOnTrack: the free sector found going round the track from s; none is <<>>.
DiskOnTrack(d, t, s) ==
    LET n == DiskSpt(t)
        hits == {i \in 0 .. n - 1 : <<t, (s + i) % n>> \in d.free}
    IN  IF n = 0 \/ hits = {} THEN <<>>
        ELSE <<t, (s + (CHOOSE i \in hits : \A j \in hits : i <= j)) % n>>

\* The first of several tries <<track, from>> that finds a sector.
DiskFirstOf(d, tries) ==
    LET ok == {i \in DOMAIN tries : DiskOnTrack(d, tries[i][1], tries[i][2]) # <<>>}
    IN  IF ok = {} THEN <<>>
        ELSE LET i == CHOOSE i \in ok : \A j \in ok : i <= j IN DiskOnTrack(d, tries[i][1], tries[i][2])

\* allocFirst: outward from the directory.
DiskAllocFirst(d) ==
    DiskFirstOf(d, [i \in 1 .. 2 * DiskN |->
                      <<IF i % 2 = 1 THEN DiskDir - (i + 1) \div 2 ELSE DiskDir + i \div 2, 0>>])

\* addIl
DiskAddIl(t, s) ==
    LET n == DiskSpt(t)
        from == IF s >= n THEN 0 ELSE s
        to == from + DiskIl
    IN  IF n = 0 THEN 0 ELSE IF to < n THEN to ELSE IF to - n > 0 THEN to - n - 1 ELSE 0

\* allocNext: the same track, then away from the directory, then the other side.
DiskAllocNext(d, x) ==
    LET Down(t, s) == [i \in 1 .. t |-> <<t + 1 - i, DiskAddIl(t + 1 - i, s)>>]
        Up(t, s) == SelectSeq([i \in 1 .. DiskN + 1 - t |-> <<t + i - 1, DiskAddIl(t + i - 1, s)>>],
                              LAMBDA p : p[1] # DiskDir)
        low == x[1] < DiskDir
    IN  DiskFirstOf(d, << <<x[1], DiskAddIl(x[1], x[2])>> >>
                          \o (IF low THEN Down(x[1], x[2]) \o Up(DiskDir + 1, 0) \o Down(DiskDir - 1, 0)
                              ELSE Up(x[1], x[2]) \o Down(DiskDir - 1, 0) \o Up(DiskDir + 1, 0)))

\* The sectors a file's chain goes through.
DiskChain(d, start) ==
    LET grown[n \in 0 .. Cardinality(DiskAll)] ==
            IF n = 0 THEN <<start>>
            ELSE LET c == grown[n - 1] IN IF d.sec[Last(c)].next = <<>> THEN c ELSE Append(c, d.sec[Last(c)].next)
    IN  grown[Cardinality(DiskAll)]

\* findEntry; getDirectory: the places that hold a file, in order.
DiskPlaces(d) == FoldLeft(LAMBDA acc, k : acc \o [i \in 1 .. DiskSlots |-> <<k, i>>], <<>>, [k \in 1 .. Len(d.dir) |-> k])
DiskEntry(d, p) == d.dir[p[1]].slots[p[2]]
DiskFiles(d) == SelectSeq(DiskPlaces(d), LAMBDA p : DiskEntry(d, p).type # 0)
DiskFind(d, name) ==
    LET hits == SelectSeq(DiskFiles(d), LAMBDA p : DiskEntry(d, p).name = name)
    IN  IF hits = <<>> THEN <<>> ELSE hits[1]

\* readFile
DiskRead(d, p) ==
    FoldLeft(LAMBDA acc, x : acc \o d.sec[x].data, <<>>, DiskChain(d, DiskEntry(d, p).start))

\* findSlot: a free entry, or a new directory sector on the directory's track.
DiskSlot(d) ==
    LET empty == SelectSeq(DiskPlaces(d), LAMBDA p : DiskEntry(d, p).type = 0)
        n == DiskSpt(DiskDir)
        tries == {i \in 1 .. n : <<DiskDir, (Last(d.dir).at + DiskDirStep * i) % n>> \in d.free}
    IN  IF empty # <<>> THEN [ok |-> TRUE, disk |-> d, place |-> empty[1]]
        ELSE IF tries = {} THEN [ok |-> FALSE, disk |-> d, place |-> <<>>]
        ELSE LET s == (Last(d.dir).at + DiskDirStep * (CHOOSE i \in tries : \A j \in tries : i <= j)) % n
             IN  [ok |-> TRUE, place |-> <<Len(d.dir) + 1, 1>>,
                  disk |-> [DiskAllocate(d, <<DiskDir, s>>)
                              EXCEPT !.dir = Append(@, [at |-> s, slots |-> [i \in 1 .. DiskSlots |-> DiskNoFile]])]]

\* Sectors for a file of this many blocks, or not enough of them.
DiskGrow(acc, x) ==
    IF x = <<>> THEN [acc EXCEPT !.ok = FALSE]
    ELSE [ok |-> TRUE, disk |-> DiskAllocate(acc.disk, x), chain |-> Append(acc.chain, x)]
DiskTake(d, blocks) ==
    FoldLeft(LAMBDA acc, i :
                IF ~acc.ok THEN acc
                ELSE DiskGrow(acc, IF i = 1 THEN DiskAllocFirst(acc.disk) ELSE DiskAllocNext(acc.disk, Last(acc.chain))),
             [ok |-> TRUE, disk |-> d, chain |-> <<>>], [i \in 1 .. blocks |-> i])

\* Faulty: only the file's first sector is given back.
DiskDropFirst(d, p) ==
    [DiskRelease(d, DiskEntry(d, p).start) EXCEPT !.dir[p[1]].slots[p[2]] = DiskNoFile]

\* A scratched or replaced file: its sectors given back, its entry cleared.
DiskDrop(d, p) ==
    [FoldLeft(DiskRelease, d, DiskChain(d, DiskEntry(d, p).start)) EXCEPT !.dir[p[1]].slots[p[2]] = DiskNoFile]

\* A new file, or a disk that is full and left as it was.
DiskBlocks(data) == IF data = <<>> THEN 1 ELSE (Len(data) + DiskFill - 1) \div DiskFill
DiskStore(d, slot, took, name, type, data) ==
    LET blocks == DiskBlocks(data)
        At(i) == SubSeq(data, (i - 1) * DiskFill + 1, IF i * DiskFill < Len(data) THEN i * DiskFill ELSE Len(data))
        Filled(x) == LET i == CHOOSE i \in 1 .. blocks : took.chain[i] = x
                     IN  [next |-> IF i < blocks THEN took.chain[i + 1] ELSE <<>>, data |-> At(i)]
    IN  IF ~slot.ok \/ ~took.ok THEN [code |-> 72, disk |-> d]
        ELSE [code |-> 0,
              disk |-> [took.disk EXCEPT
                          !.sec = [x \in DiskAll |-> IF x \in Range(took.chain) THEN Filled(x) ELSE @[x]],
                          !.dir[slot.place[1]].slots[slot.place[2]] =
                             [type |-> type, locked |-> FALSE, name |-> name, start |-> took.chain[1], blocks |-> blocks]]]
DiskPutAt(d, slot, name, type, data) == DiskStore(d, slot, DiskTake(slot.disk, DiskBlocks(data)), name, type, data)
DiskPut(d, name, type, data) == DiskPutAt(d, DiskSlot(d), name, type, data)

\* flushAll: what was done is reported, or a write error; the image in memory keeps it.
DiskFlushed(flushed) == IF flushed THEN 0 ELSE 25

\* Faulty: the old file goes before there is room for the new one.
DiskWriteFileEarly(d, name, type, data, replace, flushed) ==
    LET old == DiskFind(d, name)
    IN  IF ~d.writable THEN [code |-> 26, disk |-> d]
        ELSE IF old # <<>> /\ ~replace THEN [code |-> 63, disk |-> d]
        ELSE DiskPut(IF old # <<>> THEN DiskDrop(d, old) ELSE d, name, type, data)

\* writeFile: the new file is complete before the old one goes.
DiskReplace(d, old, put, replace, flushed) ==
    IF ~d.writable THEN [code |-> 26, disk |-> d]
    ELSE IF old # <<>> /\ ~replace THEN [code |-> 63, disk |-> d]
    ELSE IF put.code # 0 THEN put
    ELSE [code |-> DiskFlushed(flushed), disk |-> IF old # <<>> THEN DiskDrop(put.disk, old) ELSE put.disk]
DiskWriteFile(d, name, type, data, replace, flushed) ==
    DiskReplace(d, DiskFind(d, name), DiskPut(d, name, type, data), replace, flushed)

\* scratch: every file the pattern names, but the locked ones.
DiskScratched(d, names) ==
    SelectSeq(DiskFiles(d), LAMBDA p : DiskEntry(d, p).name \in names /\ ~DiskEntry(d, p).locked)
DiskScratch(d, names) == FoldLeft(DiskDrop, d, DiskScratched(d, names))

\* rename
DiskRename(d, new, old, flushed) ==
    LET p == DiskFind(d, old)
    IN  IF ~d.writable THEN [code |-> 26, disk |-> d]
        ELSE IF DiskFind(d, new) # <<>> THEN [code |-> 63, disk |-> d]
        ELSE IF p = <<>> THEN [code |-> 62, disk |-> d]
        ELSE [code |-> DiskFlushed(flushed), disk |-> [d EXCEPT !.dir[p[1]].slots[p[2]].name = new]]

\* getFreeBlocks: the counts, without the directory's track.
DiskFreeBlocks(d) == FoldLeft(LAMBDA n, t : n + (IF t = DiskDir THEN 0 ELSE d.count[t]), 0, [t \in 1 .. DiskN |-> t])

\* A disk is sound: every sector is free or belongs to one file or to the
\* directory, and the counts are right.
DiskSound(d) ==
    LET files == Range(DiskFiles(d))
        Sectors(p) == Range(DiskChain(d, DiskEntry(d, p).start))
        system == {<<DiskDir, 0>>} \cup {<<DiskDir, d.dir[k].at>> : k \in DOMAIN d.dir}
    IN  /\ \A p, q \in files : p # q => Sectors(p) \cap Sectors(q) = {} /\ DiskEntry(d, p).name # DiskEntry(d, q).name
        /\ DiskAll \ d.free = system \cup UNION {Sectors(p) : p \in files}
        /\ \A p \in files : Sectors(p) \cap system = {} /\ DiskEntry(d, p).blocks = Len(DiskChain(d, DiskEntry(d, p).start))
        /\ \A t \in 1 .. DiskN : d.count[t] = Cardinality({x \in d.free : x[1] = t})

-----------------------------------------------------------------------------
CONSTANTS ImgChannels,  \* channels in use, of 0 to 14
          ImgNames,     \* file names
          ImgMaxLen     \* bound: bytes in a file

ASSUME ImgAssumption == ImgChannels \subseteq 0 .. 14 /\ ImgMaxLen \in Nat

VARIABLES img,      \* the DOS
          imgDisk,  \* the image
          imgSaved  \* history: what was last saved under each name, in the image

imgVars == <<img, imgDisk, imgSaved>>

ImgClosed == [kind |-> "closed"]

\* err is the error light: a status of 20 or more, until it is read.
ImgReset ==
    [ch |-> [c \in ImgChannels |-> ImgClosed], err |-> FALSE]

ImgInit ==
    /\ img = ImgReset
    /\ \E locked, writable \in BOOLEAN :
         imgDisk = [DiskWriteFile(DiskEmpty, "old", 2, <<0>>, FALSE, TRUE).disk
                      EXCEPT !.writable = writable, !.dir[1].slots[1].locked = locked]
    /\ imgSaved = [n \in ImgNames \cup {"old"} |-> IF n = "old" THEN << <<0>> >> ELSE <<>>]

\* setError, dosResult
ImgSay(s, code) == [s EXCEPT !.err = code >= 20]

ImgOnly(s) == img' = s /\ UNCHANGED <<imgDisk, imgSaved>>
ImgCode(code) == ImgOnly(ImgSay(img, code))

-----------------------------------------------------------------------------
(* Channels: opening forgets what the channel held.                        *)

\* openChannel, for reading: a file, or the listing, is copied whole, and
\* read from the copy (CbmDos); the channel has no more to do with the disk.
ImgOpenRead(c, name) ==
    LET there == name = "$" \/ DiskFind(imgDisk, name) # <<>>
    IN  ImgOnly([ImgSay(img, IF there THEN 0 ELSE 62) EXCEPT !.ch[c] = ImgClosed])

\* openChannel, for writing: a new file, "@:" over an old one, or at its end.
ImgOpenWrite(c, name, mode) ==
    LET p == DiskFind(imgDisk, name)
        code == IF ~imgDisk.writable THEN 26
                ELSE IF mode = "append" /\ p = <<>> THEN 62 ELSE IF mode = "new" /\ p # <<>> THEN 63 ELSE 0
        data == IF mode = "append" /\ p # <<>> THEN DiskRead(imgDisk, p) ELSE <<>>
    IN  ImgOnly([ImgSay(img, code) EXCEPT
                   !.ch[c] = IF code # 0 THEN ImgClosed
                             ELSE [kind |-> "write", data |-> data, name |-> name, replace |-> mode # "new"]])

\* openChannel, "#": a buffer of the drive.
ImgOpenBuffer(c) == ImgOnly([ImgSay(img, 0) EXCEPT !.ch[c] = [kind |-> "buffer"]])

\* ciout to a channel; one that is not open for it drops the byte.
ImgWrite(c) ==
    /\ img.ch[c].kind = "write" /\ Len(img.ch[c].data) < ImgMaxLen
    /\ ImgOnly([img EXCEPT !.ch[c].data = Append(@, 1)])

\* closeChannel: a file being written goes to the disk.
ImgClose(c) ==
    LET ch == img.ch[c]
    IN  IF ch.kind # "write" THEN ImgOnly([img EXCEPT !.ch[c] = ImgClosed])
        ELSE \E w \in {DiskWriteFile(imgDisk, ch.name, 1, ch.data, ch.replace, flushed) : flushed \in BOOLEAN} :
                /\ img' = [ImgSay(img, w.code) EXCEPT !.ch[c] = ImgClosed]
                /\ imgDisk' = w.disk
                /\ imgSaved' = IF w.code \in {0, 25} THEN [imgSaved EXCEPT ![ch.name] = <<ch.data>>] ELSE imgSaved

\* acptr of channel 15: read once, then OK.
ImgStatus == ImgCode(0)

-----------------------------------------------------------------------------
(* Commands.                                                               *)

\* command, "S:": every name the pattern matches; "*" is all of them.  Whether the host
\* took it is not reported.
ImgScratch(pattern) ==
    LET names == IF pattern = "*" THEN ImgNames \cup {"old"} ELSE {pattern}
        gone == {DiskEntry(imgDisk, p).name : p \in Range(DiskScratched(imgDisk, names))}
    IN  IF ~imgDisk.writable THEN ImgCode(26)
        ELSE
        /\ img' = ImgSay(img, 1)
        /\ imgDisk' = DiskScratch(imgDisk, names)
        /\ imgSaved' = [n \in DOMAIN imgSaved |-> IF n \in gone THEN <<>> ELSE imgSaved[n]]

\* "R:new=old"
ImgRename(new, old) ==
    \E r \in {DiskRename(imgDisk, new, old, flushed) : flushed \in BOOLEAN} :
        /\ img' = ImgSay(img, r.code)
        /\ imgDisk' = r.disk
        /\ imgSaved' = IF r.code \in {0, 25} THEN [imgSaved EXCEPT ![new] = imgSaved[old], ![old] = <<>>] ELSE imgSaved

\* "I", "UI", "UJ"; what the drive does not know
ImgInitialise == ImgCode(0)
ImgUnknown == ImgCode(31)

\* blockRead, blockWrite, bufferPointer; what a buffer and a free sector hold is not modelled.
ImgBlock(c, x) ==
    \E code \in IF img.ch[c].kind # "buffer" THEN {70} ELSE IF x \notin DiskAll THEN {66}
                ELSE {0, IF imgDisk.writable THEN 25 ELSE 26} : ImgCode(code)

\* reset, and open of another image: what was being written is lost.
ImgResetDrive == ImgOnly(ImgReset)

ImgNext ==
    \/ \E c \in ImgChannels, n \in ImgNames \cup {"old"} :
          ImgOpenRead(c, n) \/ \E mode \in {"new", "over", "append"} : ImgOpenWrite(c, n, mode)
    \/ \E c \in ImgChannels :
          \/ ImgOpenRead(c, "$") \/ ImgOpenBuffer(c) \/ ImgClose(c) \/ ImgWrite(c)
          \/ \E x \in {<<1, 0>>, <<1, 99>>} : ImgBlock(c, x)
    \/ ImgStatus \/ ImgInitialise \/ ImgUnknown \/ ImgResetDrive
    \/ \E p \in ImgNames \cup {"*", "old"} : ImgScratch(p)
    \/ \E new, old \in ImgNames \cup {"old"} : ImgRename(new, old)

ImgSpec == ImgInit /\ [][ImgNext]_imgVars
-----------------------------------------------------------------------------
(***************************************************************************)
(* Whatever is saved, appended to, replaced, scratched, renamed, on as     *)
(* many channels at a time, and however often the disk fills up: no sector *)
(* is lost, none belongs to two files or to a file and the free ones, and  *)
(* the counts of free blocks are right.                                    *)
(***************************************************************************)
ImgDiskSound == DiskSound(imgDisk)

(***************************************************************************)
(* Every name reads back what the last CLOSE that found room saved under   *)
(* it: its own bytes, behind what the file held when it was opened for     *)
(* appending; a save the disk had no room for, or a protected disk, leaves *)
(* the old file whole.  After a write error (25) the image in memory has   *)
(* the new file.                                                           *)
(***************************************************************************)
ImgReadsBack ==
    \A n \in DOMAIN imgSaved :
        LET p == DiskFind(imgDisk, n)
        IN  IF p = <<>> THEN imgSaved[n] = <<>> ELSE imgSaved[n] = <<DiskRead(imgDisk, p)>>
=============================================================================
