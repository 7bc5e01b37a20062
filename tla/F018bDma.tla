------------------------------ MODULE F018bDma ------------------------------
(***************************************************************************)
(* The MEGA65's DMA controller (plugins/devices/f018b_dma/main/            *)
(* f018b_dma.cpp).  A program writes where its list of jobs is and         *)
(* triggers it; the controller then moves one byte per tick, with the      *)
(* processor halted, until a job without the chain bit is done.  A list is *)
(* a record of its address, whether its jobs carry options, and its jobs;  *)
(* a job's bytes are a record, its length counts in the list's address.    *)
(* Memory is what was written on top of a fixed pattern.                   *)
(***************************************************************************)
EXTENDS Integers, Sequences, TLC, SequencesExt

CONSTANTS DmaLists,         \* the lists in memory: [at, enhanced, rev, jobs]
          DmaExperimental,  \* m_experimentalDmaOps
          DmaWhole          \* bytes a count of 0 stands for: 65536

ASSUME DmaAssumption == DmaExperimental \in BOOLEAN /\ DmaWhole \in Nat \ {0}

VARIABLES dma,      \* the controller
          dmaMem,   \* bytes written, by address; I/O addresses above 2^28
          dmaProg,  \* what the program is doing: its list, its trigger, the writes to come
          dmaRef    \* history: the memory the list stands for

dmaVars == <<dma, dmaMem, dmaProg, dmaRef>>

DmaBit(n, k) == ((n \div 2^k) % 2) = 1
DmaNoLine == [xCol |-> 0, yCol |-> 0, slope |-> 0, acc |-> 0, line |-> FALSE, yMajor |-> FALSE, minus |-> FALSE]
DmaNoSpiral == [on |-> FALSE, phase |-> 0, len |-> 1, step |-> 0]

DmaInit ==
    /\ dma = [regs |-> [r \in 0 .. 6 |-> 0], list |-> 0, active |-> FALSE, enhanced |-> FALSE, chain |-> FALSE,
              left |-> 0, op |-> "copy", srcAcc |-> 0, dstAcc |-> 0, srcMB |-> 0, dstMB |-> 0,
              solid |-> TRUE, key |-> 0, srcLine |-> DmaNoLine, dstLine |-> DmaNoLine, spiral |-> DmaNoSpiral,
              job |-> <<>>]
    /\ dmaMem = << >>
    /\ dmaProg = [list |-> <<>>, writes |-> <<>>]
    /\ dmaRef = << >>

\* The pattern under what was written: every byte differs from its neighbours.
DmaAt(mem, a) == IF a \in DOMAIN mem THEN mem[a] ELSE (a % 16) + 1

-----------------------------------------------------------------------------
(* The list in memory.                                                     *)

DmaBlank == [opts |-> <<>>, op |-> "copy", chain |-> FALSE, count |-> 0, src |-> 0, srcBank |-> 0, srcIo |-> FALSE,
             dst |-> 0, dstBank |-> 0, dstIo |-> FALSE, srcDir |-> FALSE, dstDir |-> FALSE, sub |-> 0,
             minterms |-> {}, modulo |-> 0]

\* Options from $80 on take an argument byte; a zero byte ends them.
DmaSize(job, enhanced, f018b) ==
    (IF f018b THEN 12 ELSE 11)
        + (IF enhanced THEN 1 + FoldLeft(LAMBDA n, o : n + (IF o[1] >= 128 THEN 2 ELSE 1), 0, job.opts) ELSE 0)

DmaJobAddr(l, k) ==
    FoldLeft(LAMBDA a, job : a + DmaSize(job, l.enhanced, l.rev = "b"), l.at, SubSeq(l.jobs, 1, k - 1))

\* Memory that holds no list reads as a job of zeros.
DmaJobAt(addr) ==
    LET here == {w \in {<<l, k>> : l \in DmaLists, k \in 1 .. 3} :
                    w[2] \in 1 .. Len(w[1].jobs) /\ DmaJobAddr(w[1], w[2]) = addr}
    IN  IF here = {} THEN DmaBlank ELSE LET w == CHOOSE w \in here : TRUE IN w[1].jobs[w[2]]

\* parseJobOptions, one option: those of the job in "rate" and "f018a", the others in the controller.
DmaOption(s, o) ==
    LET opt == o[1]
        arg == o[2]
        Low(x) == (x \div 256) * 256 + arg
        High(x) == (x % 256) + 256 * arg
        Line(side, n) ==
            [s EXCEPT ![side] =
                CASE n = 0 -> [@ EXCEPT !.xCol = (@ \div 65536) * 65536 + 256 * arg]
                  [] n = 1 -> [@ EXCEPT !.xCol = (@ % 65536) + 65536 * arg]
                  [] n = 2 -> [@ EXCEPT !.yCol = (@ \div 65536) * 65536 + 256 * arg]
                  [] n = 3 -> [@ EXCEPT !.yCol = (@ % 65536) + 65536 * arg]
                  [] n = 4 -> [@ EXCEPT !.slope = Low(@)]
                  [] n = 5 -> [@ EXCEPT !.slope = High(@)]
                  [] n = 6 -> [@ EXCEPT !.acc = Low(@ % 65536)]
                  [] n = 7 -> [@ EXCEPT !.acc = High(@)]
                  [] n = 8 -> [@ EXCEPT !.line = DmaBit(arg, 7), !.yMajor = DmaBit(arg, 6), !.minus = DmaBit(arg, 5)]]
    IN  CASE opt = 128 -> [s EXCEPT !.srcMB = arg]
          [] opt = 129 -> [s EXCEPT !.dstMB = arg]
          [] opt = 130 -> [s EXCEPT !.srcRate = Low(@)]
          [] opt = 131 -> [s EXCEPT !.srcRate = High(@)]
          [] opt = 132 -> [s EXCEPT !.dstRate = Low(@)]
          [] opt = 133 -> [s EXCEPT !.dstRate = High(@)]
          [] opt = 134 -> [s EXCEPT !.key = arg]
          [] opt \in 135 .. 143 -> Line("dstLine", opt - 135)
          [] opt \in 151 .. 159 -> Line("srcLine", opt - 151)
          [] opt = 6 -> [s EXCEPT !.solid = TRUE]
          [] opt = 7 -> [s EXCEPT !.solid = FALSE]
          [] opt = 10 -> [s EXCEPT !.f018a = TRUE]
          [] opt = 11 -> [s EXCEPT !.f018a = FALSE]
          [] opt = 83 -> [s EXCEPT !.spiral = [DmaNoSpiral EXCEPT !.on = TRUE]]
          [] OTHER -> s

\* Faulty: the upper register holds the bits above the bank's.
DmaSyncRegsApart(regs, a) ==
    [regs EXCEPT ![0] = a % 256, ![5] = a % 256, ![1] = (a \div 256) % 256,
                 ![2] = (IF @ >= 128 THEN 128 ELSE 0) + ((a \div 65536) % 128), ![4] = (a \div 2^23) % 256]

\* syncListAddrToRegs
DmaSyncRegs(regs, a) ==
    [regs EXCEPT ![0] = a % 256, ![5] = a % 256, ![1] = (a \div 256) % 256,
                 ![2] = (IF @ >= 128 THEN 128 ELSE 0) + ((a \div 65536) % 128), ![4] = (a \div 2^20) % 256]

\* fetchAndBeginNextJob, once the job's bytes are read: on an F018A the bank
\* byte's bits 4 to 6 are the flags, on an F018B they count as megabytes.
\* Modulo needs the experimental operations and takes line mode's place.
DmaBegin(d, s, job, f018b, addr) ==
    LET Flag(b18, bank, k) == IF f018b THEN DmaBit(job.sub, b18) ELSE DmaBit(bank, k)
        srcMod == DmaExperimental /\ Flag(0, job.srcBank, 1)
        dstMod == DmaExperimental /\ Flag(2, job.dstBank, 1)
        mod == srcMod \/ dstMod
        cols == IF (job.count % 256) = 0 THEN 256 ELSE job.count % 256
        rows == IF job.count < 256 THEN 256 ELSE job.count \div 256
        Base(addr20, mb, bank) == (addr20 % 2^20) + 2^20 * (IF f018b THEN (mb + bank) % 256 ELSE mb)
        Rate(r) == IF r = 0 THEN 256 ELSE r
    IN  [d EXCEPT !.list = addr, !.regs = DmaSyncRegs(@, addr), !.chain = job.chain, !.op = job.op,
                  !.srcMB = s.srcMB, !.dstMB = s.dstMB, !.key = s.key, !.solid = s.solid, !.spiral = s.spiral,
                  !.srcLine = IF mod /\ srcMod THEN [s.srcLine EXCEPT !.line = FALSE] ELSE s.srcLine,
                  !.dstLine = IF mod /\ dstMod THEN [s.dstLine EXCEPT !.line = FALSE] ELSE s.dstLine,
                  !.left = IF mod THEN cols * rows ELSE IF job.count = 0 THEN DmaWhole ELSE job.count,
                  !.srcAcc = 0, !.dstAcc = 0,
                  !.job = [src |-> Base(job.src, s.srcMB, job.srcBank), dst |-> Base(job.dst, s.dstMB, job.dstBank),
                           srcStep |-> Rate(s.srcRate), dstStep |-> Rate(s.dstRate), fill |-> job.src % 256,
                           srcIo |-> job.srcIo, dstIo |-> job.dstIo,
                           srcDir |-> IF f018b THEN job.srcDir ELSE DmaBit(job.srcBank, 2),
                           dstDir |-> IF f018b THEN job.dstDir ELSE DmaBit(job.dstBank, 2),
                           srcHold |-> Flag(1, job.srcBank, 0), dstHold |-> Flag(3, job.dstBank, 0),
                           srcMod |-> srcMod, dstMod |-> dstMod, cols |-> cols, rows |-> rows, col |-> 0, row |-> 0,
                           modulo |-> job.modulo, minterms |-> job.minterms, f018b |-> f018b]]

\* fetchAndBeginNextJob: $0B does not bring the F018B layout when EN018B is clear.
DmaFetch(d) ==
    LET job == DmaJobAt(d.list)
        s0 == [srcMB |-> d.srcMB, dstMB |-> d.dstMB, srcRate |-> 256, dstRate |-> 256, key |-> d.key, solid |-> d.solid,
               srcLine |-> d.srcLine, dstLine |-> d.dstLine, spiral |-> d.spiral, f018a |-> FALSE]
        s == IF d.enhanced THEN FoldLeft(DmaOption, s0, job.opts) ELSE s0
        f018b == ~s.f018a /\ DmaBit(d.regs[3], 0)
    IN  DmaBegin(d, s, job, f018b, (d.list + DmaSize(job, d.enhanced, f018b)) % 2^28)

-----------------------------------------------------------------------------
(* The registers.                                                          *)

\* Faulty: transparency stays as the last list left it.
DmaForgetMost(d) ==
    [d EXCEPT !.srcMB = 0, !.dstMB = 0, !.spiral = DmaNoSpiral, !.srcLine = DmaNoLine, !.dstLine = DmaNoLine]

\* Options a trigger starts from.
DmaForget(d) ==
    [d EXCEPT !.solid = TRUE, !.key = 0, !.srcMB = 0, !.dstMB = 0, !.srcLine = DmaNoLine, !.dstLine = DmaNoLine,
              !.spiral = DmaNoSpiral]

\* startDma: a job is never empty, so the fetch does not fail.
DmaStart(d) ==
    LET low == IF d.enhanced THEN d.regs[5] ELSE d.regs[0]
        at == (low + 256 * d.regs[1] + 65536 * (d.regs[2] % 128) + 2^23 * (d.regs[4] \div 8)) % 2^28
    IN  [DmaFetch(DmaForget([d EXCEPT !.list = at])) EXCEPT !.active = TRUE]

\* $D706: the options are forgotten once the first job is fetched.
DmaStartMapped(d) ==
    LET at == d.regs[0] + 256 * d.regs[1]
    IN  DmaForget([DmaFetch([d EXCEPT !.list = at]) EXCEPT !.active = TRUE])

\* ioWrite.  ADDRBANK and ADDRMB share three bits.  With no map set, the mapped address is the address.
DmaIoWrite(d, r, v) ==
    LET w == [d EXCEPT !.regs[r] = v]
    IN  CASE r = 2 -> [w EXCEPT !.regs[4] = (v \div 16) % 8]
          [] r = 4 -> [w EXCEPT !.regs[2] = (IF @ >= 128 THEN 128 ELSE 0) + (@ % 16) + 16 * (v % 8)]
          [] r = 0 -> DmaStart([w EXCEPT !.enhanced = FALSE, !.regs[4] = @ % 8, !.regs[5] = v])
          [] r = 5 -> DmaStart([w EXCEPT !.enhanced = TRUE, !.regs[0] = v])
          [] r = 6 -> DmaStartMapped([w EXCEPT !.enhanced = TRUE, !.regs[0] = v])
          [] OTHER -> w

\* reset
DmaReset ==
    /\ dma' = [dma EXCEPT !.regs = [r \in 0 .. 6 |-> 0], !.list = 0, !.active = FALSE, !.chain = FALSE, !.left = 0,
                          !.srcMB = 0, !.dstMB = 0]
    /\ dma.active
    /\ dmaRef' = dmaMem
    /\ dmaProg' = [list |-> <<>>, writes |-> <<>>]
    /\ UNCHANGED dmaMem

-----------------------------------------------------------------------------
(* Moving bytes.                                                           *)

\* dmaRead, dmaWrite: with the I/O flag $xDxxx is the I/O registry's.
DmaPlace(addr, io) ==
    LET a == addr % 2^28
    IN  IF io /\ ((a \div 4096) % 16) = 13 THEN 2^28 + (a % 65536) ELSE a

\* stepAddress: 8 bits of an accumulator are the fraction.  The spiral is
\* asked for by comparing the two accumulators.
DmaLineStep(acc, lm) ==
    LET over == lm.acc + lm.slope >= 65536
        X(a, edge, step) == IF ((a \div 256) % 8) = edge THEN a + step * (lm.xCol + 256) ELSE a + step * 256
        y == acc + 2048
        yEdge == IF ((y \div 2048) % 8) = 7 THEN y + lm.yCol ELSE y
        x == X(acc, 7, 1)
    IN  CASE lm.yMajor /\ ~over -> yEdge
          [] lm.yMajor /\ over -> IF lm.minus THEN X(yEdge, 0, -1) ELSE X(yEdge, 7, 1)
          [] ~lm.yMajor /\ ~over -> x
          [] ~lm.yMajor /\ over -> IF lm.minus THEN x - 2048 ELSE x + 2048

DmaSpiralStep(sp) ==
    IF sp.step + 1 < sp.len THEN [sp EXCEPT !.step = @ + 1]
    ELSE [sp EXCEPT !.step = 0, !.phase = (@ + 1) % 4, !.len = IF sp.phase = 3 THEN @ + 1 ELSE @]

DmaStep(d, side, lineSide, dir, step) ==
    LET lm == d[lineSide]
    IN  IF lm.line
        THEN [d EXCEPT ![side] = DmaLineStep(@, lm), ![lineSide].acc = (@ + lm.slope) % 65536]
        ELSE IF d.spiral.on /\ d[side] = d.dstAcc
        THEN [d EXCEPT ![side] = @ + <<1, 40, -1, -40>>[d.spiral.phase + 1], !.spiral = DmaSpiralStep(@)]
        ELSE [d EXCEPT ![side] = @ + (IF dir THEN -step ELSE step)]

\* The end of a row of a modulo job.
DmaRow(d) ==
    LET j == d.job
        lastCol == j.col + 1 >= j.cols
        lastRow == j.row + 1 >= j.rows
    IN  IF ~(j.srcMod \/ j.dstMod) THEN d
        ELSE IF ~lastCol THEN [d EXCEPT !.job.col = @ + 1]
        ELSE IF lastRow THEN [d EXCEPT !.left = 0]
        ELSE [d EXCEPT !.job.col = 0, !.job.row = @ + 1,
                       !.srcAcc = IF j.srcMod THEN @ + 256 * j.modulo ELSE @,
                       !.dstAcc = IF j.dstMod THEN @ + 256 * j.modulo ELSE @]

DmaBitwise(s, d, minterms) ==
    FoldLeft(LAMBDA n, k : n + (IF ((IF DmaBit(s, k) THEN 2 ELSE 0) + (IF DmaBit(d, k) THEN 1 ELSE 0)) \in minterms
                                THEN 2^k ELSE 0),
             0, <<0, 1, 2, 3, 4, 5, 6, 7>>)

\* The bytes one tick writes; the unsigned accumulator's whole part has 24 bits.
DmaWrites(d, mem) ==
    LET j == d.job
        src == DmaPlace(j.src + ((d.srcAcc \div 256) % 2^24), j.srcIo)
        dst == DmaPlace(j.dst + ((d.dstAcc \div 256) % 2^24), j.dstIo)
        s == DmaAt(mem, src)
        t == DmaAt(mem, dst)
    IN  CASE d.op = "copy" /\ (d.solid \/ s # d.key) -> dst :> s
          [] d.op = "fill" -> dst :> j.fill
          [] d.op = "swap" /\ DmaExperimental -> (src :> t) @@ (dst :> s)
          [] d.op = "mix" /\ DmaExperimental -> dst :> DmaBitwise(s, t, j.minterms)
          [] OTHER -> << >>

\* tickOneByte: a refused operation clears active and goes on.
DmaTickOne(d) ==
    LET j == d.job
        refused == d.op \in {"swap", "mix"} /\ ~DmaExperimental
        d1 == IF j.srcHold THEN d ELSE DmaStep(d, "srcAcc", "srcLine", j.srcDir, j.srcStep)
        d2 == IF j.dstHold THEN d1 ELSE DmaStep(d1, "dstAcc", "dstLine", j.dstDir, j.dstStep)
        d3 == DmaRow([d2 EXCEPT !.active = ~refused])
        d4 == [d3 EXCEPT !.left = IF @ > 0 THEN @ - 1 ELSE 0]
    IN  CASE d.left = 0 -> [d EXCEPT !.active = FALSE]
          [] d4.left > 0 -> d4
          [] d4.left = 0 /\ d4.chain -> DmaFetch(d4)
          [] d4.left = 0 /\ ~d4.chain -> [d4 EXCEPT !.srcMB = 0, !.dstMB = 0, !.active = FALSE]

DmaTick ==
    /\ dma.active
    /\ dma' = DmaTickOne(dma)
    /\ dmaMem' = IF dma.left = 0 THEN dmaMem ELSE DmaWrites(dma, dmaMem) @@ dmaMem
    /\ UNCHANGED <<dmaProg, dmaRef>>

-----------------------------------------------------------------------------
(* What a list stands for: every job at once, from where its options say.  *)

DmaSettings == [srcMB |-> 0, dstMB |-> 0, srcRate |-> 256, dstRate |-> 256, key |-> 0, solid |-> TRUE,
                srcLine |-> DmaNoLine, dstLine |-> DmaNoLine, spiral |-> DmaNoSpiral, f018a |-> FALSE]

DmaJobResult(mem, s, job, f018b) ==
    LET begun == DmaBegin(dma, s, job, f018b, 0)
        j == begun.job
        Walk(i, rate, dir, hold, modded, lm) ==
            CASE lm.line -> (i \div 8) * (8 + lm.xCol \div 256) + (i % 8) + 8 * ((i * lm.slope + lm.acc) \div 65536)
              [] ~lm.line /\ hold -> 0
              [] OTHER -> (IF dir THEN -(i * rate) ELSE i * rate) \div 256
                              + (IF modded THEN (i \div j.cols) * j.modulo ELSE 0)
        Src(i) == DmaPlace(j.src + Walk(i, j.srcStep, j.srcDir, j.srcHold, j.srcMod, begun.srcLine), j.srcIo)
        Dst(i) == DmaPlace(j.dst + Walk(i, j.dstStep, j.dstDir, j.dstHold, j.dstMod, begun.dstLine), j.dstIo)
        Value(i) == CASE job.op \in {"copy", "swap"} -> DmaAt(mem, Src(i))
                      [] job.op = "fill" -> j.fill
                      [] job.op = "mix" -> DmaBitwise(DmaAt(mem, Src(i)), DmaAt(mem, Dst(i)), j.minterms)
        moved == {i \in 0 .. begun.left - 1 : job.op # "copy" \/ s.solid \/ DmaAt(mem, Src(i)) # s.key}
        Latest(S) == CHOOSE i \in S : \A k \in S : k <= i
        there == [a \in {Dst(i) : i \in moved} |-> Value(Latest({i \in moved : Dst(i) = a}))]
        back == [a \in {Src(i) : i \in moved} |-> DmaAt(mem, Dst(Latest({i \in moved : Src(i) = a})))]
    IN  IF job.op = "swap" THEN there @@ back @@ mem ELSE there @@ mem

\* Options last until the list's end, rates and the revision until the job's.
DmaListResult(mem, l, rev) ==
    FoldLeft(LAMBDA acc, job :
                LET s == FoldLeft(DmaOption, [acc.s EXCEPT !.srcRate = 256, !.dstRate = 256, !.f018a = FALSE], job.opts)
                    supported == DmaExperimental \/ job.op \notin {"swap", "mix"}
                IN  IF ~acc.going \/ ~supported THEN [acc EXCEPT !.going = FALSE]
                    ELSE [s |-> s, going |-> job.chain, mem |-> DmaJobResult(acc.mem, s, job, rev = "b" /\ ~s.f018a)],
             [s |-> DmaSettings, going |-> TRUE, mem |-> mem], l.jobs).mem

\* The program names a list, register by register, and triggers it.
DmaChoose ==
    /\ ~dma.active /\ dmaProg = [list |-> <<>>, writes |-> <<>>] /\ dmaMem = << >>
    /\ \E l \in DmaLists :
         \E trigger \in (IF ~l.enhanced THEN {0} ELSE IF l.at < 65536 THEN {5, 6} ELSE {5}) :
            dmaProg' = [list |-> l,
                        writes |-> << <<3, IF l.rev = "b" THEN 1 ELSE 0>>, <<1, (l.at \div 256) % 256>>,
                                      <<2, (l.at \div 65536) % 128>>, <<4, l.at \div 2^20>>, <<trigger, l.at % 256>> >>]
    /\ UNCHANGED <<dma, dmaMem, dmaRef>>

DmaProgramWrites ==
    /\ ~dma.active /\ dmaProg.writes # <<>>
    /\ LET w == Head(dmaProg.writes)
       IN  /\ dma' = DmaIoWrite(dma, w[1], w[2])
           /\ dmaRef' = IF w[1] \in {0, 5, 6} THEN DmaListResult(dmaMem, dmaProg.list, dmaProg.list.rev) ELSE dmaRef
           /\ dmaProg' = IF Len(dmaProg.writes) > 1 THEN [dmaProg EXCEPT !.writes = Tail(@)]
                         ELSE [dmaProg EXCEPT !.writes = <<>>, !.list = [by |-> w[1]] @@ @]
    /\ UNCHANGED dmaMem

\* Between lists the program puts the pattern back.
DmaClear ==
    /\ ~dma.active /\ dmaProg.writes = <<>> /\ (dmaProg.list # <<>> \/ dmaMem # << >>)
    /\ dmaMem' = << >> /\ dmaRef' = << >>
    /\ dmaProg' = [dmaProg EXCEPT !.list = <<>>]
    /\ UNCHANGED dma

DmaNext == DmaTick \/ DmaReset \/ DmaChoose \/ DmaProgramWrites \/ DmaClear

DmaSpec == DmaInit /\ [][DmaNext]_dmaVars
-----------------------------------------------------------------------------
DmaDone == ~dma.active /\ dmaProg.writes = <<>> /\ dmaProg.list # <<>>
DmaForward(l) == \A k \in 1 .. Len(l.jobs) : ~l.jobs[k].srcDir /\ ~l.jobs[k].dstDir
                                             /\ \A o \in DOMAIN l.jobs[k].opts : l.jobs[k].opts[o][1] \notin {11, 83}

(***************************************************************************)
(* When the controller stops, memory holds what the list says: each job's  *)
(* bytes at the places its rates, lines and rows name, its options carried *)
(* along the chain and forgotten by the next list, whatever lists ran, and *)
(* were cut short by a reset, before (lists that only go forward, started  *)
(* at $D700 or $D705).                                                     *)
(***************************************************************************)
DmaListDone == DmaDone /\ dmaProg.list.by # 6 /\ DmaForward(dmaProg.list) => dmaMem = dmaRef

(***************************************************************************)
(* The list address a program reads back is the next job's: the registers, *)
(* whose bits overlap, put together again give m_dmaListAddr.              *)
(***************************************************************************)
DmaListShown ==
    dma.active =>
        /\ dma.regs[0] = dma.regs[5]
        /\ dma.list = dma.regs[0] + 256 * dma.regs[1] + 65536 * (dma.regs[2] % 128) + 2^23 * (dma.regs[4] \div 8)
        /\ (dma.regs[4] % 8) = ((dma.regs[2] \div 16) % 8)

\* "Dest direction: false=forward, true=backward" (f018b_dma.h:143).
DmaBackwardDone == DmaDone /\ dmaProg.list.by # 6 => dmaMem = dmaRef

(***************************************************************************)
(* A list is carried out as it says, and the registers tell where its next *)
(* job is.                                                                 *)
(***************************************************************************)
DmaListRun == DmaListDone /\ DmaListShown
=============================================================================
