------------------------ MODULE DebugContext_proofs ------------------------
(***************************************************************************)
(* Proofs about the debugger's core, for any addresses, breakpoints,       *)
(* instructions, ROM and trace capacity: the newest trace entry undoes     *)
(* its instruction, the breakpoint list's counters agree with the list,    *)
(* and a resume passes one breakpoint and makes progress.                  *)
(*                                                                         *)
(* What a sequence of bus writes leaves behind is an induction over the    *)
(* sequence, which is done by looking at the least number of writes for    *)
(* which the claim would fail.                                             *)
(***************************************************************************)
EXTENDS DebugContext, CircularBuffer, SequenceTheorems, FiniteSetTheorems, TLAPS

\* Every non-empty set of naturals has a least element.
LEMMA LeastNatural ==
  ASSUME NEW T \in SUBSET Nat, T # {}
  PROVE  \E x \in T : \A y \in T : x <= y
<1>1. PICK x \in T : \A y \in T : ~(<<y, x>> \in OpToRel(<, Nat))
  BY NatLessThanWellFounded, WFMin
<1>2. ASSUME NEW y \in T PROVE ~(y < x)
  BY <1>1 DEF OpToRel
<1> QED BY <1>2
-----------------------------------------------------------------------------
\* The states a sequence of writes goes through exist, whatever a write does.
LEMMA RunExists ==
  ASSUME NEW b, NEW ws, Len(ws) \in Nat
  PROVE  \E f : f = [n \in 0 .. Len(ws) |-> IF n = 0 THEN b ELSE BusWrite(f[n - 1], ws[n])]
<1> DEFINE P(n) == \E f : f = [k \in 0 .. n |-> IF k = 0 THEN b ELSE BusWrite(f[k - 1], ws[k])]
           T == {n \in 0 .. Len(ws) : ~P(n)}
<1>1. SUFFICES ASSUME T # {} PROVE FALSE
  <2>1. T = {} => P(Len(ws))
    OBVIOUS
  <2> QED BY <2>1
<1>2. T \in SUBSET Nat
  OBVIOUS
<1>3. PICK n \in T : \A k \in T : n <= k
  BY <1>1, <1>2, LeastNatural
<1>4. n \in 0 .. Len(ws) /\ ~P(n) /\ (n # 0 => P(n - 1))
  <2> HIDE DEF P
  <2>1. n \in 0 .. Len(ws) /\ ~P(n)
    OBVIOUS
  <2>2. n # 0 => n - 1 \in 0 .. Len(ws) /\ n - 1 < n
    BY <2>1
  <2> QED BY <1>3, <2>1, <2>2
<1>5. CASE n = 0
  <2> DEFINE g == [k \in 0 .. 0 |-> b]
  <2>1. g = [k \in 0 .. 0 |-> IF k = 0 THEN b ELSE BusWrite(g[k - 1], ws[k])]
    OBVIOUS
  <2> QED BY <1>4, <1>5, <2>1
<1>6. CASE n # 0
  <2>3. PICK g : g = [k \in 0 .. n - 1 |-> IF k = 0 THEN b ELSE BusWrite(g[k - 1], ws[k])]
    BY <1>4, <1>6
  <2> DEFINE f == [k \in 0 .. n |-> IF k < n THEN g[k] ELSE BusWrite(g[n - 1], ws[n])]
  <2>4. ASSUME NEW k \in 0 .. n PROVE f[k] = IF k = 0 THEN b ELSE BusWrite(f[k - 1], ws[k])
    <3>1. CASE k = 0
      <4>1. g[0] = b
        BY <1>4, <1>6, <2>3
      <4> QED BY <1>4, <1>6, <3>1, <4>1
    <3>2. CASE k # 0 /\ k < n
      <4>1. k \in 0 .. n - 1 /\ k - 1 \in 0 .. n /\ k - 1 < n
        BY <1>4, <3>2
      <4>2. g[k] = BusWrite(g[k - 1], ws[k])
        BY <2>3, <3>2, <4>1
      <4>3. f[k - 1] = g[k - 1] /\ f[k] = g[k]
        BY <3>2, <4>1
      <4> QED BY <3>2, <4>2, <4>3
    <3>3. CASE k = n
      <4>1. n - 1 \in 0 .. n /\ n - 1 < n /\ n \in 0 .. n /\ ~(n < n)
        BY <1>4, <1>6
      <4>2. f[n - 1] = g[n - 1] /\ f[n] = BusWrite(g[n - 1], ws[n])
        BY <4>1
      <4> QED BY <1>6, <3>3, <4>2
    <3> QED BY <3>1, <3>2, <3>3
  <2>5. f = [k \in 0 .. n |-> f[k]]
    OBVIOUS
  <2> HIDE DEF f
  <2>6. f = [k \in 0 .. n |-> IF k = 0 THEN b ELSE BusWrite(f[k - 1], ws[k])]
    BY <2>4, <2>5
  <2> QED BY <1>4, <2>6
<1> QED BY <1>5, <1>6

\* WriteAll, state by state.
LEMMA RunStates ==
  ASSUME NEW b, NEW ws, Len(ws) \in Nat
  PROVE  \E f : /\ f[0] = b
                /\ \A n \in 1 .. Len(ws) : f[n] = BusWrite(f[n - 1], ws[n])
                /\ WriteAll(b, ws) = f[Len(ws)]
<1> DEFINE A == CHOOSE f : f = [n \in 0 .. Len(ws) |-> IF n = 0 THEN b ELSE BusWrite(f[n - 1], ws[n])]
<1>1. A = [n \in 0 .. Len(ws) |-> IF n = 0 THEN b ELSE BusWrite(A[n - 1], ws[n])]
  BY RunExists
<1>2. WriteAll(b, ws) = A[Len(ws)]
  BY DEF WriteAll
<1> HIDE DEF A
<1>3. A[0] = b /\ \A n \in 1 .. Len(ws) : A[n] = BusWrite(A[n - 1], ws[n])
  BY <1>1
<1> QED BY <1>2, <1>3

Memory == [Addrs -> Vals]
Bus == [mem : Memory, log : Seq(Write)]

\* What n writes of ws have done to memory m: the log holds a write each; the first
\* write of an address logs what m held, the last one decides what it holds now.
Written(m, ws, n, b) ==
    /\ b \in Bus /\ Len(b.log) = n
    /\ \A i \in 1 .. n : b.log[i].loc = ws[i].loc
    /\ \A i \in 1 .. n : (\A j \in 1 .. i - 1 : ws[j].loc # ws[i].loc) => b.log[i].val = m[ws[i].loc]
    /\ \A a \in Addrs : a \in Rom \/ (\A i \in 1 .. n : ws[i].loc # a) => b.mem[a] = m[a]
    /\ \A i \in 1 .. n : ws[i].loc \notin Rom /\ (\A j \in i + 1 .. n : ws[j].loc # ws[i].loc)
                           => b.mem[ws[i].loc] = ws[i].val

\* One more write.
LEMMA WrittenStep ==
  ASSUME NEW m \in Memory, NEW ws \in Seq(Write), NEW n \in 1 .. Len(ws), NEW b, Written(m, ws, n - 1, b)
  PROVE  Written(m, ws, n, BusWrite(b, ws[n]))
<1> DEFINE w == ws[n]
           M == IF w.loc \in Rom THEN b.mem ELSE [b.mem EXCEPT ![w.loc] = w.val]
           x == [loc |-> w.loc, val |-> b.mem[w.loc]]
           G == Append(b.log, x)
<1>0. Len(ws) \in Nat /\ n \in Nat /\ n >= 1
  OBVIOUS
<1>1. w \in Write /\ w.loc \in Addrs /\ w.val \in Vals
  <2>1. w \in Write
    OBVIOUS
  <2> QED BY <2>1 DEF Write
<1>2. b \in Bus /\ b.mem \in Memory /\ b.log \in Seq(Write) /\ Len(b.log) = n - 1
  BY DEF Written, Bus
<1>3. x \in Write /\ x.loc = w.loc /\ x.val = b.mem[w.loc]
  BY <1>1, <1>2 DEF Write, Memory
<1>4. BusWrite(b, ws[n]) = [mem |-> M, log |-> G]
  BY DEF BusWrite
<1>5. M \in Memory
  BY <1>1, <1>2 DEF Memory
<1>6. \A a \in Addrs : M[a] = IF a = w.loc /\ a \notin Rom THEN w.val ELSE b.mem[a]
  BY <1>1, <1>2 DEF Memory
<1> HIDE DEF x, w
<1>7. G \in Seq(Write) /\ Len(G) = n /\ G[n] = x /\ \A i \in 1 .. n - 1 : G[i] = b.log[i]
  BY <1>0, <1>2, <1>3
<1>8. \A i \in 1 .. n : i = n \/ i \in 1 .. n - 1
  BY <1>0
<1>9. \A i \in 1 .. n : ws[i] \in Write /\ ws[i].loc \in Addrs
  <2>1. \A i \in 1 .. n : ws[i] \in Write
    BY <1>0
  <2> QED BY <2>1 DEF Write
<1> HIDE DEF M, G
<1> DEFINE c == [mem |-> M, log |-> G]
<1>10. c \in Bus /\ c.mem = M /\ c.log = G
  BY <1>5, <1>7 DEF Bus
<1> HIDE DEF c
<1>11. \A i \in 1 .. n : G[i].loc = ws[i].loc
  BY <1>3, <1>7, <1>8 DEF Written, w
<1>12. ASSUME NEW i \in 1 .. n, \A j \in 1 .. i - 1 : ws[j].loc # ws[i].loc
       PROVE  G[i].val = m[ws[i].loc]
  <2>1. CASE i = n
    <3>1. \A j \in 1 .. n - 1 : ws[j].loc # w.loc
      BY <1>12, <2>1 DEF w
    <3>2. b.mem[w.loc] = m[w.loc]
      BY <1>1, <3>1 DEF Written
    <3> QED BY <1>3, <1>7, <2>1, <3>2 DEF w
  <2>2. CASE i \in 1 .. n - 1
    BY <1>7, <1>12, <2>2 DEF Written
  <2> QED BY <1>8, <2>1, <2>2
<1>13. ASSUME NEW a \in Addrs, a \in Rom \/ (\A i \in 1 .. n : ws[i].loc # a) PROVE M[a] = m[a]
  <2>1. M[a] = b.mem[a]
    BY <1>0, <1>6, <1>13 DEF w
  <2>2. a \in Rom \/ \A i \in 1 .. n - 1 : ws[i].loc # a
    BY <1>0, <1>13
  <2> QED BY <2>1, <2>2 DEF Written
<1>14. ASSUME NEW i \in 1 .. n, ws[i].loc \notin Rom, \A j \in i + 1 .. n : ws[j].loc # ws[i].loc
       PROVE  M[ws[i].loc] = ws[i].val
  <2>1. CASE i = n
    BY <1>1, <1>6, <1>14, <2>1 DEF w
  <2>2. CASE i \in 1 .. n - 1
    <3>1. ws[i].loc # w.loc /\ ws[i].loc \in Addrs
      BY <1>0, <1>9, <1>14, <2>2 DEF w
    <3>2. \A j \in i + 1 .. n - 1 : ws[j].loc # ws[i].loc
      BY <1>0, <1>14
    <3>3. b.mem[ws[i].loc] = ws[i].val
      BY <1>14, <2>2, <3>2 DEF Written
    <3> QED BY <1>6, <3>1, <3>3
  <2> QED BY <1>8, <2>1, <2>2
<1> QED
  BY <1>4, <1>7, <1>10, <1>11, <1>12, <1>13, <1>14 DEF Written, c

\* All the writes: by the least number of them for which it would not hold.
LEMMA WriteAllFacts ==
  ASSUME NEW m \in Memory, NEW ws \in Seq(Write)
  PROVE  Written(m, ws, Len(ws), WriteAll([mem |-> m, log |-> << >>], ws))
<1> DEFINE b == [mem |-> m, log |-> << >>]
<1>0. Len(ws) \in Nat
  OBVIOUS
<1>1. PICK f : /\ f[0] = b
               /\ \A n \in 1 .. Len(ws) : f[n] = BusWrite(f[n - 1], ws[n])
               /\ WriteAll(b, ws) = f[Len(ws)]
  BY <1>0, RunStates
<1> DEFINE T == {n \in 0 .. Len(ws) : ~Written(m, ws, n, f[n])}
<1>2. Written(m, ws, 0, f[0])
  <2>1. b \in Bus /\ b.mem = m /\ b.log = << >> /\ Len(b.log) = 0
    BY DEF Bus
  <2> QED BY <1>1, <2>1 DEF Written
<1> HIDE DEF b
<1>3. SUFFICES ASSUME T # {} PROVE FALSE
  <2>1. T = {} => Written(m, ws, Len(ws), f[Len(ws)])
    BY <1>0
  <2> QED BY <1>1, <2>1 DEF b
<1>4. T \in SUBSET Nat
  OBVIOUS
<1>5. PICK n \in T : \A k \in T : n <= k
  BY <1>3, <1>4, LeastNatural
<1>6. n \in 0 .. Len(ws) /\ ~Written(m, ws, n, f[n])
  OBVIOUS
<1>7. n # 0 /\ n \in 1 .. Len(ws)
  BY <1>2, <1>6
<1>8. n - 1 \in 0 .. Len(ws) /\ n - 1 \notin T
  BY <1>0, <1>5, <1>7
<1>9. Written(m, ws, n - 1, f[n - 1])
  BY <1>8
<1> QED BY <1>1, <1>6, <1>7, <1>9, WrittenStep

\* Undoing a log: an address holds what its first entry says, and is left alone if it
\* is ROM or has no entry.
LEMMA UndoFacts ==
  ASSUME NEW m \in Memory, NEW log \in Seq(Write), NEW u, u = Undo([mem |-> m, log |-> << >>], log)
  PROVE  /\ u \in Bus /\ u.mem \in Memory /\ u.log \in Seq(Write)
         /\ \A a \in Addrs : a \in Rom \/ (\A i \in 1 .. Len(log) : log[i].loc # a) => u.mem[a] = m[a]
         /\ \A i \in 1 .. Len(log) :
               log[i].loc \notin Rom /\ (\A j \in 1 .. i - 1 : log[j].loc # log[i].loc)
                 => u.mem[log[i].loc] = log[i].val
<1> DEFINE L == Len(log)
           R == Reverse(log)
<1>0. L \in Nat /\ \A i \in 1 .. L : log[i] \in Write
  OBVIOUS
<1> HIDE DEF L
<1>1. R = [i \in 1 .. L |-> log[(L - i) + 1]]
  BY DEF Reverse, L
<1>2. \A i \in 1 .. L : (L - i) + 1 \in 1 .. L
  BY <1>0
<1>3. R \in Seq(Write) /\ Len(R) = L
  <2>1. R \in [1 .. L -> Write]
    BY <1>0, <1>1, <1>2
  <2> HIDE DEF R
  <2> QED BY <1>0, <2>1, LenProperties, IsASeq
<1> HIDE DEF R
<1>4. Written(m, R, L, u)
  BY <1>3, WriteAllFacts DEF Undo, R
<1>5. u \in Bus /\ u.mem \in Memory /\ u.log \in Seq(Write)
  BY <1>4 DEF Written, Bus
<1>6. ASSUME NEW a \in Addrs, a \in Rom \/ (\A i \in 1 .. L : log[i].loc # a) PROVE u.mem[a] = m[a]
  <2>1. a \in Rom \/ (\A i \in 1 .. L : R[i].loc # a)
    BY <1>1, <1>2, <1>6
  <2> QED BY <1>4, <2>1 DEF Written
<1>7. ASSUME NEW i \in 1 .. L, log[i].loc \notin Rom, \A j \in 1 .. i - 1 : log[j].loc # log[i].loc
      PROVE  u.mem[log[i].loc] = log[i].val
  <2>1. PICK k \in 1 .. L : k = (L - i) + 1 /\ i = (L - k) + 1
    BY <1>0
  <2>2. R[k] = log[i]
    BY <1>1, <2>1
  <2>3. ASSUME NEW j \in k + 1 .. L PROVE R[j].loc # R[k].loc
    <3>1. PICK h \in 1 .. i - 1 : h = (L - j) + 1
      BY <1>0, <2>1
    <3>2. j \in 1 .. L
      BY <1>0, <2>1
    <3>3. R[j] = log[h]
      BY <1>1, <3>1, <3>2
    <3> QED BY <1>7, <2>2, <3>1, <3>3
  <2> QED BY <1>4, <1>7, <2>2, <2>3 DEF Written
<1> QED BY <1>5, <1>6, <1>7 DEF L

\* Writes are undone by undoing what they logged after what was logged before them.
LEMMA UndoWrites ==
  ASSUME NEW m \in Memory, NEW ws \in Seq(Write), NEW old \in Seq(Write),
         NEW b, b = WriteAll([mem |-> m, log |-> << >>], ws)
  PROVE  /\ b \in Bus /\ b.mem \in Memory /\ b.log \in Seq(Write)
         /\ Undo([mem |-> b.mem, log |-> << >>], old \o b.log).mem = Undo([mem |-> m, log |-> << >>], old).mem
<1>1. Written(m, ws, Len(ws), b)
  BY WriteAllFacts
<1>2. b \in Bus /\ b.mem \in Memory /\ b.log \in Seq(Write) /\ Len(b.log) = Len(ws)
  BY <1>1 DEF Written, Bus
<1> DEFINE log == old \o b.log
           n == Len(old)
           p == Len(ws)
<1>3. /\ n \in Nat /\ p \in Nat /\ log \in Seq(Write) /\ Len(log) = n + p
      /\ \A i \in 1 .. n : log[i] = old[i]
      /\ \A i \in 1 .. p : log[n + i] = b.log[i]
  <2>1. PICK g \in Seq(Write) : g = b.log
    BY <1>2
  <2>2. Len(g) = p /\ p \in Nat /\ n \in Nat
    BY <1>2, <2>1
  <2>3. /\ old \o g \in Seq(Write) /\ Len(old \o g) = n + p
        /\ \A i \in 1 .. n + p : (old \o g)[i] = IF i <= n THEN old[i] ELSE g[i - n]
    <3>1. /\ old \o g \in Seq(Write) /\ Len(old \o g) = Len(old) + Len(g)
          /\ \A i \in 1 .. Len(old) + Len(g) : (old \o g)[i] = IF i <= Len(old) THEN old[i] ELSE g[i - Len(old)]
      BY ConcatProperties
    <3> QED BY <2>2, <3>1
  <2>4. \A i \in 1 .. n : i \in 1 .. n + p /\ i <= n
    BY <2>2
  <2>5. \A i \in 1 .. p : n + i \in 1 .. n + p /\ ~(n + i <= n) /\ (n + i) - n = i
    BY <2>2
  <2> QED BY <2>1, <2>2, <2>3, <2>4, <2>5
<1> HIDE DEF log, n, p
<1>4. PICK u : u = Undo([mem |-> b.mem, log |-> << >>], log)
  OBVIOUS
<1>5. PICK v : v = Undo([mem |-> m, log |-> << >>], old)
  OBVIOUS
<1>6. /\ u.mem \in Memory
      /\ \A a \in Addrs : a \in Rom \/ (\A i \in 1 .. n + p : log[i].loc # a) => u.mem[a] = b.mem[a]
      /\ \A i \in 1 .. n + p :
            log[i].loc \notin Rom /\ (\A j \in 1 .. i - 1 : log[j].loc # log[i].loc)
              => u.mem[log[i].loc] = log[i].val
  <2>1. PICK mm \in Memory : mm = b.mem
    BY <1>2
  <2>2. u = Undo([mem |-> mm, log |-> << >>], log) /\ log \in Seq(Write) /\ Len(log) = n + p
    BY <1>3, <1>4, <2>1
  <2>3. /\ u.mem \in Memory
        /\ \A a \in Addrs : a \in Rom \/ (\A i \in 1 .. Len(log) : log[i].loc # a) => u.mem[a] = mm[a]
        /\ \A i \in 1 .. Len(log) :
              log[i].loc \notin Rom /\ (\A j \in 1 .. i - 1 : log[j].loc # log[i].loc)
                => u.mem[log[i].loc] = log[i].val
    BY <2>2, UndoFacts
  <2> QED BY <2>1, <2>2, <2>3
<1>7. /\ v.mem \in Memory
      /\ \A a \in Addrs : a \in Rom \/ (\A i \in 1 .. n : old[i].loc # a) => v.mem[a] = m[a]
      /\ \A i \in 1 .. n :
            old[i].loc \notin Rom /\ (\A j \in 1 .. i - 1 : old[j].loc # old[i].loc)
              => v.mem[old[i].loc] = old[i].val
  BY <1>5, UndoFacts DEF n
<1>8. /\ \A a \in Addrs : a \in Rom \/ (\A i \in 1 .. p : ws[i].loc # a) => b.mem[a] = m[a]
      /\ \A i \in 1 .. p : b.log[i].loc = ws[i].loc
      /\ \A i \in 1 .. p : (\A j \in 1 .. i - 1 : ws[j].loc # ws[i].loc) => b.log[i].val = m[ws[i].loc]
  BY <1>1 DEF Written, p
<1>9. ASSUME NEW a \in Addrs PROVE u.mem[a] = v.mem[a]
  <2>1. CASE a \in Rom
    BY <1>6, <1>7, <1>8, <2>1
  <2>2. CASE a \notin Rom /\ \E i \in 1 .. n : old[i].loc = a
    <3> DEFINE T == {i \in 1 .. n : old[i].loc = a}
    <3>1. T \in SUBSET Nat /\ T # {}
      BY <2>2
    <3>2. PICK i \in T : \A j \in T : i <= j
      BY <3>1, LeastNatural
    <3>3. i \in 1 .. n /\ old[i].loc = a /\ \A j \in 1 .. i - 1 : j \in 1 .. n /\ old[j].loc # a
      BY <1>3, <3>2
    <3>4. v.mem[a] = old[i].val
      BY <1>7, <2>2, <3>3
    <3>5. i \in 1 .. n + p /\ log[i] = old[i] /\ \A j \in 1 .. i - 1 : log[j].loc # a
      <4>1. n \in Nat /\ p \in Nat /\ \A j \in 1 .. n : j \in 1 .. n + p /\ log[j] = old[j]
        BY <1>3
      <4> QED BY <3>3, <4>1
    <3>6. u.mem[a] = log[i].val
      BY <1>6, <2>2, <3>3, <3>5
    <3> QED BY <3>4, <3>5, <3>6
  <2>3. CASE a \notin Rom /\ (\A i \in 1 .. n : old[i].loc # a) /\ \E i \in 1 .. p : ws[i].loc = a
    <3> DEFINE T == {i \in 1 .. p : ws[i].loc = a}
    <3>1. T \in SUBSET Nat /\ T # {}
      BY <2>3
    <3>2. PICK i \in T : \A j \in T : i <= j
      BY <3>1, LeastNatural
    <3>3. i \in 1 .. p /\ ws[i].loc = a /\ \A j \in 1 .. i - 1 : j \in 1 .. p /\ ws[j].loc # a
      BY <1>3, <3>2
    <3>4. log[n + i].loc = a /\ log[n + i].val = m[a] /\ n + i \in 1 .. n + p
      <4>1. n + i \in 1 .. n + p /\ log[n + i] = b.log[i]
        BY <1>3, <3>3
      <4>2. b.log[i].loc = a /\ b.log[i].val = m[a]
        BY <1>8, <3>3
      <4> QED BY <4>1, <4>2
    <3>5. ASSUME NEW j \in 1 .. (n + i) - 1 PROVE log[j].loc # a
      <4>1. CASE j \in 1 .. n
        BY <1>3, <2>3, <4>1
      <4>2. CASE j \notin 1 .. n
        <5>1. PICK h \in 1 .. i - 1 : j = n + h
          <6>1. j - n \in 1 .. i - 1 /\ j = n + (j - n)
            BY <1>3, <3>3, <4>2
          <6> QED BY <6>1
        <5>2. log[j].loc = ws[h].loc
          BY <1>3, <1>8, <3>3, <5>1
        <5> QED BY <3>3, <5>1, <5>2
      <4> QED BY <4>1, <4>2
    <3>6. u.mem[a] = m[a]
      BY <1>6, <2>3, <3>4, <3>5
    <3>7. v.mem[a] = m[a]
      BY <1>7, <2>3
    <3> QED BY <3>6, <3>7
  <2>4. CASE (\A i \in 1 .. n : old[i].loc # a) /\ (\A i \in 1 .. p : ws[i].loc # a)
    <3>1. ASSUME NEW j \in 1 .. n + p PROVE log[j].loc # a
      <4>1. CASE j \in 1 .. n
        BY <1>3, <2>4, <4>1
      <4>2. CASE j \notin 1 .. n
        <5>1. PICK h \in 1 .. p : j = n + h
          <6>1. j - n \in 1 .. p /\ j = n + (j - n)
            BY <1>3, <4>2
          <6> QED BY <6>1
        <5>2. log[j] = b.log[h]
          BY <1>3, <5>1
        <5> QED BY <1>8, <2>4, <5>1, <5>2
      <4> QED BY <4>1, <4>2
    <3> QED BY <1>6, <1>7, <1>8, <2>4, <3>1
  <2> QED BY <2>1, <2>2, <2>3, <2>4
<1>10. u.mem = v.mem
  BY <1>6, <1>7, <1>9 DEF Memory
<1> QED BY <1>2, <1>4, <1>5, <1>10 DEF log

\* Nothing logged, nothing undone.
LEMMA UndoNothing ==
  ASSUME NEW m \in Memory PROVE Undo([mem |-> m, log |-> << >>], << >>).mem = m
<1>1. << >> \in Seq(Write) /\ Len(<< >>) = 0
  OBVIOUS
<1>2. PICK u : u = Undo([mem |-> m, log |-> << >>], << >>)
  OBVIOUS
<1>3. u.mem \in Memory /\ \A a \in Addrs : u.mem[a] = m[a]
  <2>1. \A a \in Addrs : \A i \in 1 .. 0 : FALSE
    OBVIOUS
  <2>2. PICK e \in Seq(Write) : e = << >> /\ Len(e) = 0
    BY <1>1
  <2>3. /\ u.mem \in Memory
        /\ \A a \in Addrs : a \in Rom \/ (\A i \in 1 .. Len(e) : e[i].loc # a) => u.mem[a] = m[a]
    <3>1. u = Undo([mem |-> m, log |-> << >>], e)
      BY <1>2, <2>2
    <3> HIDE <2>2
    <3> QED BY <3>1, UndoFacts
  <2> QED BY <2>2, <2>3
<1> QED BY <1>2, <1>3 DEF Memory
-----------------------------------------------------------------------------
\* The sequences of writes of an instruction.
LEMMA BoundedIsSeq ==
  ASSUME NEW S, NEW n, NEW ws \in BoundedSeq(S, n) PROVE ws \in Seq(S)
<1>1. PICK m \in 0 .. n : ws \in [1 .. m -> S]
  BY DEF BoundedSeq, SeqOf
<1>2. m \in Nat
  OBVIOUS
<1> QED BY <1>1, <1>2, IsASeq

\* Erasing the element at k moves the later ones down.
LEMMA RemoveAtFacts ==
  ASSUME NEW S, NEW s \in Seq(S), NEW k \in 1 .. Len(s)
  PROVE  /\ RemoveAt(s, k) \in Seq(S) /\ Len(RemoveAt(s, k)) = Len(s) - 1
         /\ \A i \in 1 .. Len(s) - 1 : RemoveAt(s, k)[i] = IF i < k THEN s[i] ELSE s[i + 1]
<1>1. k \in Nat /\ k >= 1 /\ k <= Len(s) /\ Len(s) \in Nat /\ \A i \in 1 .. Len(s) : s[i] \in S
  OBVIOUS
<1> DEFINE a == SubSeq(s, 1, k - 1)
           b == SubSeq(s, k + 1, Len(s))
<1>2. a \in Seq(S) /\ Len(a) = k - 1 /\ \A i \in 1 .. k - 1 : a[i] = s[i]
  <2>1. k - 1 \in Int /\ \A i \in 1 .. k - 1 : s[i] \in S
    BY <1>1
  <2>2. /\ a \in Seq(S)
        /\ Len(a) = IF 1 <= k - 1 THEN k - 1 - 1 + 1 ELSE 0
        /\ \A i \in 1 .. k - 1 - 1 + 1 : a[i] = s[1 + i - 1]
    BY <2>1, SubSeqProperties
  <2> HIDE DEF a
  <2>3. \A i \in 1 .. k - 1 : i \in 1 .. k - 1 - 1 + 1 /\ 1 + i - 1 = i
    BY <1>1
  <2> QED BY <1>1, <2>2, <2>3
<1>3. b \in Seq(S) /\ Len(b) = Len(s) - k /\ \A i \in 1 .. Len(s) - k : b[i] = s[k + i]
  <2>1. k + 1 \in Int /\ Len(s) \in Int /\ \A i \in k + 1 .. Len(s) : s[i] \in S
    BY <1>1
  <2>2. /\ b \in Seq(S)
        /\ Len(b) = IF k + 1 <= Len(s) THEN Len(s) - (k + 1) + 1 ELSE 0
        /\ \A i \in 1 .. Len(s) - (k + 1) + 1 : b[i] = s[(k + 1) + i - 1]
    BY <2>1, SubSeqProperties
  <2> HIDE DEF b
  <2>3. \A i \in 1 .. Len(s) - k : i \in 1 .. Len(s) - (k + 1) + 1 /\ (k + 1) + i - 1 = k + i
    BY <1>1
  <2> QED BY <1>1, <2>2, <2>3
<1>4. RemoveAt(s, k) = a \o b
  BY DEF RemoveAt
<1> HIDE DEF a, b
<1>5. a \o b \in Seq(S) /\ Len(a \o b) = Len(s) - 1
  <2>1. a \o b \in Seq(S) /\ Len(a \o b) = Len(a) + Len(b)
    BY <1>2, <1>3, ConcatProperties
  <2> QED BY <1>1, <1>2, <1>3, <2>1
<1>6. ASSUME NEW i \in 1 .. Len(s) - 1 PROVE (a \o b)[i] = IF i < k THEN s[i] ELSE s[i + 1]
  <2>1. CASE i < k
    <3>1. i \in 1 .. k - 1
      BY <1>1, <2>1
    <3> QED BY <1>1, <1>2, <1>3, <2>1, <3>1
  <2>2. CASE ~(i < k)
    <3>1. i - (k - 1) \in 1 .. Len(s) - k /\ k + (i - (k - 1)) = i + 1
      BY <1>1, <2>2
    <3>2. (a \o b)[i] = b[i - (k - 1)]
      BY <1>1, <1>2, <1>3, <1>5, <2>2, <3>1
    <3> QED BY <1>3, <2>2, <3>1, <3>2
  <2> QED BY <2>1, <2>2
<1> QED BY <1>4, <1>5, <1>6

\* The entries of a type: how many there are after an entry is added or erased.
OfType(s, ty) == {i \in DOMAIN s : s[i].type = ty}

LEMMA OfTypeFinite ==
  ASSUME NEW S, NEW s \in Seq(S), NEW ty
  PROVE  IsFiniteSet(OfType(s, ty)) /\ Cardinality(OfType(s, ty)) \in Nat
<1>1. IsFiniteSet(1 .. Len(s)) /\ OfType(s, ty) \in SUBSET (1 .. Len(s))
  BY FS_Interval DEF OfType
<1> QED BY <1>1, FS_Subset, FS_CardinalityType

LEMMA OfTypeAppend ==
  ASSUME NEW S, NEW s \in Seq(S), NEW x \in S, NEW ty
  PROVE  Cardinality(OfType(Append(s, x), ty)) = Cardinality(OfType(s, ty)) + One(x.type = ty)
<1> DEFINE n == Len(s)
           t == Append(s, x)
           T == OfType(s, ty)
<1>1. /\ n \in Nat /\ DOMAIN s = 1 .. n /\ DOMAIN t = 1 .. n + 1
      /\ t[n + 1] = x /\ \A i \in 1 .. n : t[i] = s[i]
  OBVIOUS
<1>2. IsFiniteSet(T) /\ Cardinality(T) \in Nat
  BY OfTypeFinite
<1> HIDE DEF n, t
<1>3. n + 1 \notin T /\ \A i \in 1 .. n + 1 : i = n + 1 \/ i \in 1 .. n
  BY <1>1 DEF OfType
<1>4. CASE x.type = ty
  <2>1. OfType(t, ty) = T \cup {n + 1}
    BY <1>1, <1>3, <1>4 DEF OfType
  <2> HIDE DEF T
  <2>2. Cardinality(T \cup {n + 1}) = Cardinality(T) + 1
    BY <1>2, <1>3, FS_AddElement
  <2> QED BY <1>4, <2>1, <2>2 DEF One, t, T
<1>5. CASE x.type # ty
  <2>1. OfType(t, ty) = T
    BY <1>1, <1>3, <1>5 DEF OfType
  <2> QED BY <1>2, <1>5, <2>1 DEF One, t
<1> QED BY <1>4, <1>5

LEMMA OfTypeRemove ==
  ASSUME NEW S, NEW s \in Seq(S), NEW k \in 1 .. Len(s), NEW ty
  PROVE  Cardinality(OfType(RemoveAt(s, k), ty)) = Cardinality(OfType(s, ty)) - One(s[k].type = ty)
<1> DEFINE n == Len(s)
           t == RemoveAt(s, k)
           T == OfType(s, ty)
           D == T \ {k}
           U == OfType(t, ty)
           f == [i \in D |-> IF i < k THEN i ELSE i - 1]
<1>1. /\ n \in Nat /\ k \in 1 .. n /\ DOMAIN s = 1 .. n /\ DOMAIN t = 1 .. n - 1
      /\ \A i \in 1 .. n - 1 : t[i] = IF i < k THEN s[i] ELSE s[i + 1]
  <2>1. /\ t \in Seq(S) /\ Len(t) = n - 1
        /\ \A i \in 1 .. n - 1 : t[i] = IF i < k THEN s[i] ELSE s[i + 1]
    BY RemoveAtFacts
  <2> HIDE DEF t
  <2> QED BY <2>1
<1>2. IsFiniteSet(T) /\ Cardinality(T) \in Nat
  BY OfTypeFinite
<1> HIDE DEF n, t
<1>3. \A i : i \in D <=> i \in 1 .. n /\ i # k /\ s[i].type = ty
  BY <1>1 DEF OfType
<1>4. \A i : i \in U <=> i \in 1 .. n - 1 /\ t[i].type = ty
  BY <1>1 DEF OfType
<1> HIDE DEF D, U
<1>5. ASSUME NEW i \in D PROVE f[i] \in U
  <2>1. i \in 1 .. n /\ i # k /\ s[i].type = ty
    BY <1>3
  <2>2. CASE i < k
    <3>1. i \in 1 .. n - 1 /\ t[i] = s[i] /\ f[i] = i
      BY <1>1, <2>1, <2>2
    <3> QED BY <1>4, <2>1, <3>1
  <2>3. CASE ~(i < k)
    <3>1. i - 1 \in 1 .. n - 1 /\ ~(i - 1 < k) /\ (i - 1) + 1 = i /\ f[i] = i - 1
      BY <1>1, <2>1, <2>3
    <3>2. t[i - 1] = s[i]
      BY <1>1, <3>1
    <3> QED BY <1>4, <2>1, <3>1, <3>2
  <2> QED BY <2>2, <2>3
<1>6. ASSUME NEW i \in D, NEW j \in D, f[i] = f[j] PROVE i = j
  BY <1>1, <1>3, <1>6
<1>7. ASSUME NEW j \in U PROVE \E i \in D : f[i] = j
  <2>1. j \in 1 .. n - 1 /\ t[j].type = ty
    BY <1>4
  <2>2. CASE j < k
    <3>1. j \in 1 .. n /\ j # k /\ t[j] = s[j]
      BY <1>1, <2>1, <2>2
    <3>2. j \in D /\ f[j] = j
      BY <1>3, <2>1, <2>2, <3>1
    <3> QED BY <3>2
  <2>3. CASE ~(j < k)
    <3>1. j + 1 \in 1 .. n /\ j + 1 # k /\ ~(j + 1 < k) /\ (j + 1) - 1 = j
      <4>1. j \in Nat /\ n \in Nat /\ k \in Nat /\ j <= n - 1
        BY <1>1, <2>1
      <4> QED BY <4>1, <2>1, <2>3
    <3>3. t[j] = s[j + 1]
      BY <1>1, <2>1, <2>3
    <3>2. j + 1 \in D /\ f[j + 1] = j
      BY <1>3, <2>1, <3>1, <3>3
    <3> QED BY <3>2
  <2> QED BY <2>2, <2>3
<1>8. f \in [D -> U]
  BY <1>5
<1> HIDE DEF f
<1>9. f \in Bijection(D, U)
  BY <1>6, <1>7, <1>8 DEF Bijection, Injection, Surjection, IsInjective
<1>10. ExistsBijection(D, U)
  BY <1>9 DEF ExistsBijection
<1>11. IsFiniteSet(D) /\ Cardinality(D) = IF k \in T THEN Cardinality(T) - 1 ELSE Cardinality(T)
  <2> HIDE DEF T
  <2> QED BY <1>2, FS_RemoveElement DEF D
<1>12. Cardinality(U) = Cardinality(D)
  BY <1>10, <1>11, FS_Bijection
<1>13. k \in T <=> s[k].type = ty
  BY <1>1 DEF OfType
<1> QED BY <1>2, <1>11, <1>12, <1>13 DEF One, U, t
-----------------------------------------------------------------------------
(***************************************************************************)
(* The list: its type, and the invariant itself.                           *)
(***************************************************************************)
Sorted(s) == \A i, j \in DOMAIN s : i < j => s[i].id < s[j].id
Below(s, n) == \A i \in DOMAIN s : s[i].id < n

\* ListConsistent in the shape the steps keep.  An only entry's id is below
\* nextId as well.
CountersAgree == execCount = Cardinality(OfType(bps, "exec")) /\ watchCount = Cardinality(OfType(bps, "value"))

Shape == /\ bps \in Seq(Breakpoint) /\ nextId \in 1 .. MaxBps + 1
         /\ CountersAgree /\ Sorted(bps) /\ Below(bps, nextId)

\* The shape says all ListConsistent does.
LEMMA ShapeConsistent == Shape => ListConsistent
BY DEF Shape, ListConsistent, CountersAgree, OfType, Sorted, Below

\* A step that changes no entry's id and type.
LEMMA SameEntries ==
  ASSUME Shape, bps' \in Seq(Breakpoint), Len(bps') = Len(bps),
         \A i \in 1 .. Len(bps) : bps'[i].id = bps[i].id /\ bps'[i].type = bps[i].type,
         UNCHANGED <<nextId, execCount, watchCount>>
  PROVE  Shape'
<1>1. DOMAIN bps' = 1 .. Len(bps) /\ DOMAIN bps = 1 .. Len(bps)
  BY DEF Shape
<1>2. \A ty : OfType(bps', ty) = OfType(bps, ty)
  BY <1>1 DEF OfType
<1>3. CountersAgree'
  BY <1>2 DEF Shape, CountersAgree
<1>4. Sorted(bps') /\ Below(bps', nextId)
  BY <1>1 DEF Shape, Sorted, Below
<1> QED BY <1>3, <1>4 DEF Shape

\* A check changes hit counts only.
LEMMA HitsOnly ==
  ASSUME NEW b \in Breakpoint, NEW n \in Nat
  PROVE  WithHits(b, n) \in Breakpoint /\ WithHits(b, n).id = b.id /\ WithHits(b, n).type = b.type
<1>1. b.hits \in 0 .. MaxHits /\ MaxHits \in Nat
  BY ListAssumption DEF Breakpoint
<1>2. PICK h \in 0 .. MaxHits : h = IF b.hits + n < MaxHits THEN b.hits + n ELSE MaxHits
  BY <1>1
<1>3. WithHits(b, n) = [b EXCEPT !.hits = h]
  BY <1>2 DEF WithHits
<1> QED BY <1>3 DEF Breakpoint

LEMMA CountedFacts ==
  ASSUME NEW l \in Seq(Breakpoint), NEW type, NEW addr, NEW a
  PROVE  /\ Counted(l, type, addr, a) \in Seq(Breakpoint) /\ Len(Counted(l, type, addr, a)) = Len(l)
         /\ \A i \in 1 .. Len(l) : /\ Counted(l, type, addr, a)[i].id = l[i].id
                                   /\ Counted(l, type, addr, a)[i].type = l[i].type
<1> DEFINE N(i) == IF IsHit(l, i, type, addr, a) THEN 1 ELSE 0
           c == [i \in 1 .. Len(l) |-> WithHits(l[i], N(i))]
<1>1. Counted(l, type, addr, a) = c
  BY DEF Counted
<1>2. ASSUME NEW i \in 1 .. Len(l)
      PROVE  WithHits(l[i], N(i)) \in Breakpoint /\ WithHits(l[i], N(i)).id = l[i].id
             /\ WithHits(l[i], N(i)).type = l[i].type
  <2>1. l[i] \in Breakpoint /\ N(i) \in Nat
    OBVIOUS
  <2> HIDE DEF N
  <2> QED BY <2>1, HitsOnly
<1> HIDE DEF N
<1>3. c \in [1 .. Len(l) -> Breakpoint] /\ Len(l) \in Nat
  BY <1>2
<1>4. c \in Seq(Breakpoint) /\ Len(c) = Len(l)
  <2> HIDE DEF c
  <2> QED BY <1>3, LenProperties, IsASeq
<1> QED BY <1>1, <1>2, <1>4

LEMMA CountedWritesFacts ==
  ASSUME NEW l \in Seq(Breakpoint), NEW ws \in Seq(Write), NEW a
  PROVE  /\ CountedWrites(l, ws, a) \in Seq(Breakpoint) /\ Len(CountedWrites(l, ws, a)) = Len(l)
         /\ \A i \in 1 .. Len(l) : /\ CountedWrites(l, ws, a)[i].id = l[i].id
                                   /\ CountedWrites(l, ws, a)[i].type = l[i].type
<1> DEFINE K(i) == {k \in DOMAIN ws : IsHit(l, i, "write", ws[k].loc, a)}
           N(i) == Cardinality(K(i))
           c == [i \in 1 .. Len(l) |-> WithHits(l[i], N(i))]
<1>1. CountedWrites(l, ws, a) = c
  BY DEF CountedWrites
<1>2. ASSUME NEW i \in 1 .. Len(l)
      PROVE  WithHits(l[i], N(i)) \in Breakpoint /\ WithHits(l[i], N(i)).id = l[i].id
             /\ WithHits(l[i], N(i)).type = l[i].type
  <2>1. IsFiniteSet(1 .. Len(ws)) /\ K(i) \in SUBSET (1 .. Len(ws))
    BY FS_Interval
  <2>2. l[i] \in Breakpoint
    OBVIOUS
  <2> HIDE DEF K
  <2>3. N(i) \in Nat
    BY <2>1, FS_Subset, FS_CardinalityType
  <2> HIDE DEF N
  <2> QED BY <2>2, <2>3, HitsOnly
<1> HIDE DEF N
<1>3. c \in [1 .. Len(l) -> Breakpoint] /\ Len(l) \in Nat
  BY <1>2
<1>4. c \in Seq(Breakpoint) /\ Len(c) = Len(l)
  <2> HIDE DEF c
  <2> QED BY <1>3, LenProperties, IsASeq
<1> QED BY <1>1, <1>2, <1>4

\* An edit of one field of one entry.
LEMMA EditEntry ==
  ASSUME Shape, NEW i \in DOMAIN bps, NEW x \in Breakpoint, x.id = bps[i].id, x.type = bps[i].type,
         bps' = [bps EXCEPT ![i] = x], UNCHANGED <<nextId, execCount, watchCount>>
  PROVE  Shape'
<1>1. bps \in Seq(Breakpoint) /\ i \in 1 .. Len(bps)
  BY DEF Shape
<1>2. /\ bps' \in Seq(Breakpoint) /\ Len(bps') = Len(bps)
      /\ \A j \in 1 .. Len(bps) : bps'[j] = IF j = i THEN x ELSE bps[j]
  BY <1>1, ExceptSeq
<1> QED BY <1>2, SameEntries

LEMMA ShapeAdd ==
  ASSUME Shape, NEW addr \in Addrs, NEW type \in Types, Add(addr, type) PROVE Shape'
<1> DEFINE x == [id |-> nextId, addr |-> addr, type |-> type, cond |-> NoCond,
                 hits |-> 0, limit |-> 0, enabled |-> TRUE]
           n == Len(bps)
<1>0. MaxBps \in Nat /\ MaxHits \in Nat /\ nextId \in 1 .. MaxBps
  BY ListAssumption DEF Shape, Add
<1>1. x \in Breakpoint /\ x.id = nextId /\ x.type = type
  BY <1>0, ListAssumption DEF Breakpoint
<1>2. /\ bps' = Append(bps, x) /\ nextId' = nextId + 1
      /\ execCount' = execCount + One(type = "exec") /\ watchCount' = watchCount + One(type = "value")
  BY DEF Add
<1> HIDE DEF x
<1>3. bps \in Seq(Breakpoint) /\ n \in Nat
  BY DEF Shape
<1>4. CountersAgree'
  BY <1>1, <1>2, <1>3, OfTypeAppend DEF Shape, CountersAgree
<1>5. /\ bps' \in Seq(Breakpoint) /\ DOMAIN bps' = 1 .. n + 1 /\ DOMAIN bps = 1 .. n
      /\ bps'[n + 1] = x /\ \A i \in 1 .. n : bps'[i] = bps[i]
  BY <1>1, <1>2, <1>3
<1>6. \A i \in 1 .. n : bps[i] \in Breakpoint /\ bps[i].id \in Int /\ bps[i].id < nextId
  <2>1. \A i \in 1 .. n : bps[i] \in Breakpoint
    BY <1>3
  <2>2. \A b \in Breakpoint : b.id \in Int
    BY <1>0 DEF Breakpoint
  <2> QED BY <1>5, <2>1, <2>2 DEF Shape, Below
<1> HIDE DEF n
<1>7. \A i \in 1 .. n + 1 : i = n + 1 \/ i \in 1 .. n
  BY <1>3 DEF n
<1>8. Sorted(bps')
  <2> SUFFICES ASSUME NEW i \in 1 .. n + 1, NEW j \in 1 .. n + 1, i < j PROVE bps'[i].id < bps'[j].id
    BY <1>5 DEF Sorted
  <2>1. i \in 1 .. n
    BY <1>3 DEF n
  <2>2. CASE j = n + 1
    BY <1>1, <1>5, <1>6, <2>1, <2>2
  <2>3. CASE j \in 1 .. n
    BY <1>5, <2>1, <2>3 DEF Shape, Sorted
  <2> QED BY <1>7, <2>2, <2>3
<1>9. Below(bps', nextId')
  <2> SUFFICES ASSUME NEW i \in 1 .. n + 1 PROVE bps'[i].id < nextId + 1
    BY <1>2, <1>5 DEF Below
  <2>1. CASE i = n + 1
    BY <1>0, <1>1, <1>5, <2>1
  <2>2. CASE i \in 1 .. n
    BY <1>0, <1>5, <1>6, <2>2
  <2> QED BY <1>7, <2>1, <2>2
<1> QED BY <1>0, <1>2, <1>4, <1>5, <1>8, <1>9 DEF Shape

LEMMA ShapeRemove ==
  ASSUME Shape, NEW k \in DOMAIN bps, RemoveIndex(k) PROVE Shape'
<1> DEFINE n == Len(bps)
<1>1. bps \in Seq(Breakpoint) /\ n \in Nat /\ k \in 1 .. n /\ DOMAIN bps = 1 .. n
  BY DEF Shape
<1>2. /\ bps' = RemoveAt(bps, k) /\ nextId' = nextId
      /\ execCount' = execCount - One(bps[k].type = "exec")
      /\ watchCount' = watchCount - One(bps[k].type = "value")
  BY DEF RemoveIndex
<1>3. CountersAgree'
  BY <1>1, <1>2, OfTypeRemove DEF Shape, CountersAgree
<1>4. /\ bps' \in Seq(Breakpoint) /\ Len(bps') = n - 1
      /\ \A i \in 1 .. n - 1 : bps'[i] = IF i < k THEN bps[i] ELSE bps[i + 1]
  BY <1>1, <1>2, RemoveAtFacts
<1>5. DOMAIN bps' = 1 .. n - 1
  BY <1>4
<1> HIDE DEF n
<1>6. \A i \in 1 .. n - 1 : i \in 1 .. n /\ i + 1 \in 1 .. n
  BY <1>1
<1>7. Sorted(bps')
  <2> SUFFICES ASSUME NEW i \in 1 .. n - 1, NEW j \in 1 .. n - 1, i < j PROVE bps'[i].id < bps'[j].id
    BY <1>5 DEF Sorted
  <2>1. PICK p \in 1 .. n : bps'[i] = bps[p] /\ p = IF i < k THEN i ELSE i + 1
    BY <1>4, <1>6
  <2>2. PICK q \in 1 .. n : bps'[j] = bps[q] /\ q = IF j < k THEN j ELSE j + 1
    BY <1>4, <1>6
  <2>3. p < q
    BY <1>1, <2>1, <2>2
  <2> QED BY <1>1, <2>1, <2>2, <2>3 DEF Shape, Sorted
<1>8. Below(bps', nextId')
  BY <1>1, <1>2, <1>4, <1>5, <1>6 DEF Shape, Below
<1> QED BY <1>2, <1>3, <1>4, <1>7, <1>8 DEF Shape

LEMMA ShapeEdit == ASSUME Shape, Edit PROVE Shape'
<1>0. bps \in Seq(Breakpoint) /\ \A i \in DOMAIN bps : bps[i] \in Breakpoint
  BY DEF Shape
<1>1. ASSUME NEW addr \in Addrs, NEW type \in Types, Add(addr, type) PROVE Shape'
  BY <1>1, ShapeAdd
<1>2. ASSUME NEW addr \in Addrs, RemoveByAddress(addr) PROVE Shape'
  BY <1>2, ShapeRemove DEF RemoveByAddress
<1>3. ASSUME NEW id \in 1 .. MaxBps, RemoveById(id) PROVE Shape'
  BY <1>3, ShapeRemove DEF RemoveById
<1>4. ASSUME NEW id \in 1 .. MaxBps, NEW on \in BOOLEAN, SetEnabled(id, on) PROVE Shape'
  <2>1. PICK i \in DOMAIN bps : /\ bps' = [bps EXCEPT ![i].enabled = on]
                                /\ UNCHANGED <<nextId, execCount, watchCount>>
    BY <1>4 DEF SetEnabled
  <2>2. ASSUME NEW b \in Breakpoint
        PROVE  \E x \in Breakpoint : x = [b EXCEPT !.enabled = on] /\ x.id = b.id /\ x.type = b.type
    <3>1. /\ [b EXCEPT !.enabled = on] \in Breakpoint /\ [b EXCEPT !.enabled = on].id = b.id
          /\ [b EXCEPT !.enabled = on].type = b.type
      BY DEF Breakpoint
    <3> QED BY <3>1
  <2>3. PICK x \in Breakpoint : x = [bps[i] EXCEPT !.enabled = on] /\ x.id = bps[i].id /\ x.type = bps[i].type
    BY <1>0, <2>2
  <2>4. bps' = [bps EXCEPT ![i] = x]
    BY <2>1, <2>3
  <2> QED BY <2>1, <2>3, <2>4, EditEntry
<1>5. ASSUME NEW id \in 1 .. MaxBps, NEW c \in Conds \cup {NoCond}, SetCondition(id, c) PROVE Shape'
  <2>1. PICK i \in DOMAIN bps : /\ bps' = [bps EXCEPT ![i].cond = c]
                                /\ UNCHANGED <<nextId, execCount, watchCount>>
    BY <1>5 DEF SetCondition
  <2>2. ASSUME NEW b \in Breakpoint
        PROVE  \E x \in Breakpoint : x = [b EXCEPT !.cond = c] /\ x.id = b.id /\ x.type = b.type
    <3>1. /\ [b EXCEPT !.cond = c] \in Breakpoint /\ [b EXCEPT !.cond = c].id = b.id
          /\ [b EXCEPT !.cond = c].type = b.type
      BY DEF Breakpoint
    <3> QED BY <3>1
  <2>3. PICK x \in Breakpoint : x = [bps[i] EXCEPT !.cond = c] /\ x.id = bps[i].id /\ x.type = bps[i].type
    BY <1>0, <2>2
  <2>4. bps' = [bps EXCEPT ![i] = x]
    BY <2>1, <2>3
  <2> QED BY <2>1, <2>3, <2>4, EditEntry
<1>6. ASSUME NEW id \in 1 .. MaxBps, NEW n \in Limits, SetHitCountLimit(id, n) PROVE Shape'
  <2>1. PICK i \in DOMAIN bps : /\ bps' = [bps EXCEPT ![i].limit = n]
                                /\ UNCHANGED <<nextId, execCount, watchCount>>
    BY <1>6 DEF SetHitCountLimit
  <2>2. ASSUME NEW b \in Breakpoint
        PROVE  \E x \in Breakpoint : x = [b EXCEPT !.limit = n] /\ x.id = b.id /\ x.type = b.type
    <3>1. /\ [b EXCEPT !.limit = n] \in Breakpoint /\ [b EXCEPT !.limit = n].id = b.id
          /\ [b EXCEPT !.limit = n].type = b.type
      BY DEF Breakpoint
    <3> QED BY <3>1
  <2>3. PICK x \in Breakpoint : x = [bps[i] EXCEPT !.limit = n] /\ x.id = bps[i].id /\ x.type = bps[i].type
    BY <1>0, <2>2
  <2>4. bps' = [bps EXCEPT ![i] = x]
    BY <2>1, <2>3
  <2> QED BY <2>1, <2>3, <2>4, EditEntry
<1>7. CASE ClearHitCounts
  <2>1. /\ bps' = [i \in 1 .. Len(bps) |-> [bps[i] EXCEPT !.hits = 0]] /\ Len(bps) \in Nat
        /\ UNCHANGED <<nextId, execCount, watchCount>>
    BY <1>0, <1>7 DEF ClearHitCounts
  <2>2. ASSUME NEW b \in Breakpoint
        PROVE  [b EXCEPT !.hits = 0] \in Breakpoint /\ [b EXCEPT !.hits = 0].id = b.id
               /\ [b EXCEPT !.hits = 0].type = b.type
    BY ListAssumption DEF Breakpoint
  <2>3. bps' \in [1 .. Len(bps) -> Breakpoint]
    BY <1>0, <2>1, <2>2
  <2>4. bps' \in Seq(Breakpoint) /\ Len(bps') = Len(bps)
    BY <2>1, <2>3, LenProperties, IsASeq
  <2>5. \A i \in 1 .. Len(bps) : bps'[i].id = bps[i].id /\ bps'[i].type = bps[i].type
    <3> SUFFICES ASSUME NEW i \in 1 .. Len(bps) PROVE bps'[i].id = bps[i].id /\ bps'[i].type = bps[i].type
      OBVIOUS
    <3>1. bps[i] \in Breakpoint /\ bps'[i] = [bps[i] EXCEPT !.hits = 0]
      BY <1>0, <2>1
    <3> QED BY <2>2, <3>1
  <2> QED BY <2>1, <2>4, <2>5, SameEntries
<1> QED BY <1>1, <1>2, <1>3, <1>4, <1>5, <1>6, <1>7 DEF Edit
-----------------------------------------------------------------------------
(***************************************************************************)
(* The trace: its type, and what undoing its newest entry gives.           *)
(***************************************************************************)
TraceEntry == [pc : Addrs, acc : Accs, writes : Seq(Write), was : Memory]
Snapshot == [pc : Addrs, acc : Accs, mem : Memory]

\* Undoing the newest entry of trace tr in memory m gives what its instruction found.
Undoes(m, tr) ==
    tr # << >> /\ Undo([mem |-> m, log |-> << >>], Last(tr).writes).mem = Last(tr).was

\* Pushing an entry, dropping the oldest one of a full buffer.
LEMMA PushFacts ==
  ASSUME NEW tr \in Seq(TraceEntry), Len(tr) <= Capacity, NEW e \in TraceEntry
  PROVE  /\ PushEntry(tr, e) \in Seq(TraceEntry) /\ Len(PushEntry(tr, e)) <= Capacity
         /\ PushEntry(tr, e) # << >> /\ Last(PushEntry(tr, e)) = e
<1> DEFINE s == IF Len(tr) = Capacity THEN Tail(tr) ELSE tr
<1>0. Capacity \in Nat /\ Capacity >= 1 /\ Len(tr) \in Nat
  BY DebugAssumption
<1>1. s \in Seq(TraceEntry) /\ Len(s) \in Nat /\ Len(s) + 1 <= Capacity
  <2>1. CASE Len(tr) = Capacity
    <3>1. tr # << >>
      BY <1>0, <2>1
    <3>2. Tail(tr) \in Seq(TraceEntry) /\ Len(Tail(tr)) = Len(tr) - 1
      BY <3>1
    <3> QED BY <1>0, <2>1, <3>2
  <2>2. CASE Len(tr) # Capacity
    BY <1>0, <2>2
  <2> QED BY <2>1, <2>2
<1>2. PushEntry(tr, e) = Append(s, e)
  BY DEF PushEntry
<1> HIDE DEF s
<1>3. /\ Append(s, e) \in Seq(TraceEntry) /\ Len(Append(s, e)) = Len(s) + 1
      /\ Append(s, e)[Len(s) + 1] = e
  BY <1>1
<1>4. Append(s, e) # << >>
  BY <1>1, <1>3
<1> QED BY <1>1, <1>2, <1>3, <1>4 DEF Last

\* Recording writes: only the newest entry's writes change.
LEMMA RecordFacts ==
  ASSUME NEW tr \in Seq(TraceEntry), NEW g \in Seq(Write)
  PROVE  /\ Record(tr, g) \in Seq(TraceEntry) /\ Len(Record(tr, g)) = Len(tr)
         /\ tr # << >> => /\ Record(tr, g) # << >>
                          /\ Last(tr) \in TraceEntry /\ Last(tr).writes \in Seq(Write)
                          /\ Last(Record(tr, g)).writes = Last(tr).writes \o g
                          /\ Last(Record(tr, g)).was = Last(tr).was
<1>1. CASE tr = << >>
  BY <1>1 DEF Record
<1>2. CASE tr # << >>
  <2> DEFINE n == Len(tr)
             e == [tr[n] EXCEPT !.writes = tr[n].writes \o g]
  <2>1. n \in 1 .. Len(tr) /\ tr[n] \in TraceEntry
    BY <1>2
  <2>2. tr[n].writes \in Seq(Write)
    BY <2>1 DEF TraceEntry
  <2>3. tr[n].writes \o g \in Seq(Write)
    BY <2>2, ConcatProperties
  <2>4. e \in TraceEntry /\ e.writes = tr[n].writes \o g /\ e.was = tr[n].was
    BY <2>1, <2>3 DEF TraceEntry
  <2>5. Record(tr, g) = [tr EXCEPT ![n] = e]
    BY <1>2 DEF Record
  <2> HIDE DEF e
  <2>6. /\ [tr EXCEPT ![n] = e] \in Seq(TraceEntry) /\ Len([tr EXCEPT ![n] = e]) = n
        /\ [tr EXCEPT ![n] = e][n] = e
    BY <2>1, <2>4, ExceptSeq
  <2>7. Record(tr, g) # << >>
    BY <2>1, <2>5, <2>6
  <2> QED BY <1>2, <2>1, <2>2, <2>4, <2>5, <2>6, <2>7 DEF Last
<1> QED BY <1>1, <1>2

\* Popping the newest entry.
LEMMA FrontFacts ==
  ASSUME NEW S, NEW tr \in Seq(S), tr # << >>
  PROVE  Front(tr) \in Seq(S) /\ Len(Front(tr)) = Len(tr) - 1 /\ Last(tr) \in S
<1>0. Len(tr) \in Nat /\ Len(tr) >= 1
  OBVIOUS
<1> DEFINE f == SubSeq(tr, 1, Len(tr) - 1)
<1>1. Len(tr) - 1 \in Int /\ \A i \in 1 .. Len(tr) - 1 : tr[i] \in S
  BY <1>0
<1>2. f \in Seq(S) /\ Len(f) = IF 1 <= Len(tr) - 1 THEN Len(tr) - 1 - 1 + 1 ELSE 0
  BY <1>1, SubSeqProperties
<1>3. Front(tr) = f
  BY DEF Front
<1> HIDE DEF f
<1>4. (IF 1 <= Len(tr) - 1 THEN Len(tr) - 1 - 1 + 1 ELSE 0) = Len(tr) - 1
  <2>1. PICK n \in Nat : n = Len(tr) /\ n >= 1
    BY <1>0
  <2>2. (IF 1 <= n - 1 THEN n - 1 - 1 + 1 ELSE 0) = n - 1
    BY <2>1
  <2> QED BY <2>1, <2>2
<1>5. Last(tr) \in S
  BY <1>0 DEF Last
<1> QED BY <1>2, <1>3, <1>4, <1>5, Zenon

\* Bus writes, with what the observer records of them.
LEMMA WritesFacts ==
  ASSUME NEW m \in Memory, NEW tr \in Seq(TraceEntry), NEW ws \in Seq(Write),
         NEW b, b = WriteAll([mem |-> m, log |-> << >>], ws)
  PROVE  /\ b.mem \in Memory
         /\ Record(tr, b.log) \in Seq(TraceEntry) /\ Len(Record(tr, b.log)) = Len(tr)
         /\ Undoes(m, tr) => Undoes(b.mem, Record(tr, b.log))
<1>1. << >> \in Seq(Write)
  OBVIOUS
<1>2. b.mem \in Memory /\ b.log \in Seq(Write)
  BY <1>1, UndoWrites
<1>3. PICK g \in Seq(Write) : g = b.log
  BY <1>2
<1>4. ASSUME Undoes(m, tr) PROVE Undoes(b.mem, Record(tr, g))
  <2>1. /\ Record(tr, g) # << >> /\ Last(tr).writes \in Seq(Write)
        /\ Last(Record(tr, g)).writes = Last(tr).writes \o g
        /\ Last(Record(tr, g)).was = Last(tr).was
    BY <1>4, RecordFacts DEF Undoes
  <2>2. PICK old \in Seq(Write) : old = Last(tr).writes
    BY <2>1
  <2>3. Undo([mem |-> b.mem, log |-> << >>], old \o b.log).mem = Undo([mem |-> m, log |-> << >>], old).mem
    BY UndoWrites
  <2> QED BY <1>3, <1>4, <2>1, <2>2, <2>3 DEF Undoes
<1> QED BY <1>2, <1>3, <1>4, RecordFacts

DbgInv ==
    /\ pc \in Addrs /\ acc \in Accs /\ mem \in Memory
    /\ trace \in Seq(TraceEntry) /\ Len(trace) <= Capacity
    /\ snaps \in Seq(Snapshot)
    /\ intact => Undoes(mem, trace)

\* DoWrites on a trace whose newest entry undoes its instruction.
LEMMA DoWritesFacts ==
  ASSUME NEW ws \in Seq(Write), NEW tr \in Seq(TraceEntry), Len(tr) <= Capacity, NEW l, NEW p,
         mem \in Memory, DoWrites(ws, tr, l, p)
  PROVE  /\ mem' \in Memory /\ trace' \in Seq(TraceEntry) /\ Len(trace') <= Capacity
         /\ Undoes(mem, tr) => Undoes(mem', trace')
<1>1. PICK b : b = WriteAll([mem |-> mem, log |-> << >>], ws)
  OBVIOUS
<1>2. mem' = b.mem /\ trace' = Record(tr, b.log)
  BY <1>1 DEF DoWrites
<1>3. PICK m \in Memory : m = mem
  OBVIOUS
<1>4. /\ b.mem \in Memory
      /\ Record(tr, b.log) \in Seq(TraceEntry) /\ Len(Record(tr, b.log)) = Len(tr)
      /\ Undoes(m, tr) => Undoes(b.mem, Record(tr, b.log))
  <2>1. b = WriteAll([mem |-> m, log |-> << >>], ws)
    BY <1>1, <1>3
  <2> QED BY <2>1, WritesFacts
<1> QED BY <1>2, <1>3, <1>4

\* A new entry undoes nothing yet.
LEMMA NewEntryUndoes ==
  ASSUME DbgInv
  PROVE  /\ PushEntry(trace, Entry) \in Seq(TraceEntry) /\ Len(PushEntry(trace, Entry)) <= Capacity
         /\ Undoes(mem, PushEntry(trace, Entry))
<1>1. << >> \in Seq(Write)
  OBVIOUS
<1>2. Entry \in TraceEntry /\ Entry.writes = << >> /\ Entry.was = mem
  BY <1>1 DEF DbgInv, Entry, TraceEntry
<1>3. /\ PushEntry(trace, Entry) \in Seq(TraceEntry) /\ Len(PushEntry(trace, Entry)) <= Capacity
      /\ PushEntry(trace, Entry) # << >> /\ Last(PushEntry(trace, Entry)) = Entry
  BY <1>2, PushFacts DEF DbgInv
<1>4. Undo([mem |-> mem, log |-> << >>], << >>).mem = mem
  BY UndoNothing DEF DbgInv
<1> QED BY <1>2, <1>3, <1>4 DEF Undoes

LEMMA DbgStep == DbgInv /\ [Next]_vars => DbgInv'
<1> SUFFICES ASSUME DbgInv, [Next]_vars PROVE DbgInv'
  OBVIOUS
<1>1. CASE EditBreakpoints
  BY <1>1 DEF EditBreakpoints, machine, history, DbgInv
<1>2. ASSUME NEW kind \in Kinds, NEW veto \in BOOLEAN, StepStopped(kind, veto) PROVE DbgInv'
  BY <1>2, NewEntryUndoes DEF StepStopped, machine, DbgInv
<1>3. ASSUME NEW kind \in Kinds, NEW veto \in BOOLEAN, NEW r \in Addrs \cup {NoAddr},
             NEW ws \in BoundedSeq(Write, MaxWrites), NEW a \in Accs, NEW target \in Addrs,
             StepRuns(kind, veto, r, ws, a, target)
      PROVE  DbgInv'
  <2>1. PICK l, p : DoWrites(ws, PushEntry(trace, Entry), l, p)
    BY <1>3 DEF StepRuns
  <2>2. mem \in Memory /\ ws \in Seq(Write)
    BY BoundedIsSeq DEF DbgInv
  <2>3. /\ mem' \in Memory /\ trace' \in Seq(TraceEntry) /\ Len(trace') <= Capacity /\ Undoes(mem', trace')
    BY <2>1, <2>2, NewEntryUndoes, DoWritesFacts
  <2>4. pc' \in Addrs /\ acc' \in Accs /\ snaps' = snaps
    BY <1>3 DEF StepRuns
  <2> QED BY <2>3, <2>4 DEF DbgInv
<1>4. ASSUME NEW r \in Addrs, NEW ws \in BoundedSeq(Write, MaxWrites), NEW target \in Addrs,
             TakeInterrupt(r, ws, target)
      PROVE  DbgInv'
  <2>1. PICK l, p : DoWrites(ws, trace, l, p)
    BY <1>4 DEF TakeInterrupt
  <2>2. mem \in Memory /\ ws \in Seq(Write) /\ trace \in Seq(TraceEntry) /\ Len(trace) <= Capacity
    BY BoundedIsSeq DEF DbgInv
  <2>3. /\ mem' \in Memory /\ trace' \in Seq(TraceEntry) /\ Len(trace') <= Capacity
        /\ Undoes(mem, trace) => Undoes(mem', trace')
    BY <2>1, <2>2, DoWritesFacts
  <2>4. pc' \in Addrs /\ acc' = acc /\ snaps' = snaps /\ intact' = intact
    BY <1>4 DEF TakeInterrupt
  <2> QED BY <2>3, <2>4 DEF DbgInv
<1>5. ASSUME NEW w \in Write, Poke(w) PROVE DbgInv'
  <2>1. DoWrites(<<w>>, trace, bps, paused) /\ <<w>> \in Seq(Write)
    BY <1>5 DEF Poke
  <2>2. mem \in Memory /\ trace \in Seq(TraceEntry) /\ Len(trace) <= Capacity
    BY DEF DbgInv
  <2>3. /\ mem' \in Memory /\ trace' \in Seq(TraceEntry) /\ Len(trace') <= Capacity
        /\ Undoes(mem, trace) => Undoes(mem', trace')
    BY <2>1, <2>2, DoWritesFacts
  <2>4. pc' = pc /\ acc' = acc /\ snaps' = snaps /\ intact' = intact
    BY <1>5 DEF Poke, history
  <2> QED BY <2>3, <2>4 DEF DbgInv
<1>6. ASSUME NEW p \in Addrs, NEW a \in Accs, SetRegisters(p, a) PROVE DbgInv'
  BY <1>6 DEF SetRegisters, DbgInv
<1>7. CASE Resume
  BY <1>7 DEF Resume, machine, DbgInv
<1>8. CASE ReverseStep
  <2>1. PICK b : b = Undo([mem |-> mem, log |-> << >>], Last(trace).writes)
    OBVIOUS
  <2>2. /\ trace # << >> /\ mem' = b.mem /\ trace' = Record(Front(trace), b.log)
        /\ pc' = Last(trace).pc /\ acc' = Last(trace).acc /\ intact' = FALSE /\ snaps' = snaps
    BY <1>8, <2>1 DEF ReverseStep
  <2>3. /\ Front(trace) \in Seq(TraceEntry) /\ Len(Front(trace)) <= Capacity
        /\ Last(trace) \in TraceEntry
    <3>1. /\ Front(trace) \in Seq(TraceEntry) /\ Len(Front(trace)) = Len(trace) - 1
          /\ Last(trace) \in TraceEntry /\ Len(trace) \in Nat
      BY <2>2, FrontFacts DEF DbgInv
    <3> QED BY <3>1, DebugAssumption DEF DbgInv
  <2>4. Last(trace).pc \in Addrs /\ Last(trace).acc \in Accs /\ Last(trace).writes \in Seq(Write)
    BY <2>3 DEF TraceEntry
  <2>5. b.mem \in Memory /\ b.log \in Seq(Write)
    <3>1. PICK m \in Memory, g \in Seq(Write) : m = mem /\ g = Last(trace).writes
      BY <2>4 DEF DbgInv
    <3>2. b = Undo([mem |-> m, log |-> << >>], g)
      BY <2>1, <3>1
    <3> QED BY <3>2, UndoFacts
  <2>6. trace' \in Seq(TraceEntry) /\ Len(trace') <= Capacity
    BY <2>2, <2>3, <2>5, RecordFacts
  <2> QED BY <2>2, <2>4, <2>5, <2>6 DEF DbgInv
<1>9. CASE ClearTrace
  <2>1. << >> \in Seq(TraceEntry) /\ Len(<< >>) <= Capacity
    BY DebugAssumption
  <2> QED BY <1>9, <2>1 DEF ClearTrace, machine, DbgInv
<1>10. CASE SaveSnapshot
  <2>1. [pc |-> pc, acc |-> acc, mem |-> mem] \in Snapshot
    BY DEF DbgInv, Snapshot
  <2>2. snaps' \in Seq(Snapshot)
    BY <1>10, <2>1 DEF SaveSnapshot, DbgInv
  <2> QED BY <1>10, <2>2 DEF SaveSnapshot, machine, history, DbgInv
<1>11. CASE ClearSnapshots
  BY <1>11 DEF ClearSnapshots, machine, history, DbgInv
<1>12. ASSUME NEW on \in BOOLEAN, SetPauseOnBrk(on) PROVE DbgInv'
  BY <1>12 DEF SetPauseOnBrk, machine, history, DbgInv
<1>13. ASSUME NEW i \in 1 .. MaxSnaps, RestoreSnapshot(i) PROVE DbgInv'
  <2>1. snaps[i] \in Snapshot
    BY <1>13 DEF RestoreSnapshot, DbgInv
  <2>2. snaps[i].pc \in Addrs /\ snaps[i].acc \in Accs /\ snaps[i].mem \in Memory
    BY <2>1 DEF Snapshot
  <2> QED BY <1>13, <2>2 DEF RestoreSnapshot, DbgInv
<1>14. ASSUME NEW i \in 1 .. MaxSnaps, DeleteSnapshot(i) PROVE DbgInv'
  <2>1. i \in 1 .. Len(snaps) /\ snaps \in Seq(Snapshot) /\ snaps' = RemoveAt(snaps, i)
    BY <1>14 DEF DeleteSnapshot, DbgInv
  <2>2. snaps' \in Seq(Snapshot)
    BY <2>1, RemoveAtFacts
  <2> QED BY <1>14, <2>2 DEF DeleteSnapshot, machine, history, DbgInv
<1>15. CASE UNCHANGED vars
  BY <1>15 DEF vars, machine, history, DbgInv
<1> QED BY <1>1, <1>2, <1>3, <1>4, <1>5, <1>6, <1>7, <1>8, <1>9, <1>10, <1>11, <1>12,
           <1>13, <1>14, <1>15 DEF Next
(***************************************************************************)
(* The inductive invariant behind both properties: once a breakpoint has   *)
(* been passed the skip address is used up, and a CPU that has not moved   *)
(* since it was resumed at its breakpoint is standing on the skip address. *)
(***************************************************************************)
SkipInv ==
    /\ skips = 0 \/ (skips = 1 /\ resumeSkip = NoAddr)
    /\ armed => pc = resumeSkip

LEMMA SkipStep == DbgInv /\ SkipInv /\ [Next]_vars => SkipInv'
<1> SUFFICES ASSUME DbgInv, SkipInv, [Next]_vars PROVE SkipInv'
  OBVIOUS
<1> USE DEF SkipInv
<1>1. CASE EditBreakpoints
  BY <1>1 DEF EditBreakpoints, machine, control, history
<1>2. ASSUME NEW kind \in Kinds, NEW veto \in BOOLEAN, StepStopped(kind, veto) PROVE SkipInv'
  BY <1>2 DEF StepStopped
<1>3. ASSUME NEW kind \in Kinds, NEW veto \in BOOLEAN, NEW r \in Addrs \cup {NoAddr},
             NEW ws \in BoundedSeq(Write, MaxWrites), NEW a \in Accs, NEW target \in Addrs,
             StepRuns(kind, veto, r, ws, a, target)
      PROVE  SkipInv'
  <2>0. /\ ~Stops(kind, veto) /\ resumeSkip' = SkipAfterStep /\ armed' = FALSE
        /\ skips' = skips + One(Hit(bps, "exec", pc, acc))
    BY <1>3 DEF StepRuns
  <2>1. CASE Skipping
    <3>1. skips = 0
      BY <2>1, DebugAssumption DEF Skipping, DbgInv
    <3> QED BY <2>0, <2>1, <3>1 DEF SkipAfterStep, One
  <2>2. CASE ~Skipping
    <3>1. ~Hit(bps, "exec", pc, acc)
      BY <2>0, <2>2 DEF Stops
    <3> QED BY <2>0, <2>2, <3>1 DEF SkipAfterStep, One
  <2> QED BY <2>1, <2>2
<1>4. ASSUME NEW r \in Addrs, NEW ws \in BoundedSeq(Write, MaxWrites), NEW target \in Addrs,
             TakeInterrupt(r, ws, target)
      PROVE  SkipInv'
  BY <1>4 DEF TakeInterrupt
<1>5. ASSUME NEW w \in Write, Poke(w) PROVE SkipInv'
  BY <1>5 DEF Poke, history
<1>6. ASSUME NEW p \in Addrs, NEW a \in Accs, SetRegisters(p, a) PROVE SkipInv'
  BY <1>6 DEF SetRegisters, control
<1>7. CASE Resume
  BY <1>7 DEF Resume, machine
<1>8. CASE ReverseStep
  BY <1>8 DEF ReverseStep
<1>9. CASE ClearTrace
  BY <1>9 DEF ClearTrace, machine, control
<1>10. CASE SaveSnapshot
  BY <1>10 DEF SaveSnapshot, machine, control, history
<1>11. CASE ClearSnapshots
  BY <1>11 DEF ClearSnapshots, machine, control, history
<1>12. ASSUME NEW on \in BOOLEAN, SetPauseOnBrk(on) PROVE SkipInv'
  BY <1>12 DEF SetPauseOnBrk, machine, history
<1>13. ASSUME NEW i \in 1 .. MaxSnaps, RestoreSnapshot(i) PROVE SkipInv'
  BY <1>13 DEF RestoreSnapshot, control
<1>14. ASSUME NEW i \in 1 .. MaxSnaps, DeleteSnapshot(i) PROVE SkipInv'
  BY <1>14 DEF DeleteSnapshot, machine, control, history
<1>15. CASE UNCHANGED vars
  BY <1>15 DEF vars, machine, control, history
<1> QED BY <1>1, <1>2, <1>3, <1>4, <1>5, <1>6, <1>7, <1>8, <1>9, <1>10, <1>11, <1>12,
           <1>13, <1>14, <1>15 DEF Next

-----------------------------------------------------------------------------
\* The list is edited by the user and counted on by the observer.
LEMMA ShapeStep == DbgInv /\ Shape /\ [Next]_vars => Shape'
<1> SUFFICES ASSUME DbgInv, Shape, [Next]_vars PROVE Shape'
  OBVIOUS
<1>0. bps \in Seq(Breakpoint)
  BY DEF Shape
<1>f. /\ Fetched \in Seq(Breakpoint) /\ Len(Fetched) = Len(bps)
      /\ \A i \in 1 .. Len(bps) : Fetched[i].id = bps[i].id /\ Fetched[i].type = bps[i].type
  BY <1>0, CountedFacts DEF Fetched
<1>w. ASSUME NEW l \in Seq(Breakpoint), Len(l) = Len(bps),
             \A i \in 1 .. Len(bps) : l[i].id = bps[i].id /\ l[i].type = bps[i].type,
             NEW ws \in Seq(Write), NEW tr, NEW p, DoWrites(ws, tr, l, p),
             UNCHANGED <<nextId, execCount, watchCount>>
      PROVE  Shape'
  <2>1. bps' = CountedWrites(l, ws, acc)
    BY <1>w DEF DoWrites
  <2>2. /\ bps' \in Seq(Breakpoint) /\ Len(bps') = Len(l)
        /\ \A i \in 1 .. Len(l) : bps'[i].id = l[i].id /\ bps'[i].type = l[i].type
    BY <2>1, CountedWritesFacts
  <2> QED BY <1>w, <2>2, SameEntries
<1>1. CASE EditBreakpoints
  BY <1>1, ShapeEdit DEF EditBreakpoints
<1>2. ASSUME NEW kind \in Kinds, NEW veto \in BOOLEAN, StepStopped(kind, veto) PROVE Shape'
  <2>1. bps' = Counted(Fetched, "exec", pc, acc) /\ UNCHANGED <<nextId, execCount, watchCount>>
    BY <1>2 DEF StepStopped
  <2>2. /\ bps' \in Seq(Breakpoint) /\ Len(bps') = Len(Fetched)
        /\ \A i \in 1 .. Len(Fetched) : bps'[i].id = Fetched[i].id /\ bps'[i].type = Fetched[i].type
    BY <1>f, <2>1, CountedFacts
  <2> QED BY <1>f, <2>1, <2>2, SameEntries
<1>3. ASSUME NEW kind \in Kinds, NEW veto \in BOOLEAN, NEW r \in Addrs \cup {NoAddr},
             NEW ws \in BoundedSeq(Write, MaxWrites), NEW a \in Accs, NEW target \in Addrs,
             StepRuns(kind, veto, r, ws, a, target)
      PROVE  Shape'
  <2>1. PICK l, tr, p : /\ l = Counted(Fetched, "read", r, acc) /\ DoWrites(ws, tr, l, p)
                        /\ UNCHANGED <<nextId, execCount, watchCount>>
    BY <1>3 DEF StepRuns
  <2>2. /\ l \in Seq(Breakpoint) /\ Len(l) = Len(Fetched)
        /\ \A i \in 1 .. Len(Fetched) : l[i].id = Fetched[i].id /\ l[i].type = Fetched[i].type
    BY <1>f, <2>1, CountedFacts
  <2>3. ws \in Seq(Write)
    BY BoundedIsSeq
  <2> QED BY <1>f, <1>w, <2>1, <2>2, <2>3
<1>4. ASSUME NEW r \in Addrs, NEW ws \in BoundedSeq(Write, MaxWrites), NEW target \in Addrs,
             TakeInterrupt(r, ws, target)
      PROVE  Shape'
  <2>1. PICK l, p : /\ l = Counted(bps, "read", r, acc) /\ DoWrites(ws, trace, l, p)
                    /\ UNCHANGED <<nextId, execCount, watchCount>>
    BY <1>4 DEF TakeInterrupt
  <2>2. /\ l \in Seq(Breakpoint) /\ Len(l) = Len(bps)
        /\ \A i \in 1 .. Len(bps) : l[i].id = bps[i].id /\ l[i].type = bps[i].type
    BY <1>0, <2>1, CountedFacts
  <2>3. ws \in Seq(Write)
    BY BoundedIsSeq
  <2> QED BY <1>w, <2>1, <2>2, <2>3
<1>5. ASSUME NEW w \in Write, Poke(w) PROVE Shape'
  <2>1. /\ DoWrites(<<w>>, trace, bps, paused) /\ <<w>> \in Seq(Write)
        /\ UNCHANGED <<nextId, execCount, watchCount>>
    BY <1>5 DEF Poke
  <2> QED BY <1>0, <1>w, <2>1
<1>8. CASE ReverseStep
  <2>1. /\ trace # << >> /\ bps' = CountedWrites(bps, Last(trace).writes, acc)
        /\ UNCHANGED <<nextId, execCount, watchCount>>
    BY <1>8 DEF ReverseStep
  <2>2. PICK g \in Seq(Write) : g = Last(trace).writes
    <3>1. Last(trace) \in TraceEntry
      BY <2>1, FrontFacts DEF DbgInv
    <3> QED BY <3>1 DEF TraceEntry
  <2>3. /\ bps' \in Seq(Breakpoint) /\ Len(bps') = Len(bps)
        /\ \A i \in 1 .. Len(bps) : bps'[i].id = bps[i].id /\ bps'[i].type = bps[i].type
    BY <1>0, <2>1, <2>2, CountedWritesFacts
  <2> QED BY <2>1, <2>3, SameEntries
<1>15. CASE UNCHANGED listVars
  <2>1. UNCHANGED <<bps, nextId, execCount, watchCount>>
    BY <1>15 DEF listVars
  <2> QED BY <1>0, <2>1, SameEntries
<1> QED BY <1>1, <1>2, <1>3, <1>4, <1>5, <1>8, <1>15
        DEF Next, SetRegisters, Resume, ClearTrace, SaveSnapshot, ClearSnapshots, SetPauseOnBrk,
            RestoreSnapshot, DeleteSnapshot, vars

\* What is left of the type: the observer's own variables.
ControlTypes ==
    /\ lastPaused \in Addrs \cup {NoAddr} /\ resumeSkip \in Addrs \cup {NoAddr}
    /\ paused \in BOOLEAN /\ pauseOnBrk \in BOOLEAN
    /\ depth \in 0 .. MaxDepth

LEMMA ControlStep == DbgInv /\ ControlTypes /\ [Next]_vars => ControlTypes'
<1> SUFFICES ASSUME DbgInv, ControlTypes, [Next]_vars PROVE ControlTypes'
  OBVIOUS
<1> USE DEF ControlTypes
<1>1. CASE EditBreakpoints
  BY <1>1 DEF EditBreakpoints, control
<1>2. ASSUME NEW kind \in Kinds, NEW veto \in BOOLEAN, StepStopped(kind, veto) PROVE ControlTypes'
  BY <1>2 DEF StepStopped, DbgInv, FetchPauses, Hit, Matches
<1>3. ASSUME NEW kind \in Kinds, NEW veto \in BOOLEAN, NEW r \in Addrs \cup {NoAddr},
             NEW ws \in BoundedSeq(Write, MaxWrites), NEW a \in Accs, NEW target \in Addrs,
             StepRuns(kind, veto, r, ws, a, target)
      PROVE  ControlTypes'
  <2>1. depth' \in 0 .. MaxDepth
    <3>1. TrackStack(kind) /\ MaxDepth \in Nat
      BY <1>3, DebugAssumption DEF StepRuns
    <3>2. CASE kind = "push" \/ kind = "brk"
      <4>1. depth' = depth + 1 /\ depth < MaxDepth
        BY <3>1, <3>2 DEF TrackStack
      <4> QED BY <3>1, <4>1
    <3>3. CASE kind = "pull"
      BY <3>1, <3>3 DEF TrackStack
    <3>4. CASE kind = "plain"
      BY <3>1, <3>4 DEF TrackStack
    <3> QED BY <3>2, <3>3, <3>4 DEF Kinds
  <2>2. paused' \in BOOLEAN
    BY <1>3 DEF StepRuns, DoWrites, Hit, FetchPauses
  <2> QED BY <1>3, <2>1, <2>2 DEF StepRuns, SkipAfterStep
<1>4. ASSUME NEW r \in Addrs, NEW ws \in BoundedSeq(Write, MaxWrites), NEW target \in Addrs,
             TakeInterrupt(r, ws, target)
      PROVE  ControlTypes'
  BY <1>4 DEF TakeInterrupt, DoWrites
<1>5. ASSUME NEW w \in Write, Poke(w) PROVE ControlTypes'
  BY <1>5 DEF Poke, DoWrites
<1>7. CASE Resume
  BY <1>7 DEF Resume
<1>8. CASE ReverseStep
  BY <1>8 DEF ReverseStep
<1>12. ASSUME NEW on \in BOOLEAN, SetPauseOnBrk(on) PROVE ControlTypes'
  BY <1>12 DEF SetPauseOnBrk
<1>15. CASE UNCHANGED <<control, depth>>
  BY <1>15 DEF control
<1> QED BY <1>1, <1>2, <1>3, <1>4, <1>5, <1>7, <1>8, <1>12, <1>15
        DEF Next, SetRegisters, ClearTrace, SaveSnapshot, ClearSnapshots, RestoreSnapshot,
            DeleteSnapshot, vars
-----------------------------------------------------------------------------
LEMMA InitInv == Init => DbgInv /\ SkipInv /\ Shape /\ ControlTypes
<1> SUFFICES ASSUME Init PROVE DbgInv /\ SkipInv /\ Shape /\ ControlTypes
  OBVIOUS
<1>1. DbgInv
  <2>1. << >> \in Seq(TraceEntry) /\ << >> \in Seq(Snapshot) /\ Len(<< >>) <= Capacity
    BY DebugAssumption
  <2> QED BY <2>1 DEF Init, DbgInv, Memory
<1>6. SkipInv
  BY DEF Init, SkipInv
<1>7. ControlTypes
  <2>1. depth \in 0 .. MaxDepth
    BY DebugAssumption DEF Init
  <2>2. paused \in BOOLEAN /\ pauseOnBrk \in BOOLEAN
    BY Zenon DEF Init
  <2> QED BY <2>1, <2>2 DEF Init, ControlTypes
<1>2. bps = << >> /\ nextId = 1 /\ execCount = 0 /\ watchCount = 0
  BY DEF Init, ListInit
<1>3. bps \in Seq(Breakpoint) /\ \A i \in DOMAIN bps : FALSE
  BY <1>2
<1>4. OfType(bps, "exec") = {} /\ OfType(bps, "value") = {}
  BY <1>3 DEF OfType
<1>5. CountersAgree /\ Sorted(bps) /\ Below(bps, nextId)
  BY <1>2, <1>3, <1>4, FS_EmptySet DEF CountersAgree, Sorted, Below
<1>8. nextId \in 1 .. MaxBps + 1
  BY <1>2, ListAssumption
<1> QED BY <1>1, <1>3, <1>5, <1>6, <1>7, <1>8 DEF Shape

\* A list of MaxBps ids has at most as many entries of a type.
LEMMA CountBound == Shape => execCount \in 0 .. MaxBps /\ watchCount \in 0 .. MaxBps
<1> SUFFICES ASSUME Shape, NEW ty PROVE Cardinality(OfType(bps, ty)) \in 0 .. MaxBps
  BY DEF Shape, CountersAgree
<1> DEFINE T == OfType(bps, ty)
           f == [i \in T |-> bps[i].id]
<1>1. bps \in Seq(Breakpoint) /\ MaxBps \in Nat /\ \A i \in T : i \in DOMAIN bps
  BY ListAssumption DEF Shape, OfType
<1>2. \A i \in T : bps[i] \in Breakpoint /\ i \in Nat
  BY <1>1
<1>3. \A b \in Breakpoint : b.id \in 1 .. MaxBps
  BY DEF Breakpoint
<1>4. f \in [T -> 1 .. MaxBps]
  BY <1>2, <1>3
<1>5. ASSUME NEW i \in T, NEW j \in T, f[i] = f[j] PROVE i = j
  <2>1. i < j => bps[i].id < bps[j].id
    BY <1>1 DEF Shape, Sorted
  <2>2. j < i => bps[j].id < bps[i].id
    BY <1>1 DEF Shape, Sorted
  <2>3. bps[i].id = bps[j].id /\ bps[i].id \in Int
    BY <1>2, <1>3, <1>5
  <2> QED BY <1>2, <2>1, <2>2, <2>3
<1> HIDE DEF f
<1>6. f \in Injection(T, 1 .. MaxBps)
  BY <1>4, <1>5 DEF Injection, IsInjective
<1>7. IsFiniteSet(1 .. MaxBps) /\ Cardinality(1 .. MaxBps) = MaxBps
  BY <1>1, FS_Interval
<1>8. Cardinality(T) <= MaxBps
  BY <1>6, <1>7, FS_Injection
<1>9. Cardinality(T) \in Nat
  BY <1>1, OfTypeFinite
<1> QED BY <1>1, <1>8, <1>9

\* The types: above all, the trace never exceeds its capacity.
THEOREM DebugTypeCorrect == Spec => []TypeOK
<1>1. DbgInv /\ Shape /\ ControlTypes => TypeOK
  BY CountBound DEF DbgInv, Shape, ControlTypes, TypeOK, TraceEntry, Snapshot, Memory
<1> QED BY <1>1, InitInv, DbgStep, ShapeStep, ControlStep, PTL DEF Spec

(***************************************************************************)
(* However breakpoints are added, edited and removed, and whatever hits    *)
(* them, hasExecBreakpoints and hasValueWatches answer from the true       *)
(* number of entries and ids stay unique.                                  *)
(***************************************************************************)
THEOREM BreakpointListCorrect == Spec => []ListConsistent
<1> QED BY ShapeConsistent, InitInv, DbgStep, ShapeStep, PTL DEF Spec

(***************************************************************************)
(* Undoing the newest trace entry restores the memory its instruction      *)
(* found, for any number of writes, interrupts and memory edits recorded   *)
(* in it, repeated addresses and ROM included.                             *)
(***************************************************************************)
THEOREM UndoCorrect == Spec => []NewestEntryUndoes
<1>1. DbgInv => NewestEntryUndoes
  BY DEF DbgInv, NewestEntryUndoes, Undoes
<1> QED BY <1>1, InitInv, DbgStep, PTL DEF Spec

\* A resume never lets the CPU pass two breakpoints unnoticed.
THEOREM SkipsOnce == Spec => []AtMostOneSkip
<1>1. SkipInv => AtMostOneSkip
  BY DEF SkipInv, AtMostOneSkip
<1> QED BY <1>1, InitInv, DbgStep, SkipStep, PTL DEF Spec

\* A CPU resumed at its breakpoint is never stopped there again at once.
THEOREM ResumeMakesProgress == Spec => ResumeProgresses
<1>1. SkipInv /\ [Next]_vars =>
         [(\E kind \in Kinds, veto \in BOOLEAN : StepStopped(kind, veto)) => ~armed]_vars
  BY DEF SkipInv, StepStopped, Stops, Skipping
<1> QED BY <1>1, InitInv, DbgStep, SkipStep, PTL DEF Spec, ResumeProgresses
-----------------------------------------------------------------------------
(***************************************************************************)
(* The trace's ring buffer, for every capacity and every set of items.     *)
(* All index arithmetic is modulo the capacity, which the provers do not   *)
(* handle well; two lemmas about % replace it by a case split.             *)
(***************************************************************************)
\* A remainder below the modulus is the number itself.
LEMMA ModSmall ==
    ASSUME NEW c \in Nat \ {0}, NEW x \in 0 .. c - 1
    PROVE  x % c = x
  BY SMT

\* Between the modulus and its double, the remainder is one subtraction away.
LEMMA ModWrap ==
    ASSUME NEW c \in Nat \ {0}, NEW x \in c .. 2 * c - 1
    PROVE  x % c = x - c
  BY SMT

\* Stepping the head forwards and backwards around the ring.
LEMMA HeadSteps ==
    ASSUME RingTypeOK
    PROVE  /\ (head + 1) % RingCapacity = IF head = RingCapacity - 1 THEN 0 ELSE head + 1
           /\ Newest = IF head = 0 THEN RingCapacity - 1 ELSE head - 1
           /\ (head + 1) % RingCapacity \in Slots
           /\ Newest \in Slots
<1> USE BufferAssumption DEF RingTypeOK, Slots
<1>1. (head + 1) % RingCapacity = IF head = RingCapacity - 1 THEN 0 ELSE head + 1
  <2>1. CASE head = RingCapacity - 1
    BY <2>1, ModWrap
  <2>2. CASE head # RingCapacity - 1
    BY <2>2, ModSmall
  <2> QED BY <2>1, <2>2
<1>2. Newest = IF head = 0 THEN RingCapacity - 1 ELSE head - 1
  <2>1. CASE head = 0
    <3>1. head + RingCapacity - 1 \in 0 .. RingCapacity - 1
      BY <2>1
    <3> QED BY <2>1, <3>1, ModSmall DEF Newest
  <2>2. CASE head # 0
    <3>1. head + RingCapacity - 1 \in RingCapacity .. 2 * RingCapacity - 1
      BY <2>2
    <3> QED BY <2>2, <3>1, ModWrap DEF Newest
  <2> QED BY <2>1, <2>2
<1> QED BY <1>1, <1>2

\* Every step keeps the head and the count inside the allocated slots.
LEMMA RingTypeStep == RingTypeOK /\ [RingNext]_ringVars => RingTypeOK'
<1> SUFFICES ASSUME RingTypeOK, [RingNext]_ringVars PROVE RingTypeOK'
  OBVIOUS
<1> USE BufferAssumption
<1>1. ASSUME NEW x \in Items, Push(x) PROVE RingTypeOK'
  BY <1>1, HeadSteps DEF Push, RingTypeOK, Slots, GrownSize
<1>2. CASE PopBack
  BY <1>2, HeadSteps DEF PopBack, RingTypeOK, Slots
<1>3. CASE Clear
  BY <1>3 DEF Clear, RingTypeOK, Slots
<1>4. CASE UNCHANGED ringVars
  BY <1>4 DEF ringVars, RingTypeOK
<1> QED BY <1>1, <1>2, <1>3, <1>4 DEF RingNext

\* The head and the count never leave the ring, whatever its capacity.
THEOREM RingTypeCorrect == RingSpec => []RingTypeOK
<1>1. RingInit => RingTypeOK
  BY BufferAssumption DEF RingInit, RingTypeOK, Slots
<1> QED BY <1>1, RingTypeStep, PTL DEF RingSpec
-----------------------------------------------------------------------------
\* The slot of the i-th oldest of n items behind head h, with the remainder
\* worked out.  It is stated for any ring position, so that it applies to the
\* state after a step as well as to the one before.
LEMMA RingIndex ==
    ASSUME NEW h \in Slots, NEW n \in 0 .. RingCapacity, NEW i \in 0 .. n - 1
    PROVE  /\ (h + RingCapacity - n + i) % RingCapacity
                = IF h - n + i < 0 THEN h - n + i + RingCapacity ELSE h - n + i
           /\ (h + RingCapacity - n + i) % RingCapacity \in Slots
<1> USE BufferAssumption DEF Slots
<1> DEFINE x == h + RingCapacity - n + i
<1>1. CASE h - n + i < 0
  <2>1. x \in 0 .. RingCapacity - 1
    BY <1>1
  <2>2. x % RingCapacity = x
    <3> HIDE DEF x
    <3> QED BY <2>1, ModSmall
  <2> QED BY <1>1, <2>1, <2>2
<1>2. CASE ~(h - n + i < 0)
  <2>1. x \in RingCapacity .. 2 * RingCapacity - 1
    BY <1>2
  <2>2. x % RingCapacity = x - RingCapacity
    <3> HIDE DEF x
    <3> QED BY <2>1, ModWrap
  <2> QED BY <1>2, <2>1, <2>2
<1> QED BY <1>1, <1>2

\* The contents of a ring b with head h and n live items, as a sequence.
LEMMA RingContents ==
    ASSUME NEW b \in [Slots -> Items], NEW h \in Slots, NEW n \in 0 .. RingCapacity,
           NEW s, s = [i \in 1 .. n |-> b[(h + RingCapacity - n + (i - 1)) % RingCapacity]]
    PROVE  /\ s \in Seq(Items)
           /\ Len(s) = n
           /\ \A i \in 1 .. n :
                 s[i] = b[IF h - n + i - 1 < 0 THEN h - n + i - 1 + RingCapacity
                                               ELSE h - n + i - 1]
<1>1. n \in Nat
  BY BufferAssumption
<1>2. ASSUME NEW i \in 1 .. n
      PROVE  /\ s[i] \in Items
             /\ s[i] = b[IF h - n + i - 1 < 0 THEN h - n + i - 1 + RingCapacity
                                              ELSE h - n + i - 1]
  <2>1. i - 1 \in 0 .. n - 1
    BY <1>1
  <2>2. h \in Int /\ h - n + (i - 1) = h - n + i - 1
    BY BufferAssumption, <1>1 DEF Slots
  <2>3. /\ (h + RingCapacity - n + (i - 1)) % RingCapacity
              = IF h - n + (i - 1) < 0 THEN h - n + (i - 1) + RingCapacity ELSE h - n + (i - 1)
        /\ (h + RingCapacity - n + (i - 1)) % RingCapacity \in Slots
    BY <2>1, RingIndex
  <2>4. s[i] = b[(h + RingCapacity - n + (i - 1)) % RingCapacity]
    OBVIOUS
  <2> QED BY <2>2, <2>3, <2>4
<1> QED BY <1>1, <1>2

\* The abstract history in the states before and after a step.
LEMMA ContentsNow ==
    ASSUME RingTypeOK
    PROVE  /\ Contents \in Seq(Items)
           /\ Len(Contents) = size
           /\ \A i \in 1 .. size :
                 Contents[i] = buffer[IF head - size + i - 1 < 0
                                        THEN head - size + i - 1 + RingCapacity
                                        ELSE head - size + i - 1]
  BY RingContents DEF RingTypeOK, Contents, AgeSlot

LEMMA ContentsNext ==
    ASSUME RingTypeOK'
    PROVE  /\ Contents' \in Seq(Items)
           /\ Len(Contents') = size'
           /\ \A i \in 1 .. size' :
                 Contents'[i] = buffer'[IF head' - size' + i - 1 < 0
                                          THEN head' - size' + i - 1 + RingCapacity
                                          ELSE head' - size' + i - 1]
  BY RingContents DEF RingTypeOK, Contents, AgeSlot
-----------------------------------------------------------------------------
\* Two sequences of equal length with equal items are equal.
LEMMA SameItems ==
    ASSUME NEW s \in Seq(Items), NEW t \in Seq(Items), Len(s) = Len(t),
           \A i \in 1 .. Len(s) : s[i] = t[i]
    PROVE  s = t
  BY SeqEqual

\* A push appends to the history, after dropping the oldest item of a full one.
LEMMA PushStep ==
    ASSUME RingTypeOK, RingTypeOK', NEW x \in Items, Push(x)
    PROVE  History!Push(x)
<1> DEFINE kept == IF Len(Contents) = RingCapacity THEN Tail(Contents) ELSE Contents
<1> USE BufferAssumption
<1>0. RingCapacity > 0 /\ size \in Nat /\ head \in Int /\ size \in Int
  BY DEF RingTypeOK, Slots
<1>1. kept \in Seq(Items)
  BY <1>0, ContentsNow
<1>2. /\ Len(kept) = IF size = RingCapacity THEN size - 1 ELSE size
      /\ \A i \in 1 .. Len(kept) :
            kept[i] = IF size = RingCapacity THEN Contents[i + 1] ELSE Contents[i]
  BY <1>0, ContentsNow
<1> HIDE DEF kept
<1>3. /\ Append(kept, x) \in Seq(Items)
      /\ Len(Append(kept, x)) = size'
  BY <1>0, <1>1, <1>2 DEF Push, GrownSize, RingTypeOK
<1>4. ASSUME NEW i \in 1 .. size' PROVE Contents'[i] = Append(kept, x)[i]
  <2>1. /\ head' = IF head = RingCapacity - 1 THEN 0 ELSE head + 1
        /\ size' = IF size = RingCapacity THEN size ELSE size + 1
        /\ buffer' = [buffer EXCEPT ![head] = x]
        /\ buffer \in [Slots -> Items] /\ head \in Slots /\ size \in 0 .. RingCapacity
    BY HeadSteps DEF Push, GrownSize, RingTypeOK
  <2>2. Contents'[i] = buffer'[IF head' - size' + i - 1 < 0
                                 THEN head' - size' + i - 1 + RingCapacity
                                 ELSE head' - size' + i - 1]
    BY ContentsNext
  <2>3. CASE i = size'
    <3>1. Append(kept, x)[i] = x
      BY <1>1, <1>3, <2>3
    <3>2. Contents'[i] = x
      BY <2>1, <2>2, <2>3 DEF Slots
    <3> QED BY <3>1, <3>2
  <2>4. CASE i # size'
    <3>1. i \in 1 .. Len(kept) /\ Append(kept, x)[i] = kept[i]
      BY <1>1, <1>2, <1>3, <2>1, <2>4
    <3>2. CASE size = RingCapacity
      <4>1. Append(kept, x)[i] = Contents[i + 1] /\ i + 1 \in 1 .. size
        BY <1>2, <3>1, <3>2, <2>1, <2>4
      <4>2. Contents[i + 1] = buffer[IF head - size + (i + 1) - 1 < 0
                                       THEN head - size + (i + 1) - 1 + RingCapacity
                                       ELSE head - size + (i + 1) - 1]
        BY <4>1, ContentsNow
      <4> DEFINE j == IF head - size + i < 0 THEN head - size + i + RingCapacity
                                             ELSE head - size + i
      <4>3. j \in Slots /\ j # head
        BY <2>1, <2>4, <3>2 DEF Slots
      <4>4. Contents[i + 1] = buffer[j]
        BY <2>1, <4>2, <4>3 DEF Slots
      <4>5. Contents'[i] = buffer'[j]
        BY <2>1, <2>2, <3>2, <4>3 DEF Slots
      <4> HIDE DEF j
      <4>6. buffer'[j] = buffer[j]
        BY <2>1, <4>3
      <4> QED BY <4>1, <4>4, <4>5, <4>6
    <3>3. CASE size # RingCapacity
      <4>1. Append(kept, x)[i] = Contents[i] /\ i \in 1 .. size
        BY <1>2, <3>1, <3>3, <2>1, <2>4
      <4>2. Contents[i] = buffer[IF head - size + i - 1 < 0
                                   THEN head - size + i - 1 + RingCapacity
                                   ELSE head - size + i - 1]
        BY <4>1, ContentsNow
      <4> DEFINE j == IF head - size + i - 1 < 0 THEN head - size + i - 1 + RingCapacity
                                                 ELSE head - size + i - 1
      <4>3. j \in Slots /\ j # head
        BY <2>1, <3>3, <4>1 DEF Slots
      <4>4. Contents[i] = buffer[j]
        BY <4>2
      <4>5. Contents'[i] = buffer'[j]
        <5>1. size \in Int /\ head \in Int /\ RingCapacity \in Int /\ i \in Int
          BY <2>1, <4>1, BufferAssumption DEF Slots
        <5>2. /\ size' = size + 1 /\ i <= size /\ size < RingCapacity
              /\ head' = IF head = RingCapacity - 1 THEN 0 ELSE head + 1
          BY <2>1, <3>3, <4>1, BufferAssumption
        <5>3. j = IF head' - size' + i - 1 < 0 THEN head' - size' + i - 1 + RingCapacity
                                               ELSE head' - size' + i - 1
          <6>1. CASE head = RingCapacity - 1
            BY <5>1, <5>2, <6>1
          <6>2. CASE head # RingCapacity - 1
            BY <5>1, <5>2, <6>2
          <6> QED BY <6>1, <6>2
        <5> HIDE DEF j
        <5> QED BY <2>2, <5>3
      <4> HIDE DEF j
      <4>6. buffer'[j] = buffer[j]
        BY <2>1, <4>3
      <4> QED BY <4>1, <4>4, <4>5, <4>6
    <3> QED BY <3>2, <3>3
  <2> QED BY <2>3, <2>4
<1>5. Contents' = Append(kept, x)
  BY <1>3, <1>4, ContentsNext, SameItems
<1> QED BY <1>5 DEF History!Push, Push, kept

\* popBack returns the newest item of the history and drops it.
LEMMA PopStep ==
    ASSUME RingTypeOK, RingTypeOK', PopBack
    PROVE  History!PopBack
<1> USE BufferAssumption
<1>1. /\ head' = IF head = 0 THEN RingCapacity - 1 ELSE head - 1
      /\ Newest = head'
      /\ size > 0 /\ size' = size - 1
      /\ out' = buffer[head']
      /\ buffer \in [Slots -> Items] /\ head \in Slots /\ size \in 0 .. RingCapacity
    BY HeadSteps DEF PopBack, RingTypeOK
<1>2. \A s \in Slots : s # head' => buffer'[s] = buffer[s]
  BY <1>1 DEF PopBack
<1>3. Contents # << >> /\ Len(Contents) = size /\ Contents \in Seq(Items)
  BY <1>1, ContentsNow
<1>4. out' = Contents[Len(Contents)]
  BY <1>1, <1>3, ContentsNow DEF Slots
<1>5. /\ SubSeq(Contents, 1, Len(Contents) - 1) \in Seq(Items)
      /\ Len(SubSeq(Contents, 1, Len(Contents) - 1)) = size'
      /\ \A i \in 1 .. size' : SubSeq(Contents, 1, Len(Contents) - 1)[i] = Contents[i]
  BY <1>1, <1>3
<1>6. ASSUME NEW i \in 1 .. size' PROVE Contents'[i] = Contents[i]
  <2>1. Contents'[i] = buffer'[IF head' - size' + i - 1 < 0
                                 THEN head' - size' + i - 1 + RingCapacity
                                 ELSE head' - size' + i - 1]
    BY ContentsNext
  <2>2. i \in 1 .. size
    BY <1>1
  <2>3. Contents[i] = buffer[IF head - size + i - 1 < 0
                               THEN head - size + i - 1 + RingCapacity
                               ELSE head - size + i - 1]
    BY <2>2, ContentsNow
  <2> QED BY <1>1, <1>2, <2>1, <2>2, <2>3 DEF Slots
<1>7. Contents' = SubSeq(Contents, 1, Len(Contents) - 1)
  BY <1>5, <1>6, ContentsNext, SameItems
<1> QED BY <1>3, <1>4, <1>7 DEF History!PopBack

\* clear() empties the history although the slots keep their stale items.
LEMMA ClearStep ==
    ASSUME RingTypeOK, RingTypeOK', Clear
    PROVE  History!Clear
<1>1. Contents' \in Seq(Items) /\ Len(Contents') = 0
  BY ContentsNext DEF Clear
<1> QED BY <1>1 DEF Clear, History!Clear

(***************************************************************************)
(* The ring implements the bounded history for every capacity: however the *)
(* head wraps, popBack returns the newest live item and a push forgets     *)
(* only the oldest.                                                        *)
(***************************************************************************)
THEOREM RingImplementsHistory == RingSpec => ImplementsHistory
<1>1. RingInit => History!Init
  <2> SUFFICES ASSUME RingInit PROVE History!Init
    OBVIOUS
  <2>1. RingTypeOK
    BY BufferAssumption DEF RingInit, RingTypeOK, Slots
  <2>2. Contents \in Seq(Items) /\ Len(Contents) = 0
    BY <2>1, ContentsNow DEF RingInit
  <2> QED BY <2>2 DEF RingInit, History!Init
<1>2. RingTypeOK /\ RingTypeOK' /\ [RingNext]_ringVars => [History!Next]_(History!vars)
  <2> SUFFICES ASSUME RingTypeOK, RingTypeOK', [RingNext]_ringVars
               PROVE  [History!Next]_(History!vars)
    OBVIOUS
  <2>1. ASSUME NEW x \in Items, Push(x) PROVE History!Next
    BY <2>1, PushStep DEF History!Next
  <2>2. CASE PopBack
    BY <2>2, PopStep DEF History!Next
  <2>3. CASE Clear
    BY <2>3, ClearStep DEF History!Next
  <2>4. CASE UNCHANGED ringVars
    BY <2>4 DEF ringVars, History!vars, Contents, AgeSlot
  <2> QED BY <2>1, <2>2, <2>3, <2>4 DEF RingNext
<1> QED BY <1>1, <1>2, RingTypeCorrect, PTL DEF RingSpec, ImplementsHistory, History!Spec
-----------------------------------------------------------------------------
\* operator[] reads a ring of any capacity by age, if the ring is full or has
\* not wrapped.
THEOREM RingIndexedByAge == RingSpec => []IndexedByAge
<1>1. RingTypeOK => IndexedByAge
  <2> SUFFICES ASSUME RingTypeOK, size = RingCapacity \/ head = size, NEW i \in 0 .. size - 1
               PROVE  At(i) = Contents[i + 1]
    BY DEF IndexedByAge
  <2>1. i + 1 \in 1 .. size /\ i \in Nat /\ size \in Nat /\ head \in Nat
    BY BufferAssumption DEF RingTypeOK, Slots
  <2>2. Contents[i + 1] = buffer[IF head - size + i < 0 THEN head - size + i + RingCapacity
                                                        ELSE head - size + i]
    BY <2>1, ContentsNow, BufferAssumption
  <2>3. CASE size = RingCapacity
    <3>1. (head + i) % RingCapacity = IF head - size + i < 0 THEN head - size + i + RingCapacity
                                                         ELSE head - size + i
      <4>1. (head + RingCapacity - size + i) % RingCapacity
              = IF head - size + i < 0 THEN head - size + i + RingCapacity ELSE head - size + i
        BY RingIndex DEF RingTypeOK
      <4>2. head + RingCapacity - size + i = head + i
        BY <2>1, <2>3, BufferAssumption
      <4> QED BY <4>1, <4>2
    <3>2. ~(size < RingCapacity)
      BY <2>1, <2>3
    <3>3. At(i) = buffer[(head + i) % RingCapacity]
      BY <3>2 DEF At
    <3> QED BY <2>2, <3>1, <3>3
  <2>4. CASE head = size /\ size # RingCapacity
    <3>1. size < RingCapacity /\ ~(head - size + i < 0) /\ head - size + i = i
      BY <2>1, <2>4, BufferAssumption DEF RingTypeOK
    <3>2. At(i) = buffer[i]
      BY <3>1 DEF At
    <3> QED BY <2>2, <3>1, <3>2
  <2> QED BY <2>3, <2>4
<1> QED BY <1>1, RingTypeCorrect, PTL
=============================================================================
