------------------------------ MODULE Cpu45GS02 ------------------------------
(***************************************************************************)
(* Instruction semantics of the 45GS02 core (plugins/45gs02/main/          *)
(* cpu45gs02.cpp): step() with its prefixes, and what decodeEntry() and    *)
(* disassembleOne() tell the debugger about an instruction.                *)
(*                                                                         *)
(* The core computes on one, two or four bytes (an operand, a word, the Q  *)
(* register A:X:Y:Z); here a value is a sequence of bytes, the low one     *)
(* first.  Interrupts are in Interrupts45GS02, the MAP registers and the   *)
(* hypervisor in Mega65Memory; cycles are left out.                        *)
(***************************************************************************)
EXTENDS Integers, Sequences, FiniteSets, TLC, Bitwise

CONSTANTS G45Operands,  \* operand bytes and register values
          G45QuadBytes, \* bytes of the Q register and of the four it is added to
          G45Bcd        \* operands of decimal arithmetic, valid BCD

ASSUME G45Assumption ==
    (G45Operands \cup G45QuadBytes \cup G45Bcd) \subseteq 0 .. 255

VARIABLES g45,      \* CPU45GS02State, with the memory it has written
          g45Ran    \* history: the instructions executed, each with the state before it

g45Vars == <<g45, g45Ran>>

G45Wrap(a) == a % 65536
G45Signed(b) == IF b < 128 THEN b ELSE b - 256
G45Bool(b) == IF b THEN 1 ELSE 0

\* Memory nobody has written holds something (external).
G45Byte(s, a) == IF a \in DOMAIN s.m THEN s.m[a] ELSE (5 * a + 1) % 256

\* read8 and read32; flat is read8_phys and read32_phys, which keep 28 bits.
G45Read(s, a, n, flat) ==
    [k \in 1 .. n |-> G45Byte(s, IF flat THEN (a + k - 1) % 268435456 ELSE G45Wrap(a + k - 1))]
G45Write(s, a, v, flat) ==
    [s EXCEPT !.m = [b \in {IF flat THEN (a + k - 1) % 268435456 ELSE G45Wrap(a + k - 1) : k \in 1 .. Len(v)} |->
                        v[((b - a + 268435456) % (IF flat THEN 268435456 ELSE 65536)) + 1]] @@ @]
G45Word(s, a) == G45Byte(s, G45Wrap(a)) + 256 * G45Byte(s, G45Wrap(a + 1))

\* regRead and regWrite of register 8, Q.
G45Q(s) == <<s.a, s.x, s.y, s.z>>
G45SetQ(s, q) == [s EXCEPT !.a = q[1], !.x = q[2], !.y = q[3], !.z = q[4]]
G45A(s, n) == IF n = 4 THEN G45Q(s) ELSE <<s.a>>
G45SetA(s, v) == IF Len(v) = 4 THEN G45SetQ(s, v) ELSE [s EXCEPT !.a = v[1]]

\* updateNZ, updateNZ16, updateNZ32
G45NZ(s, v) ==
    [s EXCEPT !.n = v[Len(v)] \div 128, !.zf = G45Bool(\A k \in 1 .. Len(v) : v[k] = 0)]

\* push8 and pull8: with E set only the low byte of the stack pointer moves.
G45Down(s) == IF s.e = 1 THEN s.sp - (s.sp % 256) + ((s.sp + 255) % 256) ELSE G45Wrap(s.sp + 65535)
G45Up(s) == IF s.e = 1 THEN s.sp - (s.sp % 256) + ((s.sp + 1) % 256) ELSE G45Wrap(s.sp + 1)
G45Push(s, v) == [G45Write(s, s.sp, <<v>>, FALSE) EXCEPT !.sp = G45Down(s)]
G45Pop(s) == [s EXCEPT !.sp = G45Up(s)]
G45Top(s) == G45Byte(s, G45Up(s))
G45Push16(s, v) == G45Push(G45Push(s, v \div 256), v % 256)
G45Pop16(s) == G45Pop(G45Pop(s))
G45Top16(s) == G45Top(s) + 256 * G45Top(G45Pop(s))

G45P(s, b, e) == 128 * s.n + 64 * s.v + 32 * e + 16 * b + 8 * s.d + 4 * s.i + 2 * s.zf + s.c
\* PLP and RTI leave B and E alone.
G45SetP(s, p) ==
    [s EXCEPT !.n = p \div 128, !.v = (p \div 64) % 2, !.d = (p \div 8) % 2,
              !.i = (p \div 4) % 2, !.zf = (p \div 2) % 2, !.c = p % 2]
-----------------------------------------------------------------------------
(***************************************************************************)
(* The opcodes, section by section of step(): opcode, operation, mode      *)
(***************************************************************************)
\* The nine addressing modes of an accumulator operation, by opcode offset.
G45Accu(base, fn) ==
    {<<base + 1, fn, "INDX">>, <<base + 5, fn, "ZP">>, <<base + 13, fn, "ABS">>, <<base + 17, fn, "INDY">>,
     <<base + 18, fn, "INDZ">>, <<base + 21, fn, "ZPX">>, <<base + 25, fn, "ABSY">>, <<base + 29, fn, "ABSX">>}

G45Loads ==
    G45Accu(160, "LDA") \cup
    {<<169, "LDA", "IMM">>, <<226, "LDA", "SPY">>, <<162, "LDX", "IMM">>, <<174, "LDX", "ABS">>,
     <<190, "LDX", "ABSY">>, <<166, "LDX", "ZP">>, <<182, "LDX", "ZPY">>, <<160, "LDY", "IMM">>,
     <<172, "LDY", "ABS">>, <<188, "LDY", "ABSX">>, <<164, "LDY", "ZP">>, <<180, "LDY", "ZPX">>,
     <<163, "LDZ", "IMM">>, <<171, "LDZ", "ABS">>, <<187, "LDZ", "ABSX">>}

G45Stores ==
    G45Accu(128, "STA") \cup
    {<<130, "STA", "SPY">>, <<142, "STX", "ABS">>, <<134, "STX", "ZP">>, <<150, "STX", "ZPY">>,
     <<155, "STX", "ABSY">>, <<139, "STY", "ABSX">>, <<140, "STY", "ABS">>, <<132, "STY", "ZP">>,
     <<148, "STY", "ZPX">>, <<156, "STZ", "ABS">>, <<100, "STZ", "ZP">>, <<116, "STZ", "ZPX">>,
     <<158, "STZ", "ABSX">>}

G45AddSub == G45Accu(96, "ADC") \cup G45Accu(224, "SBC") \cup {<<105, "ADC", "IMM">>, <<233, "SBC", "IMM">>}

G45Compares ==
    G45Accu(192, "CMP") \cup
    {<<201, "CMP", "IMM">>, <<224, "CPX", "IMM">>, <<236, "CPX", "ABS">>, <<228, "CPX", "ZP">>,
     <<192, "CPY", "IMM">>, <<204, "CPY", "ABS">>, <<196, "CPY", "ZP">>, <<194, "CPZ", "IMM">>,
     <<212, "CPZ", "ZP">>, <<220, "CPZ", "ABS">>}

G45Logic ==
    G45Accu(0, "ORA") \cup G45Accu(32, "AND") \cup G45Accu(64, "EOR") \cup
    {<<9, "ORA", "IMM">>, <<41, "AND", "IMM">>, <<73, "EOR", "IMM">>}

G45Counts ==
    {<<26, "INC", "ACC">>, <<238, "INC", "ABS">>, <<254, "INC", "ABSX">>, <<230, "INC", "ZP">>,
     <<246, "INC", "ZPX">>, <<58, "DEC", "ACC">>, <<206, "DEC", "ABS">>, <<222, "DEC", "ABSX">>,
     <<198, "DEC", "ZP">>, <<214, "DEC", "ZPX">>}

\* Register and flag operations, pushes and pulls.
G45Implied ==
    {<<2, "CLE">>, <<3, "SEE">>, <<11, "TSY">>, <<43, "TYS">>, <<234, "EOM">>, <<232, "INX">>, <<202, "DEX">>,
     <<200, "INY">>, <<136, "DEY">>, <<27, "INZ">>, <<59, "DEZ">>, <<170, "TAX">>, <<138, "TXA">>,
     <<168, "TAY">>, <<152, "TYA">>, <<75, "TAZ">>, <<107, "TZA">>, <<91, "TAB">>, <<123, "TBA">>,
     <<186, "TSX">>, <<154, "TXS">>, <<24, "CLC">>, <<56, "SEC">>, <<88, "CLI">>, <<120, "SEI">>,
     <<216, "CLD">>, <<248, "SED">>, <<184, "CLV">>, <<72, "PHA">>, <<104, "PLA">>, <<8, "PHP">>,
     <<40, "PLP">>, <<218, "PHX">>, <<250, "PLX">>, <<90, "PHY">>, <<122, "PLY">>, <<219, "PHZ">>,
     <<251, "PLZ">>, <<92, "MAP">>}

G45Branches == <<"BPL", "BMI", "BVC", "BVS", "BCC", "BCS", "BNE", "BEQ">>

G45Flow ==
    {<<0, "BRK", "IMP">>, <<76, "JMP", "ABS">>, <<108, "JMP", "IND">>, <<124, "JMP", "INDABSX">>,
     <<32, "JSR", "ABS">>, <<34, "JSR", "IND">>, <<35, "JSR", "INDABSX">>, <<99, "BSR", "RELW">>,
     <<96, "RTS", "IMP">>, <<64, "RTI", "IMP">>, <<98, "RTN", "IMM">>, <<244, "PHW", "IMMW">>,
     <<252, "PHW", "ABS">>, <<128, "BRA", "REL">>, <<131, "BRA", "RELW">>} \cup
    UNION {{<<16 + 32 * k, G45Branches[k + 1], "REL">>, <<19 + 32 * k, G45Branches[k + 1], "RELW">>} : k \in 0 .. 7}

G45Bits ==
    {<<36, "BIT", "ZP">>, <<44, "BIT", "ABS">>, <<52, "BIT", "ZPX">>, <<60, "BIT", "ABSX">>, <<137, "BIT", "IMM">>,
     <<4, "TSB", "ZP">>, <<12, "TSB", "ABS">>, <<20, "TRB", "ZP">>, <<28, "TRB", "ABS">>} \cup
    UNION {{<<7 + 16 * k, "RMB", "ZP">>, <<135 + 16 * k, "SMB", "ZP">>, <<15 + 16 * k, "BBR", "ZPREL">>,
            <<143 + 16 * k, "BBS", "ZPREL">>} : k \in 0 .. 7}

G45Shifts ==
    UNION {{<<10 + g[1], g[2], "ACC">>, <<14 + g[1], g[2], "ABS">>, <<30 + g[1], g[2], "ABSX">>,
            <<6 + g[1], g[2], "ZP">>, <<22 + g[1], g[2], "ZPX">>}
             : g \in {<<0, "ASL">>, <<32, "ROL">>, <<64, "LSR">>, <<96, "ROR">>}}
    \cup {<<67, "ASR", "ACC">>, <<68, "ASR", "ZP">>, <<84, "ASR", "ZPX">>}

G45Extensions ==
    {<<66, "NEG", "ACC">>, <<227, "INW", "ZP">>, <<195, "DEW", "ZP">>, <<203, "ASW", "ABS">>, <<235, "ROW", "ABS">>}

G45Opcodes ==
    G45Loads \cup G45Stores \cup G45AddSub \cup G45Compares \cup G45Logic \cup G45Counts \cup G45Flow
    \cup G45Bits \cup G45Shifts \cup G45Extensions \cup {<<r[1], r[2], "IMP">> : r \in G45Implied}
G45Table == [op \in 0 .. 255 |-> CHOOSE r \in G45Opcodes : r[1] = op]

\* Operations with a 32-bit form, where step() tests isQuad.
G45HasQuad(fn, mode) ==
    /\ fn \in {"LDA", "STA", "ADC", "SBC", "CMP", "AND", "ORA", "EOR", "ASR", "INC", "DEC", "BIT",
               "ASL", "LSR", "ROL", "ROR", "NEG"}
    /\ mode \in {"ACC", "ABS", "ZP", "ZPX", "ABSX", "ABSY", "INDZ"}
    /\ ~(fn \in {"LDA", "STA"} /\ mode \in {"ABSX", "ABSY"})
    /\ ~(fn = "BIT" /\ mode \in {"ZPX", "ABSX"})
-----------------------------------------------------------------------------
(***************************************************************************)
(* Prefixes: $42 $42 (NEG NEG) makes the next instruction a quad one, $EA  *)
(* makes an indirect one use a 32-bit pointer.                             *)
(***************************************************************************)
G45QuadImmediates == {9, 41, 73, 105, 169, 201, 233}
G45IndirectZ == {18 + 32 * k : k \in 0 .. 7}

\* MMSIM_EXPERIMENTAL_PREFIX: the opcodes before which NEG NEG is a prefix.
G45Peeked ==
    {133, 169, 165, 181, 173, 189, 185, 161, 177, 178, 162, 182, 174, 190, 105, 101, 117, 109, 125, 121, 97, 113,
     233, 229, 245, 237, 253, 249, 225, 241, 201, 197, 213, 205, 221, 217, 193, 209}

G45MaxPrefixes == 16

\* How many NEG NEG prefixes there are at pc; before the opcodes in plain it is none.
G45Negs(s, plain) ==
    LET pair(k) == LET b(n) == G45Byte(s, G45Wrap(s.pc + 2 * k + n)) IN b(0) = 66 /\ b(1) = 66 /\ b(2) \notin plain
    IN  CHOOSE k \in 0 .. G45MaxPrefixes : (k = G45MaxPrefixes \/ ~pair(k)) /\ \A j \in 0 .. k - 1 : pair(j)

\* $EA is a prefix only right before its opcode, so it is the last one.
G45Flat(s, negs) ==
    LET b(n) == G45Byte(s, G45Wrap(s.pc + 2 * negs + n)) IN negs < G45MaxPrefixes /\ b(0) = 234 /\ b(1) \in G45IndirectZ

\* The loop over the prefixes; after the sixteenth the byte read last is executed.
G45Scanned(s, negs, flat) ==
    LET skipped == 2 * negs + G45Bool(flat)
        full == negs + G45Bool(flat) = G45MaxPrefixes
    IN  [op |-> IF full THEN (IF flat THEN 234 ELSE 66) ELSE G45Byte(s, G45Wrap(s.pc + skipped)),
         pc |-> G45Wrap(s.pc + skipped + (IF full THEN 0 ELSE 1)), quad |-> negs > 0, flat |-> flat]
G45Scan(s) ==
    LET negs == G45Negs(s, G45QuadImmediates \cup IF s.peek THEN 0 .. 255 \ G45Peeked ELSE {})
    IN  G45Scanned(s, negs, G45Flat(s, negs))

\* Addressing modes: the operand's address and the PC behind it.
G45Operand(s, mode, indexed, flat) ==
    LET b(k) == G45Byte(s, G45Wrap(s.pc + k))
        abs == b(0) + 256 * b(1)
        zp(i) == 256 * s.b + ((b(0) + i) % 256)
        at(a, n) == [addr |-> a, pc |-> G45Wrap(s.pc + n)]
        pointer == IF flat THEN G45Word(s, zp(0)) + 65536 * G45Byte(s, G45Wrap(zp(0) + 2))
                                + 16777216 * (G45Byte(s, G45Wrap(zp(0) + 3)) % 16)
                   ELSE G45Word(s, zp(0))
    IN CASE mode \in {"IMP", "ACC"} -> at(0, 0)
         [] mode = "IMM"  -> at(s.pc, 1)
         [] mode \in {"IMMW", "RELW"} -> at(s.pc, 2)
         [] mode = "ZP"   -> at(zp(0), 1)
         [] mode = "ZPX"  -> at(zp(s.x), 1)
         [] mode = "ZPY"  -> at(zp(s.y), 1)
         [] mode = "ZPREL" -> at(zp(0), 2)
         [] mode = "ABS"  -> at(abs, 2)
         [] mode = "ABSX" -> at(G45Wrap(abs + s.x), 2)
         [] mode = "ABSY" -> at(G45Wrap(abs + s.y), 2)
         [] mode = "IND"  -> at(G45Word(s, abs), 2)
         [] mode = "INDABSX" -> at(G45Word(s, abs + s.x), 2)
         [] mode = "INDX" -> at(G45Word(s, zp(s.x)), 1)
         [] mode = "INDY" -> at(G45Wrap(G45Word(s, zp(0)) + s.y), 1)
         [] mode = "SPY"  -> at(G45Wrap(G45Word(s, s.sp + b(0)) + s.y), 1)
         [] mode = "REL"  -> at(s.pc, 1)
         [] mode = "INDZ" -> at((pointer + (IF indexed THEN s.z ELSE 0)) % (IF flat THEN 268435456 ELSE 65536), 1)
-----------------------------------------------------------------------------
(***************************************************************************)
(* Arithmetic on byte sequences                                            *)
(***************************************************************************)
\* Faulty: the carry into the third byte is the one that came in.
G45SumWords(p, q, c) ==
    LET n == Len(p)
        carry[k \in 0 .. n] == IF k \in {0, 2} THEN c ELSE (p[k] + q[k] + carry[k - 1]) \div 256
    IN  [sum |-> [k \in 1 .. n |-> (p[k] + q[k] + carry[k - 1]) % 256], carry |-> carry[n]]

\* p + q + c: the sum, and the carries from byte to byte, the first being c.
G45Sum(p, q, c) ==
    LET n == Len(p)
        carry[k \in 0 .. n] == IF k = 0 THEN c ELSE (p[k] + q[k] + carry[k - 1]) \div 256
    IN  [sum |-> [k \in 1 .. n |-> (p[k] + q[k] + carry[k - 1]) % 256], carry |-> carry[n]]

G45Not(v) == [k \in DOMAIN v |-> 255 - v[k]]
G45Zero(v) == [k \in DOMAIN v |-> 0]

\* Two's complement overflow: the operands agree in sign, the result does not.
G45Overflow(p, q, r) ==
    LET top(v) == v[Len(v)] \div 128 IN G45Bool(top(p) = top(q) /\ top(r) # top(p))

\* doAdc32, and doAdc8 without D; subtraction adds the complement (doSbc32, doSbc8).
G45AddBinary(s, v) ==
    LET p == G45A(s, Len(v))
        r == G45Sum(p, v, s.c)
    IN  G45NZ([G45SetA(s, r.sum) EXCEPT !.c = r.carry, !.v = G45Overflow(p, v, r.sum)], r.sum)

\* Faulty: the high digit is corrected before the low digit's carry reaches it.
G45AddDecimalEarly(s, m) ==
    LET low == (s.a % 16) + (m % 16) + s.c
        adj == IF low > 9 THEN low + 6 ELSE low
        high == (s.a - (s.a % 16)) + (m - (m % 16))
        all == IF high \div 16 > 9 THEN high + 96 ELSE high
    IN  [s EXCEPT !.a = (all + adj) % 256, !.c = G45Bool(high \div 16 > 9)]

\* doAdc8 with D: Z from the binary sum, N and V before the high digit is adjusted.
G45AddDecimal(s, m) ==
    LET low == (s.a % 16) + (m % 16) + s.c
        adj == IF low > 9 THEN low + 6 ELSE low
        t == (adj % 16) + (s.a - (s.a % 16)) + (m - (m % 16)) + (IF adj < 16 THEN 0 ELSE 16)
        over == (t \div 16) % 32 > 9
    IN  [s EXCEPT !.zf = G45Bool((s.a + m + s.c) % 256 = 0), !.n = (t \div 128) % 2,
                  !.v = G45Overflow(<<s.a>>, <<m>>, <<t % 256>>),
                  !.c = G45Bool(over), !.a = (IF over THEN t + 96 ELSE t) % 256]

\* doSbc8 with D: the flags of the binary subtraction, the digits adjusted.
G45SubDecimal(s, m) ==
    LET bin == G45AddBinary(s, <<255 - m>>)
        low == (s.a % 16) - (m % 16) - (1 - s.c)
        borrow == G45Bool(low < 0)
        digit == IF low < 0 THEN (low + 10 + 16) % 16 ELSE low
        high == (s.a \div 16) - (m \div 16) - borrow
        d == digit + 16 * ((high + 32) % 32)
    IN  [bin EXCEPT !.a = (IF (d \div 256) % 2 = 1 THEN d - 96 ELSE d) % 256]

G45Compare(s, p, v) ==
    LET r == G45Sum(p, G45Not(v), 1) IN G45NZ([s EXCEPT !.c = r.carry], r.sum)

\* ASL, ROL add the value to itself; LSR, ROR, ASR shift a bit in at the top.
G45Shift(s, fn, v) ==
    LET n == Len(v)
        in == CASE fn = "ROR" -> s.c [] fn = "ASR" -> v[n] \div 128 [] OTHER -> 0
        up == G45Sum(v, v, IF fn = "ROL" THEN s.c ELSE 0)
    IN  IF fn \in {"ASL", "ROL"} THEN [v |-> up.sum, c |-> up.carry]
        ELSE [v |-> [k \in 1 .. n |-> v[k] \div 2 + 128 * (IF k = n THEN in ELSE v[k + 1] % 2)], c |-> v[1] % 2]

\* The result of an operation that rewrites its operand, and the carry it leaves.
G45Modified(s, fn, v) ==
    CASE fn \in {"ASL", "ROL", "LSR", "ROR", "ASR"} -> G45Shift(s, fn, v)
      [] fn \in {"ASW", "ROW"} -> G45Shift(s, IF fn = "ASW" THEN "ASL" ELSE "ROL", v)
      [] fn \in {"INC", "INW"} -> [v |-> G45Sum(v, G45Zero(v), 1).sum, c |-> s.c]
      [] fn \in {"DEC", "DEW"} -> [v |-> G45Sum(v, G45Not(G45Zero(v)), 0).sum, c |-> s.c]
      [] fn = "NEG" -> [v |-> G45Sum(G45Not(v), G45Zero(v), 1).sum, c |-> s.c]
G45Modifiers == {"ASL", "ROL", "LSR", "ROR", "ASR", "ASW", "ROW", "INC", "INW", "DEC", "DEW", "NEG"}

G45Modify(s, fn, mode, addr, n) ==
    LET v == IF mode = "ACC" THEN G45A(s, n) ELSE G45Read(s, addr, n, FALSE)
        r == G45Modified(s, fn, v)
        t == G45NZ([s EXCEPT !.c = r.c], r.v)
    IN  IF mode = "ACC" THEN G45SetA(t, r.v) ELSE G45Write(t, addr, r.v, FALSE)

\* Loads, stores, arithmetic and logic.
G45Memory(s, fn, addr, n, flat) ==
    LET v == G45Read(s, addr, n, flat)
        q == G45A(s, n)
        bits == [k \in 1 .. n |-> CASE fn = "AND" -> q[k] & v[k] [] fn = "ORA" -> q[k] | v[k] [] OTHER -> q[k] ^^ v[k]]
    IN CASE fn = "LDA" -> G45NZ(G45SetA(s, v), v)
         [] fn = "LDX" -> G45NZ([s EXCEPT !.x = v[1]], v)
         [] fn = "LDY" -> G45NZ([s EXCEPT !.y = v[1]], v)
         [] fn = "LDZ" -> G45NZ([s EXCEPT !.z = v[1]], v)
         [] fn = "STA" -> G45Write(s, addr, q, flat)
         [] fn = "STX" -> G45Write(s, addr, <<s.x>>, flat)
         [] fn = "STY" -> G45Write(s, addr, <<s.y>>, flat)
         [] fn = "STZ" -> G45Write(s, addr, <<s.z>>, flat)
         [] fn = "ADC" -> IF n = 1 /\ s.d = 1 THEN G45AddDecimal(s, v[1]) ELSE G45AddBinary(s, v)
         [] fn = "SBC" -> IF n = 1 /\ s.d = 1 THEN G45SubDecimal(s, v[1]) ELSE G45AddBinary(s, G45Not(v))
         [] fn = "CMP" -> G45Compare(s, q, v)
         [] fn = "CPX" -> G45Compare(s, <<s.x>>, v)
         [] fn = "CPY" -> G45Compare(s, <<s.y>>, v)
         [] fn = "CPZ" -> G45Compare(s, <<s.z>>, v)
         [] fn \in {"AND", "ORA", "EOR"} -> G45NZ(G45SetA(s, bits), bits)

G45BitOps(s, fn, addr, n, op) ==
    LET v == G45Read(s, addr, n, FALSE)
        q == G45A(s, n)
        bit == 2 ^ ((op \div 16) % 8)
        tested == [s EXCEPT !.zf = G45Bool(\A k \in 1 .. n : (q[k] & v[k]) = 0)]
    IN CASE fn = "BIT" -> [tested EXCEPT !.n = v[n] \div 128, !.v = (v[n] \div 64) % 2]
         [] fn = "TSB" -> G45Write(tested, addr, <<v[1] | s.a>>, FALSE)
         [] fn = "TRB" -> G45Write(tested, addr, <<v[1] & (255 - s.a)>>, FALSE)
         [] fn = "RMB" -> G45Write(s, addr, <<v[1] & (255 - bit)>>, FALSE)
         [] fn = "SMB" -> G45Write(s, addr, <<v[1] | bit>>, FALSE)
         [] fn \in {"BBR", "BBS"} ->
              IF ((v[1] & bit) # 0) = (fn = "BBS")
              THEN [s EXCEPT !.pc = G45Wrap(@ + G45Signed(G45Byte(s, G45Wrap(s.pc + 65535))) + 65536)] ELSE s

\* Transfers, flags, pushes and pulls.  TAB sets no flags.
G45Register(s, fn) ==
    LET to(t, v) == G45NZ(t, <<v>>)
        popped == G45Pop(s)
        v == G45Top(s)
        inc(r) == (r + 1) % 256
        dec(r) == (r + 255) % 256
    IN CASE fn = "CLE" -> [s EXCEPT !.e = 0] [] fn = "SEE" -> [s EXCEPT !.e = 1]
         [] fn = "CLC" -> [s EXCEPT !.c = 0] [] fn = "SEC" -> [s EXCEPT !.c = 1]
         [] fn = "CLI" -> [s EXCEPT !.i = 0] [] fn = "SEI" -> [s EXCEPT !.i = 1]
         [] fn = "CLD" -> [s EXCEPT !.d = 0] [] fn = "SED" -> [s EXCEPT !.d = 1]
         [] fn = "CLV" -> [s EXCEPT !.v = 0] [] fn = "EOM" -> [s EXCEPT !.inhibit = FALSE]
         [] fn = "TSY" -> to([s EXCEPT !.y = s.sp \div 256], s.sp \div 256)
         [] fn = "TYS" -> [s EXCEPT !.sp = 256 * s.y + (s.sp % 256)]
         [] fn = "TSX" -> to([s EXCEPT !.x = s.sp % 256], s.sp % 256)
         [] fn = "TXS" -> [s EXCEPT !.sp = @ - (@ % 256) + s.x]
         [] fn = "TAX" -> to([s EXCEPT !.x = s.a], s.a) [] fn = "TXA" -> to([s EXCEPT !.a = s.x], s.x)
         [] fn = "TAY" -> to([s EXCEPT !.y = s.a], s.a) [] fn = "TYA" -> to([s EXCEPT !.a = s.y], s.y)
         [] fn = "TAZ" -> to([s EXCEPT !.z = s.a], s.a) [] fn = "TZA" -> to([s EXCEPT !.a = s.z], s.z)
         [] fn = "TAB" -> [s EXCEPT !.b = s.a] [] fn = "TBA" -> to([s EXCEPT !.a = s.b], s.b)
         [] fn = "INX" -> to([s EXCEPT !.x = inc(@)], inc(s.x)) [] fn = "DEX" -> to([s EXCEPT !.x = dec(@)], dec(s.x))
         [] fn = "INY" -> to([s EXCEPT !.y = inc(@)], inc(s.y)) [] fn = "DEY" -> to([s EXCEPT !.y = dec(@)], dec(s.y))
         [] fn = "INZ" -> to([s EXCEPT !.z = inc(@)], inc(s.z)) [] fn = "DEZ" -> to([s EXCEPT !.z = dec(@)], dec(s.z))
         [] fn = "PHA" -> G45Push(s, s.a) [] fn = "PLA" -> to([popped EXCEPT !.a = v], v)
         [] fn = "PHX" -> G45Push(s, s.x) [] fn = "PLX" -> to([popped EXCEPT !.x = v], v)
         [] fn = "PHY" -> G45Push(s, s.y) [] fn = "PLY" -> to([popped EXCEPT !.y = v], v)
         [] fn = "PHZ" -> G45Push(s, s.z) [] fn = "PLZ" -> to([popped EXCEPT !.z = v], v)
         [] fn = "PHP" -> G45Push(s, G45P(s, 1, 1)) [] fn = "PLP" -> G45SetP(popped, v)

\* MAP: X = $0F or Z = $0F selects a megabyte, any other value an offset and the
\* blocks it applies to; the hypervisor's upper half is not its own to move.
G45MapOf(map, a, x, y, z, hyper) ==
    LET low == IF x = 15 THEN [map EXCEPT !.mbLow = a]
               ELSE [map EXCEPT !.low = 256 * (x % 16) + a, !.enables = 16 * (@ \div 16) + x \div 16]
    IN  CASE z = 15 -> [low EXCEPT !.mbHigh = y]
          [] z # 15 /\ ~hyper -> [low EXCEPT !.high = 256 * (z % 16) + y, !.enables = (@ % 16) + 16 * (z \div 16)]
          [] OTHER -> low

G45Taken(s, fn) ==
    CASE fn = "BCC" -> s.c = 0 [] fn = "BCS" -> s.c = 1 [] fn = "BNE" -> s.zf = 0 [] fn = "BEQ" -> s.zf = 1
      [] fn = "BPL" -> s.n = 0 [] fn = "BMI" -> s.n = 1 [] fn = "BVC" -> s.v = 0 [] fn = "BVS" -> s.v = 1
      [] fn = "BRA" -> TRUE

\* Faulty: the next instruction's own address.
G45ReturnNext(s) == s.pc
\* JSR and BSR push the address of their last byte.
G45Return(s) == G45Wrap(s.pc + 65535)

\* Jumps, calls, returns, branches and PHW; s.pc is behind the operand.
G45Control(s, fn, mode, addr) ==
    LET back == G45Wrap(s.pc + 65535)
        far == G45Wrap(back + G45Word(s, addr))
        near == G45Wrap(s.pc + G45Signed(G45Byte(s, back)) + 65536)
        pulled == G45Pop16(s)
    IN CASE fn = "JMP" -> [s EXCEPT !.pc = addr]
         [] fn = "JSR" -> [G45Push16(s, G45Return(s)) EXCEPT !.pc = addr]
         [] fn = "BSR" -> [G45Push16(s, G45Return(s)) EXCEPT !.pc = far]
         [] fn = "RTS" -> [pulled EXCEPT !.pc = G45Wrap(G45Top16(s) + 1)]
         [] fn = "RTN" -> [pulled EXCEPT !.pc = G45Wrap(G45Top16(s) + 1), !.sp = G45Wrap(@ + G45Byte(s, addr))]
         [] fn = "RTI" -> LET t == G45SetP(G45Pop(s), G45Top(s)) IN [G45Pop16(t) EXCEPT !.pc = G45Top16(t)]
         [] fn = "BRK" -> LET t == G45Push(G45Push16(s, G45Wrap(s.pc + 1)), G45P(s, 1, s.e))
                          IN  [t EXCEPT !.i = 1, !.d = 0, !.pc = G45Word(t, 65534)]
         [] fn = "PHW" -> G45Push(G45Push(s, G45Byte(s, addr)), G45Byte(s, G45Wrap(addr + 1)))
         [] OTHER -> IF ~G45Taken(s, fn) THEN s ELSE [s EXCEPT !.pc = IF mode = "RELW" THEN far ELSE near]

G45FlowFns == {r[2] : r \in G45Flow}
G45RegisterFns == {r[2] : r \in G45Implied} \ {"MAP"}

\* step(), without interrupts: prefixes (two NEGs leave A as it was and set N and
\* Z from it), operand, operation.
G45Operate(t, fn, mode, addr, p) ==
    LET n == CASE p.quad /\ G45HasQuad(fn, mode) -> 4 [] fn \in {"INW", "DEW", "ASW", "ROW"} -> 2 [] OTHER -> 1
    IN  CASE fn \in G45FlowFns -> G45Control(t, fn, mode, addr)
          [] fn \in G45RegisterFns -> G45Register(t, fn)
          [] fn = "MAP" -> [t EXCEPT !.map = G45MapOf(t.map, t.a, t.x, t.y, t.z, FALSE), !.inhibit = TRUE]
          [] fn \in G45Modifiers -> G45Modify(t, fn, mode, addr, n)
          [] fn \in {"BIT", "TSB", "TRB", "RMB", "SMB", "BBR", "BBS"} -> G45BitOps(t, fn, addr, n, p.op)
          [] OTHER -> G45Memory(t, fn, addr, n, p.flat /\ mode = "INDZ")
G45Located(f, fn, mode, p, o) == G45Operate([f EXCEPT !.pc = o.pc], fn, mode, o.addr, p)
G45Decoded(f, fn, mode, p) == G45Located(f, fn, mode, p, G45Operand(f, mode, ~p.quad \/ fn = "LDA", p.flat))
G45Fetched(s, p, row) == G45Decoded([(IF p.quad THEN G45NZ(s, <<s.a>>) ELSE s) EXCEPT !.pc = p.pc], row[2], row[3], p)
G45Prefixed(s, p) == G45Fetched(s, p, G45Table[p.op])
G45Step(s) == G45Prefixed(s, G45Scan(s))
-----------------------------------------------------------------------------
(***************************************************************************)
(* What the debugger is told                                               *)
(***************************************************************************)
\* disassembleOne, the one-byte and the three-byte instructions.
G45OneByte ==
    {0, 2, 3, 8, 10, 11, 24, 26, 27, 40, 42, 43, 56, 58, 59, 64, 66, 67, 72, 74, 75, 88, 90, 91, 92, 96, 104,
     106, 107, 120, 122, 123, 136, 138, 152, 154, 168, 170, 184, 186, 200, 202, 216, 218, 219, 232, 234, 248, 250, 251}
G45ThreeByte ==
    ({op \in 0 .. 255 : op % 16 \in 12 .. 15 \/ (op % 32) \in {19, 25}} \ {92})
    \cup {32, 34, 35, 99, 131, 139, 155, 171, 187, 203, 235, 244}
G45Length(op) == CASE op \in G45OneByte -> 1 [] op \in G45ThreeByte -> 3 [] OTHER -> 2

\* Faulty: one loop for both.
G45SkippedAll(s, imm) ==
    LET negs == G45Negs(s, {}) IN 2 * negs + G45Bool(G45Flat(s, negs))

\* The loop over the prefixes in disassembleOne (before an immediate, NEG NEG is
\* none) and in prefixBytes45 (there it is one): how many bytes they skip.
G45Skipped(s, imm) ==
    LET negs == G45Negs(s, IF imm THEN {} ELSE G45QuadImmediates) IN 2 * negs + G45Bool(G45Flat(s, negs))

\* Faulty: knows the 6502's own pushes and pulls only.
G45StackOpShort(op) == CASE op = 0 -> "brk" [] op \in {72, 8} -> "push" [] op \in {104, 40} -> "pull" [] OTHER -> "none"
\* stackOp45
G45StackOp(op) ==
    CASE op = 0 -> "brk" [] op \in {72, 218, 90, 219, 8} -> "push"
      [] op \in {104, 250, 122, 251, 40} -> "pull" [] OTHER -> "none"

\* classify45
G45Classify(op) ==
    [isCall |-> op \in {32, 99, 34, 35}, isReturn |-> op \in {96, 64, 98},
     isBranch |-> op \in {128, 131} \/ op % 32 \in {16, 19} \/ op % 16 = 15, stackOp |-> G45StackOp(op)]

\* decodeEntry: without prefixes its own table, with them disassembleEntry.
G45Entry(s, pre, op, told) ==
    LET b(k) == G45Byte(s, G45Wrap(s.pc + pre + k))
        next == s.pc + pre + G45Length(op)
        target == CASE op % 16 = 15 \/ op % 32 = 16 \/ op = 128 -> G45Wrap(next + G45Signed(b(G45Length(op) - 1)) + 65536)
                    [] op % 32 = 19 \/ op \in {131, 99} -> G45Wrap(next + b(1) + 256 * b(2))
                    [] op \in {32, 34, 35, 76, 108} -> b(1) + 256 * b(2)
                    [] OTHER -> 0
    IN  G45Classify(told) @@ [op |-> op, bytes |-> pre + G45Length(op), target |-> target]
G45EntryAt(s, pre, all) == G45Entry(s, pre, G45Byte(s, G45Wrap(s.pc + pre)), G45Byte(s, G45Wrap(s.pc + all)))
G45Decode(s) == G45EntryAt(s, G45Skipped(s, FALSE), G45Skipped(s, TRUE))

\* isCallAt: what "next" asks before it steps over.
G45IsCallAt(s) == G45Byte(s, s.pc) \in {32, 34, 35}
-----------------------------------------------------------------------------
G45Zeros ==
    [a |-> 0, x |-> 0, y |-> 0, z |-> 0, b |-> 0, sp |-> 511, pc |-> 8192, n |-> 0, v |-> 0, e |-> 1, d |-> 0,
     i |-> 1, zf |-> 0, c |-> 0, inhibit |-> FALSE, peek |-> FALSE, m |-> <<>>,
     map |-> [low |-> 0, high |-> 0, enables |-> 0, mbLow |-> 0, mbHigh |-> 0]]

G45Init == g45 = G45Zeros /\ g45Ran = <<>>

\* A program has put registers and an instruction in place; it runs.
G45Run(regs, bytes) ==
    \E s \in {[regs EXCEPT !.m = [a \in {G45Wrap(regs.pc + k) : k \in 0 .. Len(bytes) - 1} |->
                                    bytes[((a - regs.pc + 65536) % 65536) + 1]] @@ @]} :
        g45' = G45Step(s) /\ g45Ran' = Append(g45Ran, s)

G45Prefixes == {<<>>, <<66, 66>>, <<234>>, <<66, 66, 234>>, <<66, 66, 66, 66>>}

G45AnyInstruction ==
    /\ g45Ran = <<>>
    /\ \E pre \in G45Prefixes, op \in 0 .. 255, low, r \in G45Operands, e \in 0 .. 1, peek \in BOOLEAN :
          /\ peek => pre = <<66, 66>>
          /\ G45Run([G45Zeros EXCEPT !.peek = peek, !.a = low, !.x = r, !.y = r, !.z = low, !.b = r, !.e = e,
                                     !.sp = 256 * low + r],
                    pre \o <<op, low, r>>)

G45Decimal ==
    /\ g45Ran = <<>>
    /\ \E op \in {105, 233}, a, m \in G45Bcd, c \in 0 .. 1 :
          G45Run([G45Zeros EXCEPT !.a = a, !.c = c, !.d = 1], <<op, m>>)

\* ADCQ $1000 and SBCQ $1000 on chosen values; the same memory is then taken
\* away, or added, again.
G45Quad ==
    \E q, v \in [1 .. 4 -> G45QuadBytes], c \in 0 .. 1, op \in {109, 237} :
        /\ g45Ran = <<>>
        /\ G45Run([G45SetQ(G45Zeros, q) EXCEPT !.c = c, !.m = [a \in 4096 .. 4099 |-> v[a - 4095]]], <<66, 66, op, 0, 16>>)
G45QuadBack ==
    /\ Len(g45Ran) = 1 /\ G45Byte(g45Ran[1], 8192) = 66 /\ G45Byte(g45Ran[1], 8194) \in {109, 237}
    /\ DOMAIN g45Ran[1].m \cap (4096 .. 4099) # {}
    /\ G45Run([g45 EXCEPT !.c = 1 - g45Ran[1].c, !.pc = 8192],
              <<66, 66, IF G45Byte(g45Ran[1], 8194) = 109 THEN 237 ELSE 109, 0, 16>>)

\* The routine called returns: RTS, or RTN with so many bytes of arguments.
G45Returns ==
    /\ Len(g45Ran) = 1 /\ ~g45.peek /\ G45Decode(g45Ran[1]).isCall
    /\ {g45.pc, G45Wrap(g45.pc + 1)} \cap {G45Up(g45), G45Up(G45Pop(g45))} = {}
    /\ \E ret \in {<<96>>, <<98, 0>>} : G45Run(g45, ret)

G45Again == g45Ran # <<>> /\ g45' = G45Zeros /\ g45Ran' = <<>>

G45Next == G45AnyInstruction \/ G45Decimal \/ G45Quad \/ G45QuadBack \/ G45Returns \/ G45Again

G45Spec == G45Init /\ [][G45Next]_g45Vars
-----------------------------------------------------------------------------
\* One instruction, in the default prefix mode: the decoder knows no other.
G45One == Len(g45Ran) = 1 /\ ~g45.peek

(***************************************************************************)
(* The decoder tells the truth about where an instruction ends and goes,   *)
(* prefixes included: control leaves straight-line order only at a branch  *)
(* or direct call (8-bit branches and JSR to the target told), an indirect *)
(* call, a return, JMP or BRK.  (16-bit branches go elsewhere than told:   *)
(* G45TargetsTold.)                                                        *)
(***************************************************************************)
G45DecodeAgrees ==
    G45One =>
        \E d \in {G45Decode(g45Ran[1])} :
        LET next == G45Wrap(g45Ran[1].pc + d.bytes)
        IN  CASE d.op % 32 = 19 \/ d.op = 131 -> d.isBranch
              [] d.op = 99 -> d.isCall
              [] d.isBranch /\ d.op % 32 # 19 /\ d.op # 131 -> g45.pc \in {next, d.target}
              [] d.op \in {32, 76} -> g45.pc = d.target
              [] d.isReturn \/ d.op \in {0, 34, 35, 108, 124} -> TRUE
              [] OTHER -> g45.pc = next

(***************************************************************************)
(* A branch that is taken goes where decodeEntry and the disassembler say  *)
(* (targetAddr).                                                           *)
(***************************************************************************)
G45TargetsTold ==
    G45One =>
        \E d \in {G45Decode(g45Ran[1])} :
            (d.isBranch \/ d.op = 99) => g45.pc \in {G45Wrap(g45Ran[1].pc + d.bytes), d.target}

(***************************************************************************)
(* The debugger's shadow stack can follow the CPU's in both stack modes:   *)
(* the stack pointer moves as isCall, isReturn and stackOp say, else only  *)
(* when TXS or TYS loads it or PHW pushes a word, and with E set it never  *)
(* leaves its page except by RTN.                                          *)
(***************************************************************************)
G45StackAgrees ==
    G45One =>
        \E s \in {g45Ran[1]}, d \in {G45Decode(g45Ran[1])} :
        LET fn == G45Table[d.op][2]
            moved == IF s.e = 1 THEN (g45.sp - s.sp + 256) % 256 ELSE (g45.sp - s.sp + 65536) % 65536
            down(n) == (IF s.e = 1 THEN 256 ELSE 65536) - n
        IN  /\ s.e = 1 /\ fn \notin {"TYS", "RTN"} => g45.sp \div 256 = s.sp \div 256
            /\ CASE fn \in {"TXS", "TYS", "RTN"} -> TRUE
                 [] fn = "PHW" -> moved = down(2)
                 [] d.isCall -> moved = down(2)
                 [] d.isReturn /\ fn # "RTN" -> moved = IF fn = "RTI" THEN 3 ELSE 2
                 [] d.stackOp = "brk" -> moved = down(3)
                 [] d.stackOp = "push" -> moved = down(1)
                 [] d.stackOp = "pull" -> moved = 1
                 [] OTHER -> moved = 0

(***************************************************************************)
(* Decimal arithmetic on valid digits adds and subtracts decimal numbers   *)
(* with carry and borrow (doAdc8, doSbc8).                                 *)
(***************************************************************************)
G45DecimalRight ==
    (G45One /\ g45Ran[1].d = 1) =>
        LET s == g45Ran[1]
            value(b) == 10 * (b \div 16) + (b % 16)
            m == G45Byte(s, s.pc + 1)
            sum == IF G45Byte(s, s.pc) = 105 THEN value(s.a) + value(m) + s.c
                   ELSE value(s.a) - value(m) - (1 - s.c) + 100
        IN  value(g45.a) = sum % 100 /\ g45.a % 16 < 10 /\ g45.c = sum \div 100

(***************************************************************************)
(* ADCQ adds the four registers as one number, every carry between them    *)
(* included, and what it adds SBCQ takes away again, and the other way     *)
(* round (doAdc32, doSbc32).                                               *)
(***************************************************************************)
G45QuadRight ==
    LET s == g45Ran[1]
        m == G45Read(s, 4096, 4, FALSE)
        low(v) == v[1] + 256 * v[2]
        high(v) == v[3] + 256 * v[4]
        carry == (low(G45Q(s)) + low(m) + s.c) \div 65536
    IN  /\ (G45One /\ G45Byte(s, 8194) = 109 /\ 4096 \in DOMAIN s.m) =>
             /\ low(G45Q(g45)) = (low(G45Q(s)) + low(m) + s.c) % 65536
             /\ high(G45Q(g45)) + 65536 * g45.c = high(G45Q(s)) + high(m) + carry
        /\ (Len(g45Ran) = 2 /\ ~G45Decode(s).isCall) => G45Q(g45) = G45Q(s)

(***************************************************************************)
(* A routine called by any of the four call instructions returns behind    *)
(* the call with the stack pointer it was called with, in both stack modes,*)
(* through RTS or RTN #0.                                                  *)
(***************************************************************************)
G45CallReturns ==
    (Len(g45Ran) = 2 /\ G45Decode(g45Ran[1]).isCall) =>
        /\ g45.sp = g45Ran[1].sp
        /\ g45.pc = G45Wrap(g45Ran[1].pc + G45Decode(g45Ran[1]).bytes)

(***************************************************************************)
(* The same of the 45GS02, with its prefixes, its 32-bit registers and its *)
(* two stack modes.                                                        *)
(***************************************************************************)
G45Right ==
    /\ G45DecodeAgrees
    /\ G45StackAgrees
    /\ G45DecimalRight
    /\ G45QuadRight
    /\ G45CallReturns
=============================================================================
