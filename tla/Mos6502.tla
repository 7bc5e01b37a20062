------------------------------- MODULE Mos6502 -------------------------------
(***************************************************************************)
(* Instruction semantics of the 6502 and 65C02 cores                       *)
(* (plugins/6502/main/cpu6502.cpp, cpu6502_cmos.cpp), what their decoder   *)
(* tells the debugger about an instruction (decodeEntry), and the          *)
(* disassembler and mini-assembler that print and read it.                 *)
(*                                                                         *)
(* A behaviour executes one instruction with chosen operands and registers *)
(* and, after a call, the matching return.  Interrupts, halts and          *)
(* observers are in Interrupts6502; cycles are left out.                   *)
(***************************************************************************)
EXTENDS Integers, Sequences, Bitwise, FiniteSets, TLC

-----------------------------------------------------------------------------
(***************************************************************************)
(* The opcode tables of the 6502 and 65C02 cores                           *)
(* (plugins/6502/main/cpu6502.cpp, cpu6502_cmos.cpp) and the mnemonics the *)
(* mini-assembler knows (assembler_6502.cpp).  Cycle counts are left out.  *)
(***************************************************************************)

\* s_opcodes: handler and addressing mode of each NMOS opcode.
MosOps ==
  <<<<"BRK", "IMP">>, <<"ORA", "BPXIND">>, <<"KIL", "IMP">>, <<"SLO", "BPXIND">>, <<"NOP", "BP">>,
    <<"ORA", "BP">>, <<"ASL", "BP">>, <<"SLO", "BP">>, <<"PHP", "IMP">>, <<"ORA", "IMM">>,
    <<"ASL", "ACC">>, <<"ANC", "IMM">>, <<"NOP", "ABS">>, <<"ORA", "ABS">>, <<"ASL", "ABS">>,
    <<"SLO", "ABS">>, <<"BPL", "REL">>, <<"ORA", "INDBPY">>, <<"KIL", "IMP">>, <<"SLO", "INDBPY">>,
    <<"NOP", "BPX">>, <<"ORA", "BPX">>, <<"ASL", "BPX">>, <<"SLO", "BPX">>, <<"CLC", "IMP">>,
    <<"ORA", "ABSY">>, <<"NOP", "IMP">>, <<"SLO", "ABSY">>, <<"NOP", "ABSX">>, <<"ORA", "ABSX">>,
    <<"ASL", "ABSX">>, <<"SLO", "ABSX">>, <<"JSR", "ABS">>, <<"AND", "BPXIND">>, <<"KIL", "IMP">>,
    <<"RLA", "BPXIND">>, <<"BIT", "BP">>, <<"AND", "BP">>, <<"ROL", "BP">>, <<"RLA", "BP">>,
    <<"PLP", "IMP">>, <<"AND", "IMM">>, <<"ROL", "ACC">>, <<"ANC", "IMM">>, <<"BIT", "ABS">>,
    <<"AND", "ABS">>, <<"ROL", "ABS">>, <<"RLA", "ABS">>, <<"BMI", "REL">>, <<"AND", "INDBPY">>,
    <<"KIL", "IMP">>, <<"RLA", "INDBPY">>, <<"NOP", "BPX">>, <<"AND", "BPX">>, <<"ROL", "BPX">>,
    <<"RLA", "BPX">>, <<"SEC", "IMP">>, <<"AND", "ABSY">>, <<"NOP", "IMP">>, <<"RLA", "ABSY">>,
    <<"NOP", "ABSX">>, <<"AND", "ABSX">>, <<"ROL", "ABSX">>, <<"RLA", "ABSX">>, <<"RTI", "IMP">>,
    <<"EOR", "BPXIND">>, <<"KIL", "IMP">>, <<"SRE", "BPXIND">>, <<"NOP", "BP">>, <<"EOR", "BP">>,
    <<"LSR", "BP">>, <<"SRE", "BP">>, <<"PHA", "IMP">>, <<"EOR", "IMM">>, <<"LSR", "ACC">>,
    <<"ALR", "IMM">>, <<"JMP", "ABS">>, <<"EOR", "ABS">>, <<"LSR", "ABS">>, <<"SRE", "ABS">>,
    <<"BVC", "REL">>, <<"EOR", "INDBPY">>, <<"KIL", "IMP">>, <<"SRE", "INDBPY">>, <<"NOP", "BPX">>,
    <<"EOR", "BPX">>, <<"LSR", "BPX">>, <<"SRE", "BPX">>, <<"CLI", "IMP">>, <<"EOR", "ABSY">>,
    <<"NOP", "IMP">>, <<"SRE", "ABSY">>, <<"NOP", "ABSX">>, <<"EOR", "ABSX">>, <<"LSR", "ABSX">>,
    <<"SRE", "ABSX">>, <<"RTS", "IMP">>, <<"ADC", "BPXIND">>, <<"KIL", "IMP">>,
    <<"RRA", "BPXIND">>, <<"NOP", "BP">>, <<"ADC", "BP">>, <<"ROR", "BP">>, <<"RRA", "BP">>,
    <<"PLA", "IMP">>, <<"ADC", "IMM">>, <<"ROR", "ACC">>, <<"ARR", "IMM">>, <<"JMP", "IND">>,
    <<"ADC", "ABS">>, <<"ROR", "ABS">>, <<"RRA", "ABS">>, <<"BVS", "REL">>, <<"ADC", "INDBPY">>,
    <<"KIL", "IMP">>, <<"RRA", "INDBPY">>, <<"NOP", "BPX">>, <<"ADC", "BPX">>, <<"ROR", "BPX">>,
    <<"RRA", "BPX">>, <<"SEI", "IMP">>, <<"ADC", "ABSY">>, <<"NOP", "IMP">>, <<"RRA", "ABSY">>,
    <<"NOP", "ABSX">>, <<"ADC", "ABSX">>, <<"ROR", "ABSX">>, <<"RRA", "ABSX">>, <<"NOP", "IMM">>,
    <<"STA", "BPXIND">>, <<"NOP", "IMM">>, <<"SAX", "BPXIND">>, <<"STY", "BP">>, <<"STA", "BP">>,
    <<"STX", "BP">>, <<"SAX", "BP">>, <<"DEY", "IMP">>, <<"NOP", "IMM">>, <<"TXA", "IMP">>,
    <<"XAA", "IMM">>, <<"STY", "ABS">>, <<"STA", "ABS">>, <<"STX", "ABS">>, <<"SAX", "ABS">>,
    <<"BCC", "REL">>, <<"STA", "INDBPY">>, <<"KIL", "IMP">>, <<"AHX", "INDBPY">>, <<"STY", "BPX">>,
    <<"STA", "BPX">>, <<"STX", "BPY">>, <<"SAX", "BPY">>, <<"TYA", "IMP">>, <<"STA", "ABSY">>,
    <<"TXS", "IMP">>, <<"TAS", "ABSY">>, <<"SHY", "ABSX">>, <<"STA", "ABSX">>, <<"SHX", "ABSY">>,
    <<"AHX", "ABSY">>, <<"LDY", "IMM">>, <<"LDA", "BPXIND">>, <<"LDX", "IMM">>,
    <<"LAX", "BPXIND">>, <<"LDY", "BP">>, <<"LDA", "BP">>, <<"LDX", "BP">>, <<"LAX", "BP">>,
    <<"TAY", "IMP">>, <<"LDA", "IMM">>, <<"TAX", "IMP">>, <<"LXA", "IMM">>, <<"LDY", "ABS">>,
    <<"LDA", "ABS">>, <<"LDX", "ABS">>, <<"LAX", "ABS">>, <<"BCS", "REL">>, <<"LDA", "INDBPY">>,
    <<"KIL", "IMP">>, <<"LAX", "INDBPY">>, <<"LDY", "BPX">>, <<"LDA", "BPX">>, <<"LDX", "BPY">>,
    <<"LAX", "BPY">>, <<"CLV", "IMP">>, <<"LDA", "ABSY">>, <<"TSX", "IMP">>, <<"LAS", "ABSY">>,
    <<"LDY", "ABSX">>, <<"LDA", "ABSX">>, <<"LDX", "ABSY">>, <<"LAX", "ABSY">>, <<"CPY", "IMM">>,
    <<"CMP", "BPXIND">>, <<"NOP", "IMM">>, <<"DCP", "BPXIND">>, <<"CPY", "BP">>, <<"CMP", "BP">>,
    <<"DEC", "BP">>, <<"DCP", "BP">>, <<"INY", "IMP">>, <<"CMP", "IMM">>, <<"DEX", "IMP">>,
    <<"AXS", "IMM">>, <<"CPY", "ABS">>, <<"CMP", "ABS">>, <<"DEC", "ABS">>, <<"DCP", "ABS">>,
    <<"BNE", "REL">>, <<"CMP", "INDBPY">>, <<"KIL", "IMP">>, <<"DCP", "INDBPY">>, <<"NOP", "BPX">>,
    <<"CMP", "BPX">>, <<"DEC", "BPX">>, <<"DCP", "BPX">>, <<"CLD", "IMP">>, <<"CMP", "ABSY">>,
    <<"NOP", "IMP">>, <<"DCP", "ABSY">>, <<"NOP", "ABSX">>, <<"CMP", "ABSX">>, <<"DEC", "ABSX">>,
    <<"DCP", "ABSX">>, <<"CPX", "IMM">>, <<"SBC", "BPXIND">>, <<"NOP", "IMM">>,
    <<"ISC", "BPXIND">>, <<"CPX", "BP">>, <<"SBC", "BP">>, <<"INC", "BP">>, <<"ISC", "BP">>,
    <<"INX", "IMP">>, <<"SBC", "IMM">>, <<"NOP", "IMP">>, <<"SBC", "IMM">>, <<"CPX", "ABS">>,
    <<"SBC", "ABS">>, <<"INC", "ABS">>, <<"ISC", "ABS">>, <<"BEQ", "REL">>, <<"SBC", "INDBPY">>,
    <<"KIL", "IMP">>, <<"ISC", "INDBPY">>, <<"NOP", "BPX">>, <<"SBC", "BPX">>, <<"INC", "BPX">>,
    <<"ISC", "BPX">>, <<"SED", "IMP">>, <<"SBC", "ABSY">>, <<"NOP", "IMP">>, <<"ISC", "ABSY">>,
    <<"NOP", "ABSX">>, <<"SBC", "ABSX">>, <<"INC", "ABSX">>, <<"ISC", "ABSX">>>>

\* s_opcodes65c02, $00 to $7F.
MosCmosOps0 ==
  <<<<"BRK", "IMP">>, <<"ORA", "BPXIND">>, <<"NOP", "IMM">>, <<"NOP", "IMP">>, <<"TSB", "BP">>,
    <<"ORA", "BP">>, <<"ASL", "BP">>, <<"RMB", "BP">>, <<"PHP", "IMP">>, <<"ORA", "IMM">>,
    <<"ASL", "ACC">>, <<"NOP", "IMP">>, <<"TSB", "ABS">>, <<"ORA", "ABS">>, <<"ASL", "ABS">>,
    <<"BBR", "BPREL">>, <<"BPL", "REL">>, <<"ORA", "INDBPY">>, <<"ORA", "BPIND">>,
    <<"NOP", "IMP">>, <<"TRB", "BP">>, <<"ORA", "BPX">>, <<"ASL", "BPX">>, <<"RMB", "BP">>,
    <<"CLC", "IMP">>, <<"ORA", "ABSY">>, <<"INCA", "ACC">>, <<"NOP", "IMP">>, <<"TRB", "ABS">>,
    <<"ORA", "ABSX">>, <<"ASL", "ABSX">>, <<"BBR", "BPREL">>, <<"JSR", "ABS">>,
    <<"AND", "BPXIND">>, <<"NOP", "IMM">>, <<"NOP", "IMP">>, <<"BIT", "BP">>, <<"AND", "BP">>,
    <<"ROL", "BP">>, <<"RMB", "BP">>, <<"PLP", "IMP">>, <<"AND", "IMM">>, <<"ROL", "ACC">>,
    <<"NOP", "IMP">>, <<"BIT", "ABS">>, <<"AND", "ABS">>, <<"ROL", "ABS">>, <<"BBR", "BPREL">>,
    <<"BMI", "REL">>, <<"AND", "INDBPY">>, <<"AND", "BPIND">>, <<"NOP", "IMP">>, <<"BIT", "BPX">>,
    <<"AND", "BPX">>, <<"ROL", "BPX">>, <<"RMB", "BP">>, <<"SEC", "IMP">>, <<"AND", "ABSY">>,
    <<"DECA", "ACC">>, <<"NOP", "IMP">>, <<"BIT", "ABSX">>, <<"AND", "ABSX">>, <<"ROL", "ABSX">>,
    <<"BBR", "BPREL">>, <<"RTI", "IMP">>, <<"EOR", "BPXIND">>, <<"NOP", "IMM">>, <<"NOP", "IMP">>,
    <<"NOP", "IMM">>, <<"EOR", "BP">>, <<"LSR", "BP">>, <<"RMB", "BP">>, <<"PHA", "IMP">>,
    <<"EOR", "IMM">>, <<"LSR", "ACC">>, <<"NOP", "IMP">>, <<"JMP", "ABS">>, <<"EOR", "ABS">>,
    <<"LSR", "ABS">>, <<"BBR", "BPREL">>, <<"BVC", "REL">>, <<"EOR", "INDBPY">>,
    <<"EOR", "BPIND">>, <<"NOP", "IMP">>, <<"NOP", "IMM">>, <<"EOR", "BPX">>, <<"LSR", "BPX">>,
    <<"RMB", "BP">>, <<"CLI", "IMP">>, <<"EOR", "ABSY">>, <<"PHY", "IMP">>, <<"NOP", "IMP">>,
    <<"NOP", "ABS">>, <<"EOR", "ABSX">>, <<"LSR", "ABSX">>, <<"BBR", "BPREL">>, <<"RTS", "IMP">>,
    <<"ADC", "BPXIND">>, <<"NOP", "IMM">>, <<"NOP", "IMP">>, <<"STZ", "BP">>, <<"ADC", "BP">>,
    <<"ROR", "BP">>, <<"RMB", "BP">>, <<"PLA", "IMP">>, <<"ADC", "IMM">>, <<"ROR", "ACC">>,
    <<"NOP", "IMP">>, <<"JMP", "IND">>, <<"ADC", "ABS">>, <<"ROR", "ABS">>, <<"BBR", "BPREL">>,
    <<"BVS", "REL">>, <<"ADC", "INDBPY">>, <<"ADC", "BPIND">>, <<"NOP", "IMP">>, <<"STZ", "BPX">>,
    <<"ADC", "BPX">>, <<"ROR", "BPX">>, <<"RMB", "BP">>, <<"SEI", "IMP">>, <<"ADC", "ABSY">>,
    <<"PLY", "IMP">>, <<"NOP", "IMP">>, <<"JMP", "ABSXIND">>, <<"ADC", "ABSX">>, <<"ROR", "ABSX">>,
    <<"BBR", "BPREL">>>>

\* s_opcodes65c02, $80 to $FF.
MosCmosOps8 ==
  <<<<"BRA", "REL">>, <<"STA", "BPXIND">>, <<"NOP", "IMM">>, <<"NOP", "IMP">>, <<"STY", "BP">>,
    <<"STA", "BP">>, <<"STX", "BP">>, <<"SMB", "BP">>, <<"DEY", "IMP">>, <<"BITI", "IMM">>,
    <<"TXA", "IMP">>, <<"NOP", "IMP">>, <<"STY", "ABS">>, <<"STA", "ABS">>, <<"STX", "ABS">>,
    <<"BBS", "BPREL">>, <<"BCC", "REL">>, <<"STA", "INDBPY">>, <<"STA", "BPIND">>,
    <<"NOP", "IMP">>, <<"STY", "BPX">>, <<"STA", "BPX">>, <<"STX", "BPY">>, <<"SMB", "BP">>,
    <<"TYA", "IMP">>, <<"STA", "ABSY">>, <<"TXS", "IMP">>, <<"NOP", "IMP">>, <<"STZ", "ABS">>,
    <<"STA", "ABSX">>, <<"STZ", "ABSX">>, <<"BBS", "BPREL">>, <<"LDY", "IMM">>,
    <<"LDA", "BPXIND">>, <<"LDX", "IMM">>, <<"NOP", "IMP">>, <<"LDY", "BP">>, <<"LDA", "BP">>,
    <<"LDX", "BP">>, <<"SMB", "BP">>, <<"TAY", "IMP">>, <<"LDA", "IMM">>, <<"TAX", "IMP">>,
    <<"NOP", "IMP">>, <<"LDY", "ABS">>, <<"LDA", "ABS">>, <<"LDX", "ABS">>, <<"BBS", "BPREL">>,
    <<"BCS", "REL">>, <<"LDA", "INDBPY">>, <<"LDA", "BPIND">>, <<"NOP", "IMP">>, <<"LDY", "BPX">>,
    <<"LDA", "BPX">>, <<"LDX", "BPY">>, <<"SMB", "BP">>, <<"CLV", "IMP">>, <<"LDA", "ABSY">>,
    <<"TSX", "IMP">>, <<"NOP", "IMP">>, <<"LDY", "ABSX">>, <<"LDA", "ABSX">>, <<"LDX", "ABSY">>,
    <<"BBS", "BPREL">>, <<"CPY", "IMM">>, <<"CMP", "BPXIND">>, <<"NOP", "IMM">>, <<"NOP", "IMP">>,
    <<"CPY", "BP">>, <<"CMP", "BP">>, <<"DEC", "BP">>, <<"SMB", "BP">>, <<"INY", "IMP">>,
    <<"CMP", "IMM">>, <<"DEX", "IMP">>, <<"WAI", "IMP">>, <<"CPY", "ABS">>, <<"CMP", "ABS">>,
    <<"DEC", "ABS">>, <<"BBS", "BPREL">>, <<"BNE", "REL">>, <<"CMP", "INDBPY">>,
    <<"CMP", "BPIND">>, <<"NOP", "IMP">>, <<"NOP", "IMM">>, <<"CMP", "BPX">>, <<"DEC", "BPX">>,
    <<"SMB", "BP">>, <<"CLD", "IMP">>, <<"CMP", "ABSY">>, <<"PHX", "IMP">>, <<"STP", "IMP">>,
    <<"NOP", "ABS">>, <<"CMP", "ABSX">>, <<"DEC", "ABSX">>, <<"BBS", "BPREL">>, <<"CPX", "IMM">>,
    <<"SBC", "BPXIND">>, <<"NOP", "IMM">>, <<"NOP", "IMP">>, <<"CPX", "BP">>, <<"SBC", "BP">>,
    <<"INC", "BP">>, <<"SMB", "BP">>, <<"INX", "IMP">>, <<"SBC", "IMM">>, <<"NOP", "IMP">>,
    <<"NOP", "IMP">>, <<"CPX", "ABS">>, <<"SBC", "ABS">>, <<"INC", "ABS">>, <<"BBS", "BPREL">>,
    <<"BEQ", "REL">>, <<"SBC", "INDBPY">>, <<"SBC", "BPIND">>, <<"NOP", "IMP">>, <<"NOP", "IMM">>,
    <<"SBC", "BPX">>, <<"INC", "BPX">>, <<"SMB", "BP">>, <<"SED", "IMP">>, <<"SBC", "ABSY">>,
    <<"PLX", "IMP">>, <<"NOP", "IMP">>, <<"NOP", "ABS">>, <<"SBC", "ABSX">>, <<"INC", "ABSX">>,
    <<"BBS", "BPREL">>>>

\* Handler and mode of an opcode; m_ops chooses the table.
MosOp(cmos, op) ==
    IF ~cmos THEN MosOps[op + 1]
    ELSE IF op < 128 THEN MosCmosOps0[op + 1] ELSE MosCmosOps8[op - 127]

\* Printed mnemonics: bit instructions carry their bit, some handlers share a name.
MosMnemonic(cmos, op) ==
    LET fn == MosOp(cmos, op)[1]
    IN  CASE fn \in {"RMB", "SMB", "BBR", "BBS"} -> <<fn, (op \div 16) % 8>>
          [] fn = "INCA" -> <<"INC", 0>>
          [] fn = "DECA" -> <<"DEC", 0>>
          [] fn = "BITI" -> <<"BIT", 0>>
          [] OTHER -> <<fn, 0>>
-----------------------------------------------------------------------------
(***************************************************************************)
(* The assembler's table: initTable and initCmos as a set of               *)
(* <<mnemonic, mode, opcode>>, modes named as in the CPU's table.          *)
(***************************************************************************)
AsmRow(mn, modes, ops) == {<<<<mn, 0>>, modes[i], ops[i]>> : i \in DOMAIN modes}

AsmStdModes == <<"BP", "BPX", "ABS", "ABSX", "ABSY", "BPXIND", "INDBPY", "IMM">>
AsmShiftModes == <<"BP", "BPX", "ABS", "ABSX", "ACC">>

\* addStd and addShift
AsmStd ==
    UNION {AsmRow("ADC", AsmStdModes, <<101, 117, 109, 125, 121, 97, 113, 105>>),
           AsmRow("AND", AsmStdModes, <<37, 53, 45, 61, 57, 33, 49, 41>>),
           AsmRow("CMP", AsmStdModes, <<197, 213, 205, 221, 217, 193, 209, 201>>),
           AsmRow("EOR", AsmStdModes, <<69, 85, 77, 93, 89, 65, 81, 73>>),
           AsmRow("LDA", AsmStdModes, <<165, 181, 173, 189, 185, 161, 177, 169>>),
           AsmRow("ORA", AsmStdModes, <<5, 21, 13, 29, 25, 1, 17, 9>>),
           AsmRow("SBC", AsmStdModes, <<229, 245, 237, 253, 249, 225, 241, 233>>),
           AsmRow("STA", SubSeq(AsmStdModes, 1, 7), <<133, 149, 141, 157, 153, 129, 145>>),
           AsmRow("ASL", AsmShiftModes, <<6, 22, 14, 30, 10>>),
           AsmRow("LSR", AsmShiftModes, <<70, 86, 78, 94, 74>>),
           AsmRow("ROL", AsmShiftModes, <<38, 54, 46, 62, 42>>),
           AsmRow("ROR", AsmShiftModes, <<102, 118, 110, 126, 106>>)}

\* The rest of initTable's official instructions.
AsmRest ==
    UNION {AsmRow("BIT", <<"BP", "ABS">>, <<36, 44>>),
           AsmRow("CPX", <<"IMM", "BP", "ABS">>, <<224, 228, 236>>),
           AsmRow("CPY", <<"IMM", "BP", "ABS">>, <<192, 196, 204>>),
           AsmRow("DEC", <<"BP", "BPX", "ABS", "ABSX">>, <<198, 214, 206, 222>>),
           AsmRow("INC", <<"BP", "BPX", "ABS", "ABSX">>, <<230, 246, 238, 254>>),
           AsmRow("LDX", <<"IMM", "BP", "BPY", "ABS", "ABSY">>, <<162, 166, 182, 174, 190>>),
           AsmRow("LDY", <<"IMM", "BP", "BPX", "ABS", "ABSX">>, <<160, 164, 180, 172, 188>>),
           AsmRow("STX", <<"BP", "BPY", "ABS">>, <<134, 150, 142>>),
           AsmRow("STY", <<"BP", "BPX", "ABS">>, <<132, 148, 140>>),
           AsmRow("JMP", <<"ABS", "IND">>, <<76, 108>>), AsmRow("JSR", <<"ABS">>, <<32>>),
           {<<<<b[1], 0>>, "REL", b[2]>> : b \in {<<"BCC", 144>>, <<"BCS", 176>>, <<"BEQ", 240>>,
             <<"BMI", 48>>, <<"BNE", 208>>, <<"BPL", 16>>, <<"BVC", 80>>, <<"BVS", 112>>}},
           {<<<<b[1], 0>>, "IMP", b[2]>> : b \in {<<"BRK", 0>>, <<"CLC", 24>>, <<"CLD", 216>>,
             <<"CLI", 88>>, <<"CLV", 184>>, <<"SEC", 56>>, <<"SED", 248>>, <<"SEI", 120>>,
             <<"DEX", 202>>, <<"DEY", 136>>, <<"INX", 232>>, <<"INY", 200>>, <<"TAX", 170>>,
             <<"TAY", 168>>, <<"TXA", 138>>, <<"TYA", 152>>, <<"TSX", 186>>, <<"TXS", 154>>,
             <<"PHA", 72>>, <<"PHP", 8>>, <<"PLA", 104>>, <<"PLP", 40>>, <<"RTI", 64>>,
             <<"RTS", 96>>, <<"NOP", 234>>}}}

\* NMOS only: the unofficial instructions it knows.
AsmIllegal ==
    LET all == <<"BP", "BPX", "ABS", "ABSX", "ABSY", "BPXIND", "INDBPY">>
    IN  UNION {AsmRow("SLO", all, <<7, 23, 15, 31, 27, 3, 19>>),
               AsmRow("RLA", all, <<39, 55, 47, 63, 59, 35, 51>>),
               AsmRow("SRE", all, <<71, 87, 79, 95, 91, 67, 83>>),
               AsmRow("RRA", all, <<103, 119, 111, 127, 123, 99, 115>>),
               AsmRow("DCP", all, <<199, 215, 207, 223, 219, 195, 211>>),
               AsmRow("ISC", all, <<231, 247, 239, 255, 251, 227, 243>>),
               AsmRow("SAX", <<"BP", "BPY", "ABS", "BPXIND">>, <<135, 151, 143, 131>>),
               AsmRow("LAX", <<"BP", "BPY", "ABS", "ABSY", "BPXIND", "INDBPY">>,
                             <<167, 183, 175, 191, 163, 179>>)}

\* initCmos: what the 65C02 adds.
AsmCmos ==
    UNION {{<<<<b[1], 0>>, "BPIND", b[2]>> : b \in {<<"ORA", 18>>, <<"AND", 50>>, <<"EOR", 82>>,
             <<"ADC", 114>>, <<"STA", 146>>, <<"LDA", 178>>, <<"CMP", 210>>, <<"SBC", 242>>}},
           AsmRow("BIT", <<"IMM", "BPX", "ABSX">>, <<137, 52, 60>>),
           AsmRow("INC", <<"ACC">>, <<26>>), AsmRow("DEC", <<"ACC">>, <<58>>),
           AsmRow("INA", <<"IMP">>, <<26>>), AsmRow("DEA", <<"IMP">>, <<58>>),
           AsmRow("JMP", <<"ABSXIND">>, <<124>>), AsmRow("BRA", <<"REL">>, <<128>>),
           AsmRow("STZ", <<"BP", "BPX", "ABS", "ABSX">>, <<100, 116, 156, 158>>),
           AsmRow("TSB", <<"BP", "ABS">>, <<4, 12>>), AsmRow("TRB", <<"BP", "ABS">>, <<20, 28>>),
           {<<<<b[1], 0>>, "IMP", b[2]>> : b \in {<<"PHY", 90>>, <<"PLY", 122>>, <<"PHX", 218>>,
             <<"PLX", 250>>, <<"WAI", 203>>, <<"STP", 219>>}},
           UNION {{<<<<"RMB", n>>, "BP", 7 + 16 * n>>, <<<<"SMB", n>>, "BP", 135 + 16 * n>>,
                   <<<<"BBR", n>>, "BPREL", 15 + 16 * n>>, <<<<"BBS", n>>, "BPREL", 143 + 16 * n>>}
                  : n \in 0 .. 7}}

\* Faulty: a plain 6502 table behind a 65C02.
AsmTableNmos(cmos) == AsmStd \cup AsmRest \cup AsmIllegal

AsmTable(cmos) == AsmStd \cup AsmRest \cup (IF cmos THEN AsmCmos ELSE AsmIllegal)

-----------------------------------------------------------------------------
CONSTANTS MosPcs,      \* addresses an instruction is executed at
          MosLows,     \* low operand bytes, also register values
          MosHighs,    \* high operand bytes
          MosDigits    \* operands of decimal arithmetic, valid BCD

ASSUME MosAssumption ==
    MosPcs \subseteq 0 .. 65535 /\ (MosLows \cup MosHighs \cup MosDigits) \subseteq 0 .. 255

VARIABLES mos,       \* m_state, with the memory it has written
          mosRan     \* history: the instruction executed, and the state before it

mosVars == <<mos, mosRan>>

MosWrap(a) == a % 65536
MosSigned(b) == IF b < 128 THEN b ELSE b - 256

\* Memory nobody has written holds something (external).
MosRead(s, a) == IF a \in DOMAIN s.m THEN s.m[a] ELSE (5 * a + 1) % 256
MosWrite(s, a, v) == [s EXCEPT !.m = (a :> v) @@ @]
MosWord(s, a, b) == MosRead(s, a) + 256 * MosRead(s, b)

MosPush(s, v) == [MosWrite(s, 256 + s.sp, v) EXCEPT !.sp = (@ + 255) % 256]
MosTop(s) == MosRead(s, 256 + ((s.sp + 1) % 256))
MosPop(s) == [s EXCEPT !.sp = (@ + 1) % 256]

MosNZ(s, v) == [s EXCEPT !.n = v \div 128, !.z = IF v = 0 THEN 1 ELSE 0]
MosBool(b) == IF b THEN 1 ELSE 0

\* The status byte as pushed; the unused bit is always set.
MosP(s, b) == 128 * s.n + 64 * s.v + 32 + 16 * b + 8 * s.d + 4 * s.i + 2 * s.z + s.c
MosSetP(s, p) ==
    [s EXCEPT !.n = p \div 128, !.v = (p \div 64) % 2, !.d = (p \div 8) % 2,
              !.i = (p \div 4) % 2, !.z = (p \div 2) % 2, !.c = p % 2]
-----------------------------------------------------------------------------
(***************************************************************************)
(* Addressing modes: the operand's address, the PC after it, and the target*)
(* of BBR and BBS.  ACC is the address $FFFF.                              *)
(***************************************************************************)
MosOperand(s, mode, cmos) ==
    LET b(k) == MosRead(s, MosWrap(s.pc + k))
        abs == b(0) + 256 * b(1)
        next == MosWrap(s.pc + 1)
        zp(a) == MosWord(s, a % 256, (a + 1) % 256)
        at(a, n) == [addr |-> MosWrap(a), pc |-> MosWrap(s.pc + n), target |-> 0]
    IN CASE mode = "IMP"     -> at(0, 0)
         [] mode = "ACC"     -> at(65535, 0)
         [] mode = "IMM"     -> at(s.pc, 1)
         [] mode = "BP"      -> at(b(0), 1)
         [] mode = "BPX"     -> at((b(0) + s.x) % 256, 1)
         [] mode = "BPY"     -> at((b(0) + s.y) % 256, 1)
         [] mode = "ABS"     -> at(abs, 2)
         [] mode = "ABSX"    -> at(abs + s.x, 2)
         [] mode = "ABSY"    -> at(abs + s.y, 2)
         [] mode = "IND"     -> at(MosWord(s, abs, IF cmos THEN MosWrap(abs + 1)
                                                   ELSE abs - (abs % 256) + ((abs + 1) % 256)), 2)
         [] mode = "BPXIND"  -> at(zp(b(0) + s.x), 1)
         [] mode = "INDBPY"  -> at(zp(b(0)) + s.y, 1)
         [] mode = "BPIND"   -> at(zp(b(0)), 1)
         [] mode = "ABSXIND" -> at(MosWord(s, MosWrap(abs + s.x), MosWrap(abs + s.x + 1)), 2)
         [] mode = "REL"     -> at(next + MosSigned(b(0)) + 65536, 1)
         [] mode = "BPREL"   -> [at(b(0), 2) EXCEPT !.target = MosWrap(s.pc + 2 + MosSigned(b(1)) + 65536)]
-----------------------------------------------------------------------------
(***************************************************************************)
(* Arithmetic                                                              *)
(***************************************************************************)
MosSignChange(a, b, r) == MosBool(a \div 128 = b \div 128 /\ (r \div 128) % 2 # a \div 128)

MosAddBinary(s, m) ==
    LET sum == s.a + m + s.c
    IN  MosNZ([s EXCEPT !.a = sum % 256, !.c = sum \div 256,
                        !.v = MosSignChange(s.a, m, sum)], sum % 256)

\* NMOS decimal: Z from the binary sum, N and V before the high digit is adjusted.
MosAddDecimal(s, m) ==
    LET low == (s.a % 16) + (m % 16) + s.c
        adj == IF low >= 10 THEN ((low + 6) % 16) + 16 ELSE low
        sum == (s.a - (s.a % 16)) + (m - (m % 16)) + adj
        all == IF sum >= 160 THEN sum + 96 ELSE sum
    IN  [s EXCEPT !.a = all % 256, !.c = MosBool(all >= 256), !.n = (sum \div 128) % 2,
                  !.v = MosSignChange(s.a, m, sum), !.z = MosBool((s.a + m + s.c) % 256 = 0)]

\* Faulty: the low digit's carry is left out of the high one.
MosAddDecimalCmosHalf(s, m) ==
    LET low == (s.a % 16) + (m % 16) + s.c
        high == (s.a - (s.a % 16)) + (m - (m % 16))
        res == ((IF low > 9 THEN low + 6 ELSE low) % 16) + ((IF high > 144 THEN high + 96 ELSE high) % 256)
    IN  MosNZ([s EXCEPT !.a = res, !.c = MosBool(high > 144)], res)

MosAddDecimalCmos(s, m) ==
    LET low == (s.a % 16) + (m % 16) + s.c
        high == (s.a - (s.a % 16)) + (m - (m % 16)) + (IF low > 9 THEN 16 ELSE 0)
        adj == (IF low > 9 THEN low + 6 ELSE low) % 16
        all == IF high > 144 THEN high + 96 ELSE high
        res == adj + ((all - (all % 16)) % 256)
    IN  MosNZ([s EXCEPT !.a = res, !.c = MosBool(all >= 256),
                        !.v = MosSignChange(s.a, m, adj + (high % 256))], res)

MosAdc(s, m, cmos) ==
    IF s.d = 0 THEN MosAddBinary(s, m)
    ELSE IF cmos THEN MosAddDecimalCmos(s, m) ELSE MosAddDecimal(s, m)

\* Subtraction: the binary sum's flags; in decimal mode the digits are adjusted,
\* and the 65C02 takes N and Z from that result.
MosSbc(s, m, cmos) ==
    LET bin == MosAddBinary(s, 255 - m)
        low == (s.a % 16) - (m % 16) + s.c - 1
        nmos == LET l == IF low < 0 THEN ((low - 6 + 32) % 16) - 16 ELSE low
                    r == (s.a - (s.a % 16)) - (m - (m % 16)) + l
                IN  (IF r < 0 THEN r - 96 ELSE r) + 512
        wdc == LET r == s.a - m + s.c - 1
               IN  (IF r < 0 THEN r - 96 ELSE r) - (IF low < 0 THEN 6 ELSE 0) + 512
    IN  IF s.d = 0 THEN bin
        ELSE IF cmos THEN MosNZ([bin EXCEPT !.a = wdc % 256], wdc % 256)
        ELSE [bin EXCEPT !.a = nmos % 256]

MosCompare(s, reg, m) == MosNZ([s EXCEPT !.c = MosBool(reg >= m)], (reg - m + 256) % 256)

\* ASL, LSR, ROL, ROR: the result and the bit shifted out.
MosShift(fn, v, c) ==
    CASE fn = "ASL" -> <<(2 * v) % 256, v \div 128>>
      [] fn = "ROL" -> <<((2 * v) % 256) + c, v \div 128>>
      [] fn = "LSR" -> <<v \div 2, v % 2>>
      [] fn = "ROR" -> <<v \div 2 + 128 * c, v % 2>>

\* The handlers take $FFFF for the accumulator, whatever the mode was.
MosShiftAt(s, fn, addr) ==
    LET v == IF addr = 65535 THEN s.a ELSE MosRead(s, addr)
        r == MosShift(fn, v, s.c)
        t == MosNZ([s EXCEPT !.c = r[2]], r[1])
    IN  IF addr = 65535 THEN [t EXCEPT !.a = r[1]] ELSE MosWrite(t, addr, r[1])

MosLoadA(s, v) == MosNZ([s EXCEPT !.a = v], v)
MosLoadAX(s, v) == MosNZ([s EXCEPT !.a = v, !.x = v], v)

\* ARR: AND, then ROR with flags of its own.
MosArr(s, m) ==
    LET t == s.a & m
        r == t \div 2 + 128 * s.c
        dec == LET l == IF (t % 16) + (t % 2) > 5 THEN (r - (r % 16)) + ((r + 6) % 16) ELSE r
               IN  IF (t - (t % 16)) + ((t - (t % 16)) % 32) > 80 THEN <<(l + 96) % 256, 1>> ELSE <<l, 0>>
    IN  IF s.d = 0
        THEN MosNZ([s EXCEPT !.a = r, !.c = (r \div 64) % 2,
                             !.v = (r \div 64 + r \div 32) % 2], r)
        ELSE [s EXCEPT !.n = s.c, !.z = MosBool(r = 0), !.v = (t \div 64 + r \div 64) % 2,
                       !.a = dec[1], !.c = dec[2]]

\* storeAndHigh: the value ANDed with the base's high byte plus one, which also
\* replaces the address's when the index crossed a page.
MosStoreAndHigh(s, addr, index, value) ==
    LET base == MosWrap(addr - index + 65536)
        v == value & ((base \div 256 + 1) % 256)
        to == IF base \div 256 # addr \div 256 THEN 256 * v + (addr % 256) ELSE addr
    IN  MosWrite(s, to, v)
-----------------------------------------------------------------------------
(***************************************************************************)
(* The handlers, by what they do                                           *)
(***************************************************************************)
MosBranches == {"BCC", "BCS", "BEQ", "BMI", "BNE", "BPL", "BVC", "BVS", "BRA"}
MosTaken(s, fn) ==
    CASE fn = "BCC" -> s.c = 0 [] fn = "BCS" -> s.c = 1 [] fn = "BNE" -> s.z = 0
      [] fn = "BEQ" -> s.z = 1 [] fn = "BPL" -> s.n = 0 [] fn = "BMI" -> s.n = 1
      [] fn = "BVC" -> s.v = 0 [] fn = "BVS" -> s.v = 1 [] fn = "BRA" -> TRUE

MosBit(op) == 2 ^ ((op \div 16) % 8)

\* Faulty: the next instruction's own address.
MosJsrPushes(s) == s.pc

\* JSR pushes the address of its last byte.
MosReturnAddress(s) == MosWrap(s.pc + 65535)

\* Jumps, calls, returns and branches.
MosControl(s, fn, o, op, cmos) ==
    LET pushed(a) == MosPush(MosPush(s, a \div 256), a % 256)
        return(t) == [MosPop(MosPop(t)) EXCEPT !.pc = MosTop(t) + 256 * MosTop(MosPop(t))]
        isSet == (MosRead(s, o.addr) & MosBit(op)) # 0
    IN CASE fn \in MosBranches -> IF MosTaken(s, fn) THEN [s EXCEPT !.pc = o.addr] ELSE s
         [] fn \in {"BBR", "BBS"} -> IF isSet = (fn = "BBS") THEN [s EXCEPT !.pc = o.target] ELSE s
         [] fn = "JMP" -> [s EXCEPT !.pc = o.addr]
         [] fn = "JSR" -> [pushed(MosReturnAddress(s)) EXCEPT !.pc = o.addr]
         [] fn = "RTS" -> LET t == return(s) IN [t EXCEPT !.pc = MosWrap(@ + 1)]
         [] fn = "RTI" -> return(MosSetP(MosPop(s), MosTop(s)))
         [] fn = "BRK" -> LET t == MosPush(pushed(MosWrap(s.pc + 1)), MosP(s, 1))
                          IN  [t EXCEPT !.i = 1, !.d = IF cmos THEN 0 ELSE @,
                                        !.pc = MosWord(t, 65534, 65535)]
MosControls == MosBranches \cup {"BBR", "BBS", "JMP", "JSR", "RTS", "RTI", "BRK"}

\* Pushes, pulls and transfers.
MosTransfer(s, fn) ==
    LET pull == MosPop(s)
        v == MosTop(s)
    IN CASE fn = "PHA" -> MosPush(s, s.a) [] fn = "PHX" -> MosPush(s, s.x)
         [] fn = "PHY" -> MosPush(s, s.y) [] fn = "PHP" -> MosPush(s, MosP(s, 1))
         [] fn = "PLA" -> MosLoadA(pull, v) [] fn = "PLX" -> MosNZ([pull EXCEPT !.x = v], v)
         [] fn = "PLY" -> MosNZ([pull EXCEPT !.y = v], v) [] fn = "PLP" -> MosSetP(pull, v)
         [] fn = "TAX" -> MosNZ([s EXCEPT !.x = s.a], s.a) [] fn = "TAY" -> MosNZ([s EXCEPT !.y = s.a], s.a)
         [] fn = "TXA" -> MosLoadA(s, s.x) [] fn = "TYA" -> MosLoadA(s, s.y)
         [] fn = "TSX" -> MosNZ([s EXCEPT !.x = s.sp], s.sp) [] fn = "TXS" -> [s EXCEPT !.sp = s.x]
         [] fn = "INX" -> MosNZ([s EXCEPT !.x = (@ + 1) % 256], (s.x + 1) % 256)
         [] fn = "DEX" -> MosNZ([s EXCEPT !.x = (@ + 255) % 256], (s.x + 255) % 256)
         [] fn = "INY" -> MosNZ([s EXCEPT !.y = (@ + 1) % 256], (s.y + 1) % 256)
         [] fn = "DEY" -> MosNZ([s EXCEPT !.y = (@ + 255) % 256], (s.y + 255) % 256)
         [] fn = "INCA" -> MosLoadA(s, (s.a + 1) % 256) [] fn = "DECA" -> MosLoadA(s, (s.a + 255) % 256)
         [] fn = "CLC" -> [s EXCEPT !.c = 0] [] fn = "SEC" -> [s EXCEPT !.c = 1]
         [] fn = "CLD" -> [s EXCEPT !.d = 0] [] fn = "SED" -> [s EXCEPT !.d = 1]
         [] fn = "CLI" -> [s EXCEPT !.i = 0] [] fn = "SEI" -> [s EXCEPT !.i = 1]
         [] fn = "CLV" -> [s EXCEPT !.v = 0]
         [] fn = "WAI" -> [s EXCEPT !.waiting = TRUE] [] fn = "STP" -> [s EXCEPT !.stopped = TRUE]
         [] fn \in {"NOP", "KIL"} -> s
MosTransfers ==
    {"PHA", "PHX", "PHY", "PHP", "PLA", "PLX", "PLY", "PLP", "TAX", "TAY", "TXA", "TYA", "TSX",
     "TXS", "INX", "DEX", "INY", "DEY", "INCA", "DECA", "CLC", "SEC", "CLD", "SED", "CLI", "SEI",
     "CLV", "WAI", "STP", "NOP", "KIL"}

\* Instructions with a memory operand, the unofficial ones by composition.
MosMemory(s, fn, addr, op, cmos) ==
    LET m == MosRead(s, addr)
        shifted(f) == MosShiftAt(s, f, addr)
        after(t) == MosRead(t, addr)
        stepped(n) == MosWrite(s, addr, (m + n) % 256)
    IN CASE fn = "LDA" -> MosLoadA(s, m) [] fn = "LDX" -> MosNZ([s EXCEPT !.x = m], m)
         [] fn = "LDY" -> MosNZ([s EXCEPT !.y = m], m) [] fn = "LAX" -> MosLoadAX(s, m)
         [] fn = "STA" -> MosWrite(s, addr, s.a) [] fn = "STX" -> MosWrite(s, addr, s.x)
         [] fn = "STY" -> MosWrite(s, addr, s.y) [] fn = "STZ" -> MosWrite(s, addr, 0)
         [] fn = "SAX" -> MosWrite(s, addr, s.a & s.x)
         [] fn = "AND" -> MosLoadA(s, s.a & m) [] fn = "ORA" -> MosLoadA(s, s.a | m)
         [] fn = "EOR" -> MosLoadA(s, s.a ^^ m)
         [] fn = "ADC" -> MosAdc(s, m, cmos) [] fn = "SBC" -> MosSbc(s, m, cmos)
         [] fn = "CMP" -> MosCompare(s, s.a, m) [] fn = "CPX" -> MosCompare(s, s.x, m)
         [] fn = "CPY" -> MosCompare(s, s.y, m)
         [] fn = "BIT" -> [s EXCEPT !.z = MosBool((s.a & m) = 0), !.v = (m \div 64) % 2, !.n = m \div 128]
         [] fn = "BITI" -> [s EXCEPT !.z = MosBool((s.a & m) = 0)]
         [] fn = "INC" -> MosNZ(stepped(1), (m + 1) % 256)
         [] fn = "DEC" -> MosNZ(stepped(255), (m + 255) % 256)
         [] fn \in {"ASL", "LSR", "ROL", "ROR"} -> shifted(fn)
         [] fn = "TSB" -> [MosWrite(s, addr, m | s.a) EXCEPT !.z = MosBool((s.a & m) = 0)]
         [] fn = "TRB" -> [MosWrite(s, addr, m & (255 - s.a)) EXCEPT !.z = MosBool((s.a & m) = 0)]
         [] fn = "SMB" -> MosWrite(s, addr, m | MosBit(op))
         [] fn = "RMB" -> MosWrite(s, addr, m & (255 - MosBit(op)))
         [] fn = "SLO" -> LET t == shifted("ASL") IN MosLoadA(t, t.a | after(t))
         [] fn = "RLA" -> LET t == shifted("ROL") IN MosLoadA(t, t.a & after(t))
         [] fn = "SRE" -> LET t == shifted("LSR") IN MosLoadA(t, t.a ^^ after(t))
         [] fn = "RRA" -> LET t == shifted("ROR") IN MosAdc(t, after(t), cmos)
         [] fn = "DCP" -> MosCompare(stepped(255), s.a, (m + 255) % 256)
         [] fn = "ISC" -> MosSbc(stepped(1), (m + 1) % 256, cmos)
         [] fn = "ANC" -> LET t == MosLoadA(s, s.a & m) IN [t EXCEPT !.c = t.n]
         [] fn = "ALR" -> MosShiftAt([s EXCEPT !.a = @ & m], "LSR", 65535)
         [] fn = "ARR" -> MosArr(s, m)
         [] fn = "XAA" -> MosLoadA(s, (s.a | 238) & (s.x & m))
         [] fn = "LXA" -> MosLoadAX(s, (s.a | 238) & m)
         [] fn = "AXS" -> LET t == MosCompare(s, s.a & s.x, m)
                          IN  [t EXCEPT !.x = ((s.a & s.x) - m + 256) % 256]
         [] fn = "AHX" -> MosStoreAndHigh(s, addr, s.y, s.a & s.x)
         [] fn = "TAS" -> MosStoreAndHigh([s EXCEPT !.sp = s.a & s.x], addr, s.y, s.a & s.x)
         [] fn = "SHY" -> MosStoreAndHigh(s, addr, s.x, s.y)
         [] fn = "SHX" -> MosStoreAndHigh(s, addr, s.y, s.x)
         [] fn = "LAS" -> MosLoadAX([s EXCEPT !.sp = @ & m], s.sp & m)

\* step(), without interrupts: fetch, operand, handler.
MosStep(s, cmos) ==
    LET op == MosRead(s, s.pc)
        fn == MosOp(cmos, op)[1]
        f == [s EXCEPT !.pc = MosWrap(@ + 1)]
        o == MosOperand(f, MosOp(cmos, op)[2], cmos)
        t == [f EXCEPT !.pc = o.pc]
    IN  CASE fn \in MosControls -> MosControl(t, fn, o, op, cmos)
          [] fn \in MosTransfers -> MosTransfer(t, fn)
          [] OTHER -> MosMemory(t, fn, o.addr, op, cmos)
-----------------------------------------------------------------------------
(***************************************************************************)
(* decodeEntry: what the debugger is told.  0 for no target.               *)
(***************************************************************************)
\* Faulty: an index register shortens the operand.
MosLengthIndexed(mode) ==
    CASE mode \in {"IMP", "ACC"} -> 1 [] mode \in {"ABS", "IND", "ABSXIND", "BPREL"} -> 3 [] OTHER -> 2

MosLength(mode) ==
    CASE mode \in {"IMP", "ACC"} -> 1
      [] mode \in {"ABS", "ABSX", "ABSY", "IND", "ABSXIND", "BPREL"} -> 3
      [] OTHER -> 2

\* Faulty: knows the 6502's own pushes and pulls only.
MosStackOpNmos(fn) ==
    CASE fn = "BRK" -> "brk"
      [] fn \in {"PHA", "PHP"} -> "push"
      [] fn \in {"PLA", "PLP"} -> "pull"
      [] OTHER -> "none"

MosStackOp(fn) ==
    CASE fn = "BRK" -> "brk"
      [] fn \in {"PHA", "PHX", "PHY", "PHP"} -> "push"
      [] fn \in {"PLA", "PLX", "PLY", "PLP"} -> "pull"
      [] OTHER -> "none"

MosIllegalHandlers ==
    {"KIL", "SLO", "RLA", "SRE", "RRA", "SAX", "LAX", "DCP", "ISC", "ANC", "ALR", "ARR", "XAA",
     "AHX", "TAS", "SHY", "SHX", "LAS", "AXS", "LXA"}

MosDecode(s, cmos) ==
    LET op == MosRead(s, s.pc)
        fn == MosOp(cmos, op)[1]
        mode == MosOp(cmos, op)[2]
        b(k) == MosRead(s, MosWrap(s.pc + k))
        branch == mode \in {"REL", "BPREL"}
    IN  [op |-> op, fn |-> fn, mode |-> mode, bytes |-> MosLength(mode),
         isCall |-> op = 32, isReturn |-> op \in {96, 64}, isBranch |-> branch,
         stackOp |-> MosStackOp(fn),
         isIllegal |-> \/ fn \in MosIllegalHandlers
                       \/ fn = "NOP" /\ op # 234
                       \/ fn = "SBC" /\ op = 235,
         target |-> CASE mode = "REL" -> MosWrap(s.pc + 2 + MosSigned(b(1)) + 65536)
                      [] mode = "BPREL" -> MosWrap(s.pc + 3 + MosSigned(b(2)) + 65536)
                      [] op \in {32, 76, 108} -> b(1) + 256 * b(2)
                      [] OTHER -> 0]

\* disassembleOne: the operand as printed, its form and its numbers.
MosPrinted(s, cmos) ==
    LET d == MosDecode(s, cmos)
        b(k) == MosRead(s, MosWrap(s.pc + k))
        word == b(1) + 256 * b(2)
        form(f, v) == [form |-> f, v |-> v, t |-> 0]
    IN CASE d.mode = "IMP" -> form("none", 0) [] d.mode = "ACC" -> form("A", 0)
         [] d.mode = "IMM" -> form("#", b(1)) [] d.mode = "BP" -> form("v", b(1))
         [] d.mode = "BPX" -> form("v,X", b(1)) [] d.mode = "BPY" -> form("v,Y", b(1))
         [] d.mode = "REL" -> form("v", d.target) [] d.mode = "ABS" -> form("v", word)
         [] d.mode = "ABSX" -> form("v,X", word) [] d.mode = "ABSY" -> form("v,Y", word)
         [] d.mode \in {"IND", "BPIND"} -> form("(v)", IF d.mode = "IND" THEN word ELSE b(1))
         [] d.mode = "BPXIND" -> form("(v,X)", b(1)) [] d.mode = "ABSXIND" -> form("(v,X)", word)
         [] d.mode = "INDBPY" -> form("(v),Y", b(1))
         [] d.mode = "BPREL" -> [form |-> "v,t", v |-> b(1), t |-> d.target]

\* assembleLine: the instruction bytes, or none.
MosAssemble(cmos, mn, text, at) ==
    LET rows == {r \in AsmTable(cmos) : r[1] = mn}
        has(mode) == \E r \in rows : r[2] = mode
        short(zp, abs) == IF text.v <= 255 /\ has(zp) THEN zp ELSE abs
        mode == CASE text.form = "none" -> IF has("ACC") /\ ~has("IMP") THEN "ACC" ELSE "IMP"
                  [] text.form = "A" -> "ACC"
                  [] text.form = "#" -> "IMM"
                  [] text.form = "v,t" -> "BPREL"
                  [] text.form = "(v,X)" -> IF has("ABSXIND") THEN "ABSXIND" ELSE "BPXIND"
                  [] text.form = "(v),Y" -> "INDBPY"
                  [] text.form = "(v)" -> IF has("BPIND") THEN "BPIND" ELSE "IND"
                  [] text.form = "v,X" -> short("BPX", "ABSX")
                  [] text.form = "v,Y" -> short("BPY", "ABSY")
                  [] text.form = "v" -> IF has("REL") THEN "REL" ELSE short("BP", "ABS")
        op == (CHOOSE r \in rows : r[2] = mode)[3]
        offset == IF mode = "REL" THEN text.v - (at + 2) ELSE text.t - (at + 3)
        low == text.v % 256
    IN CASE ~has(mode) -> <<>>
         [] mode \in {"REL", "BPREL"} /\ offset \notin -128 .. 127 -> <<>>
         [] mode \in {"BPREL", "BPIND"} /\ text.v > 255 -> <<>>
         [] mode = "REL" /\ offset \in -128 .. 127 -> <<op, (offset + 256) % 256>>
         [] mode = "BPREL" /\ offset \in -128 .. 127 -> <<op, low, (offset + 256) % 256>>
         [] OTHER -> SubSeq(<<op, low, (text.v \div 256) % 256>>, 1, MosLength(mode))
-----------------------------------------------------------------------------
MosRegisters ==
    [a |-> 0, x |-> 0, y |-> 0, sp |-> 255, pc |-> 0, n |-> 0, v |-> 0, d |-> 0, i |-> 1,
     z |-> 0, c |-> 0, waiting |-> FALSE, stopped |-> FALSE, m |-> <<>>]

MosInit == mos = MosRegisters /\ mosRan = <<>>

\* A program has put the registers and an instruction in place; it runs.
MosRun(cmos, regs, pc, bytes) ==
    LET s == [regs EXCEPT !.pc = pc,
                          !.m = [a \in {MosWrap(pc + k) : k \in 0 .. 2} |->
                                   bytes[((a - pc + 65536) % 65536) + 1]]]
    IN  /\ mosRan = <<>>
        /\ mos' = MosStep(s, cmos)
        /\ mosRan' = <<[cmos |-> cmos, s |-> s]>>

MosAnyInstruction ==
    \E cmos \in BOOLEAN, op \in 0 .. 255, pc \in MosPcs, low, x \in MosLows, high \in MosHighs :
        MosRun(cmos, [MosRegisters EXCEPT !.x = x, !.y = low, !.a = high, !.sp = x], pc, <<op, low, high>>)

\* ADC and SBC immediate in decimal mode.
MosArithmetic ==
    \E cmos \in BOOLEAN, op \in {105, 233}, a, m \in MosDigits, c \in 0 .. 1 :
        MosRun(cmos, [MosRegisters EXCEPT !.a = a, !.c = c, !.d = 1], 4096, <<op, m, 0>>)

\* The routine called, or the handler BRK went to, only returns.
MosReturn ==
    /\ Len(mosRan) = 1
    /\ LET d == MosDecode(mosRan[1].s, mosRan[1].cmos)
           s == MosWrite(mos, mos.pc, IF d.isCall THEN 96 ELSE 64)
       IN  /\ d.fn \in {"JSR", "BRK"}
           /\ mos.pc \notin {256 + ((mos.sp + k) % 256) : k \in 1 .. 3}
           /\ mos' = MosStep(s, mosRan[1].cmos)
           /\ mosRan' = Append(mosRan, [cmos |-> mosRan[1].cmos, s |-> s])

MosAgain == mosRan # <<>> /\ mos' = MosRegisters /\ mosRan' = <<>>

MosNext == MosAnyInstruction \/ MosArithmetic \/ MosReturn \/ MosAgain

MosSpec == MosInit /\ [][MosNext]_mosVars
-----------------------------------------------------------------------------
MosOne == Len(mosRan) = 1

(***************************************************************************)
(* The decoder tells the truth about where an instruction goes: control    *)
(* leaves straight-line order only at a branch (to its target), a call     *)
(* (likewise), a return, a JMP or BRK; everything else ends where the next *)
(* one it lists begins.                                                    *)
(***************************************************************************)
MosDecodeAgrees ==
    MosOne =>
        LET s == mosRan[1].s
            d == MosDecode(s, mosRan[1].cmos)
            next == MosWrap(s.pc + d.bytes)
        IN  CASE d.isBranch -> mos.pc \in {next, d.target}
              [] d.isCall \/ d.op = 76 -> mos.pc = d.target
              [] d.isReturn \/ d.fn \in {"BRK", "JMP"} -> TRUE
              [] OTHER -> mos.pc = next

(***************************************************************************)
(* The debugger's shadow stack can follow the CPU's: the stack pointer     *)
(* moves as isCall, isReturn and stackOp say, and otherwise only when an   *)
(* instruction loads it (TXS, TAS, LAS).                                   *)
(***************************************************************************)
MosStackAgrees ==
    MosOne =>
        LET s == mosRan[1].s
            d == MosDecode(s, mosRan[1].cmos)
            moved == (mos.sp - s.sp + 256) % 256
        IN  CASE d.fn \in {"TXS", "TAS", "LAS"} -> TRUE
              [] d.isCall -> moved = 254
              [] d.isReturn -> moved = IF d.fn = "RTI" THEN 3 ELSE 2
              [] d.stackOp = "brk" -> moved = 253
              [] d.stackOp = "push" -> moved = 255
              [] d.stackOp = "pull" -> moved = 1
              [] OTHER -> moved = 0

(***************************************************************************)
(* Decimal arithmetic on valid digits adds and subtracts decimal numbers   *)
(* with carry and borrow, on both chips (opADC, opSBC, adcDecimalCmos,     *)
(* sbcDecimalCmos).                                                        *)
(***************************************************************************)
MosDecimal ==
    (MosOne /\ mosRan[1].s.d = 1) =>
        LET s == mosRan[1].s
            value(b) == 10 * (b \div 16) + (b % 16)
            m == MosRead(s, s.pc + 1)
            sum == IF MosRead(s, s.pc) = 105 THEN value(s.a) + value(m) + s.c
                   ELSE value(s.a) - value(m) - (1 - s.c) + 100
        IN  value(mos.a) = sum % 100 /\ mos.a % 16 < 10 /\ mos.c = sum \div 100

(***************************************************************************)
(* What the disassembler prints, the assembler reads back: every official  *)
(* instruction whose branch does not wrap around memory assembles again to *)
(* the same bytes, or to its zero-page form when the high byte is zero; and*)
(* nothing it accepts becomes another instruction.                         *)
(***************************************************************************)
MosReassembles ==
    MosOne =>
        LET cmos == mosRan[1].cmos
            s == mosRan[1].s
            d == MosDecode(s, cmos)
            mn == MosMnemonic(cmos, d.op)
            bytes == [k \in 1 .. d.bytes |-> MosRead(s, MosWrap(s.pc + k - 1))]
            again == MosAssemble(cmos, mn, MosPrinted(s, cmos), s.pc)
            near == d.isBranch => d.target - s.pc \in -125 .. 130
        IN  /\ (~d.isIllegal /\ near) => again # <<>>
            /\ again # <<>> =>
                 /\ MosMnemonic(cmos, again[1]) = mn
                 /\ \/ Tail(again) = Tail(bytes)
                    \/ Len(bytes) = 3 /\ bytes[3] = 0 /\ Tail(again) = <<bytes[2]>>

(***************************************************************************)
(* A call returns behind itself: RTS to the instruction after JSR with the *)
(* stack as it was, RTI two bytes after BRK with the flags as they were    *)
(* (the 65C02 clears D only in the handler).                               *)
(***************************************************************************)
MosCallReturns ==
    Len(mosRan) = 2 =>
        LET s == mosRan[1].s
            d == MosDecode(s, mosRan[1].cmos)
        IN  /\ mos.sp = s.sp
            /\ mos.pc = MosWrap(s.pc + (IF d.isCall THEN 3 ELSE 2))
            /\ MosP(mos, 0) = MosP(s, 0)

(***************************************************************************)
(* What step() does, what the decoder and the disassembler say of it, and  *)
(* what the assembler makes of that again agree for every opcode; decimal  *)
(* arithmetic and calls with their returns are right.                      *)
(***************************************************************************)
MosRight ==
    /\ MosDecodeAgrees
    /\ MosStackAgrees
    /\ MosDecimal
    /\ MosReassembles
    /\ MosCallReturns
=============================================================================
