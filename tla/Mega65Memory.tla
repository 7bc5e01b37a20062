---------------------------- MODULE Mega65Memory ----------------------------
(***************************************************************************)
(* What a MEGA65 address means: the MAP unit (map_mmu.cpp), the CPU port   *)
(* and the ROM banking (c64_bank_controller.cpp), the I/O personality      *)
(* (key_register.cpp) and the hypervisor that saves and replaces them all  *)
(* (hypervisor_regs.cpp, enterHypervisor and exitHypervisor of             *)
(* cpu45gs02.cpp, the hooks of machine_mega65.cpp).                        *)
(*                                                                         *)
(* Offsets and megabytes are counted in pages of 256 bytes.  Of the        *)
(* registers A stands for itself, xyz for X, Y and Z, and frame for B, SP  *)
(* and PC, which a trap replaces together.                                 *)
(***************************************************************************)
EXTENDS Integers, FiniteSets

CONSTANTS M65Hyppo,   \* BOOLEAN: HICKUP.M65 was found
          M65MapArgs, \* <<A, X, Y, Z>> of the MAP instructions executed
          M65Knocks   \* bytes written to $D02F

ASSUME M65Assumption ==
    /\ M65Hyppo \in BOOLEAN /\ M65Knocks \subseteq 0 .. 255
    /\ M65MapArgs \subseteq [1 .. 4 -> 0 .. 255]

VARIABLES m65Regs, m65Hyper,   \* registers; CPU45GS02State::hypervisor
          m65Map,              \* MapState
          m65Port, m65Key,     \* C64BankController; KeyRegister
          m65Locked,           \* VIC3::m_locked
          m65Dma,              \* the DMA list address
          m65Saved,            \* HypervisorState
          m65User              \* history: what the program must find when the trap returns

m65Vars == <<m65Regs, m65Hyper, m65Map, m65Port, m65Key, m65Locked, m65Dma, m65Saved, m65User>>

M65Blocks == 0 .. 7
M65High == 4 .. 7
M65Bits(n) == {k \in M65Blocks : (n \div 2^k) % 2 = 1}
M65NoMap == [off |-> [k \in M65Blocks |-> 0], en |-> {}, mbLow |-> 0, mbHigh |-> 0]

\* onReset without HYPPO: block 7 shows the ROM.
M65RomMap ==
    [off |-> [k \in M65Blocks |-> IF k = 7 THEN 224 ELSE 0], en |-> {7}, mbLow |-> 512, mbHigh |-> 512]

-----------------------------------------------------------------------------
(***************************************************************************)
(* Address translation                                                     *)
(***************************************************************************)
\* Faulty: the sum is not cut to 12 bits.
M65TranslateCarry(map, page) ==
    IF page \div 32 \notin map.en THEN page
    ELSE (IF page \div 32 < 4 THEN map.mbLow ELSE map.mbHigh) + map.off[page \div 32] + page

\* translate: the page (of the physical space) behind a page of the CPU's.
M65Translate(map, page) ==
    IF page \div 32 \notin map.en THEN page
    ELSE (IF page \div 32 < 4 THEN map.mbLow ELSE map.mbHigh)
         + ((map.off[page \div 32] + page) % 4096)

\* The MAP instruction, A and X: the lower half.  $0F selects a megabyte
\* instead of an offset.
M65MapLow(map, args) ==
    IF args[2] = 15 THEN [map EXCEPT !.mbLow = 4096 * args[1]]
    ELSE [map EXCEPT !.off = [k \in M65Blocks |-> IF k < 4 THEN 256 * (args[2] % 16) + args[1] ELSE @[k]],
                     !.en = (@ \cap M65High) \cup M65Bits(args[2] \div 16)]

\* Y and Z: the upper half.
M65MapHigh(map, args) ==
    IF args[4] = 15 THEN [map EXCEPT !.mbHigh = 4096 * args[3]]
    ELSE [map EXCEPT !.off = [k \in M65Blocks |-> IF k < 4 THEN @[k] ELSE 256 * (args[4] % 16) + args[3]],
                     !.en = (@ \ M65High) \cup M65Bits(16 * (args[4] \div 16))]

\* The hypervisor's own upper half stays where it is.
M65MapBy(map, args, hyper) ==
    IF hyper /\ args[4] # 15 THEN M65MapLow(map, args) ELSE M65MapHigh(M65MapLow(map, args), args)

\* effectivePort: an input floats high.
M65PortBits == M65Bits(m65Port.out) \cup (M65Blocks \ M65Bits(m65Port.ddr))

\* $D030, whose ROM bits mean nothing while the VIC-III is locked.
M65D030(d030) == IF m65Locked THEN {} ELSE M65Bits(d030)

\* ioRead: the ROM that answers for a page, $00 and $01 apart.
M65RomAnswers(page, d030) ==
    LET block == page \div 32
        bits == M65D030(d030)
    IN  /\ block \notin m65Map.en
        /\ ~(m65Hyper /\ block < 7)
        /\ \/ block = 4 /\ 3 \in bits
           \/ block = 5 /\ (4 \in bits \/ {0, 1} \subseteq M65PortBits)
           \/ block = 6 /\ page < 208 /\ 5 \in bits
           \/ block = 6 /\ page >= 208 /\ 1 \in M65PortBits /\ 2 \notin M65PortBits
           \/ block = 7 /\ (7 \in bits \/ 1 \in M65PortBits)

\* read8 and write8 of a page outside the device registers: the hypervisor's
\* memory first, then the hooks, then what MAP says.  A write goes past a ROM.
M65Overlaid(page) == m65Hyper /\ M65Hyppo /\ page \div 32 \in {4, 5}
M65ReadFrom(page, d030) ==
    CASE M65Overlaid(page) -> <<"hyper", page - 128>>
      [] ~M65Overlaid(page) /\ M65RomAnswers(page, d030) -> <<"rom", page>>
      [] OTHER -> <<"ram", M65Translate(m65Map, page)>>
M65WriteTo(page) ==
    IF M65Overlaid(page) THEN <<"hyper", page - 128>> ELSE <<"ram", M65Translate(m65Map, page)>>

-----------------------------------------------------------------------------
(***************************************************************************)
(* The hypervisor                                                          *)
(***************************************************************************)
M65View == [regs |-> m65Regs, map |-> m65Map, port |-> m65Port,
            mode |-> m65Key.mode, dma |-> m65Dma]

\* The virtualisation registers outside the hypervisor: the program cannot read
\* them and the next trap overwrites them.
M65Dead == [none |-> TRUE]

\* Faulty: the personality is changed without telling the VIC-III.
M65SetModeSilent(key, mode) ==
    m65Key' = [key EXCEPT !.mode = mode] /\ UNCHANGED m65Locked

\* setPersonality: the callback locks the VIC-III for all but the MEGA65's.
M65SetMode(key, mode) ==
    /\ m65Key' = [key EXCEPT !.mode = mode]
    /\ m65Locked' = IF mode = m65Key.mode THEN m65Locked ELSE mode # "MEGA65"

\* Faulty: the megabyte of the upper half is not kept.
M65SaveHalf(view) ==
    [regs |-> view.regs, low |-> view.map.off[0], high |-> view.map.off[4], en |-> view.map.en,
     mbLow |-> view.map.mbLow, mbHigh |-> view.map.mbLow, port |-> view.port, mode |-> view.mode, dma |-> view.dma]

\* What is kept in the virtualisation registers: one offset for each half.
M65Save(view) ==
    [regs |-> view.regs, low |-> view.map.off[0], high |-> view.map.off[4], en |-> view.map.en,
     mbLow |-> view.map.mbLow, mbHigh |-> view.map.mbHigh, port |-> view.port, mode |-> view.mode, dma |-> view.dma]

\* The memory the hypervisor sees: blocks 4 and 5 are its own.
M65HyperMap(map) ==
    [off |-> [k \in M65Blocks |-> IF k < 4 THEN map.off[k] ELSE 3840],
     en |-> (map.en \ M65High) \cup {4, 5},
     mbLow |-> IF map.mbLow = 4096 * 255 THEN 0 ELSE map.mbLow,
     mbHigh |-> 4096 * 255]

\* exitHypervisor's map.
M65Restored(s) ==
    [off |-> [k \in M65Blocks |-> IF k < 4 THEN s.low ELSE s.high], en |-> s.en, mbLow |-> s.mbLow, mbHigh |-> s.mbHigh]

M65HyperRegs(regs) == [regs EXCEPT !.p = (@ \cup {"I", "E"}) \ {"D"}, !.frame = "hyper"]

\* enterHypervisor, with the machine's hook.
M65Enter(view) ==
    /\ m65Saved' = M65Save(view)
    /\ m65User' = view
    /\ m65Hyper' = TRUE
    /\ m65Regs' = M65HyperRegs(view.regs)
    /\ m65Map' = M65HyperMap(view.map)
    /\ m65Port' = [ddr |-> 63, out |-> 53]

\* exitHypervisor, with the machine's hook.
M65Exit(s) ==
    /\ m65Regs' = s.regs
    /\ m65Map' = M65Restored(s)
    /\ m65Port' = s.port
    /\ M65SetMode(m65Key, s.mode)
    /\ m65Dma' = s.dma
    /\ m65Hyper' = FALSE

-----------------------------------------------------------------------------
(***************************************************************************)
(* The program, in either mode                                             *)
(***************************************************************************)
M65Init ==
    /\ m65Regs = [a |-> 0, xyz |-> 0, p |-> {"I", "E"}, frame |-> "user"]
    /\ m65Hyper = FALSE
    /\ m65Map = IF M65Hyppo THEN M65NoMap ELSE M65RomMap
    /\ m65Port = [ddr |-> 47, out |-> 55]
    /\ m65Key = [state |-> "first", byte |-> 0, mode |-> "C64"]
    /\ m65Locked = TRUE
    /\ m65Dma = 0
    /\ m65Saved = M65Dead
    /\ m65User = [none |-> TRUE]

\* Instructions compute.
M65Compute ==
    /\ ~m65Hyper   \* what HYPPO computes in its own registers is lost on exit
    /\ m65Regs' = [a |-> 1, xyz |-> 1, p |-> {"D"}, frame |-> "user2"]
    /\ UNCHANGED <<m65Hyper, m65Map, m65Port, m65Key, m65Locked, m65Dma, m65Saved, m65User>>

M65MapInstruction ==
    /\ \E args \in M65MapArgs : m65Map' = M65MapBy(m65Map, args, m65Hyper)
    /\ UNCHANGED <<m65Regs, m65Hyper, m65Port, m65Key, m65Locked, m65Dma, m65Saved, m65User>>

\* $00 and $01, while block 0 is not mapped; $40 and $41 in $00 are the
\* speed, which is left out.
M65WritePort ==
    /\ 0 \notin m65Map.en
    /\ \/ \E v \in {48, 65} : m65Port' = IF v \in {64, 65} THEN m65Port ELSE [m65Port EXCEPT !.ddr = v]
       \/ m65Port' = [m65Port EXCEPT !.out = 48]
    /\ UNCHANGED <<m65Regs, m65Hyper, m65Map, m65Key, m65Locked, m65Dma, m65Saved, m65User>>

M65KnockMode(first, second) ==
    CASE <<first, second>> = <<0, 0>> -> "C64" [] <<first, second>> = <<165, 150>> -> "C65"
      [] <<first, second>> = <<71, 83>> -> "MEGA65" [] <<first, second>> = <<69, 84>> -> "ETHERNET"
      [] OTHER -> "none"

\* KeyRegister::ioWrite: two bytes select a personality; the hypervisor's do not count.
M65Knock(v) ==
    /\ CASE m65Hyper -> UNCHANGED <<m65Key, m65Locked>>
         [] ~m65Hyper /\ m65Key.state = "first" ->
                m65Key' = [m65Key EXCEPT !.state = "second", !.byte = v] /\ UNCHANGED m65Locked
         [] OTHER -> LET mode == M65KnockMode(m65Key.byte, v)
                     IN  M65SetMode([m65Key EXCEPT !.state = "first"], IF mode = "none" THEN m65Key.mode ELSE mode)
    /\ UNCHANGED <<m65Regs, m65Hyper, m65Map, m65Port, m65Dma, m65Saved, m65User>>

M65SetDma ==
    /\ m65Dma' = 1 - m65Dma
    /\ UNCHANGED <<m65Regs, m65Hyper, m65Map, m65Port, m65Key, m65Locked, m65Saved, m65User>>

\* A write to $D640-$D67F in user mode, with NOP or CLV behind it: HYPPO runs.
M65Trap ==
    /\ ~m65Hyper
    /\ M65Enter(M65View)
    /\ M65SetMode(m65Key, "MEGA65")
    /\ UNCHANGED m65Dma

\* setResult
M65Answered(regs, a, ok) == [regs EXCEPT !.a = a, !.p = IF ok THEN @ \cup {"C"} ELSE @ \ {"C"}]

\* The same call served by an intercept, which sets A and the carry: enter, serve, leave.
M65TrapServed ==
    /\ ~m65Hyper
    /\ \E a \in {0}, ok \in BOOLEAN :
          M65Exit(M65Save([M65View EXCEPT !.regs = M65Answered(@, a, ok)]))
    /\ UNCHANGED <<m65Saved, m65User>>

\* $D64C: enables 4-7 and the upper bits of the upper half's offset.
M65HighBits(en, v) == (en \ M65High) \cup M65Bits(16 * (v \div 16))
M65HighOffset(off, v) == (off % 256) + 256 * (v % 16)
M65HighWritten(map, v) ==
    [map EXCEPT !.en = M65HighBits(@, v),
                !.off = [k \in M65Blocks |-> IF k < 4 THEN @[k] ELSE M65HighOffset(@[k], v)]]

\* HYPPO writes a virtualisation register: the program is to find the new value.
M65WriteSaved ==
    /\ m65Hyper
    /\ \/ \E a \in {2} :
             /\ m65Saved' = [m65Saved EXCEPT !.regs = [@ EXCEPT !.a = a]]
             /\ m65User' = [m65User EXCEPT !.regs = [@ EXCEPT !.a = a]]
       \/ \E m \in {"C65"} : m65Saved' = [m65Saved EXCEPT !.mode = m] /\ m65User' = [m65User EXCEPT !.mode = m]
       \/ \E v \in {17} :
             /\ m65Saved' = [m65Saved EXCEPT !.en = M65HighBits(@, v), !.high = M65HighOffset(@, v)]
             /\ m65User' = [m65User EXCEPT !.map = M65HighWritten(@, v)]
    /\ UNCHANGED <<m65Regs, m65Hyper, m65Map, m65Port, m65Key, m65Locked, m65Dma>>

\* A write to $D67F.
M65Return ==
    /\ m65Hyper
    /\ M65Exit(m65Saved)
    /\ m65Saved' = M65Dead /\ m65User' = [none |-> TRUE]

\* onReset: the devices, then the CPU, which enters HYPPO at $8100 when it is there.
M65Reset ==
    LET view == [regs |-> [a |-> 0, xyz |-> 0, p |-> {"I", "E"}, frame |-> "user"], map |-> M65NoMap,
                 port |-> [ddr |-> 47, out |-> 55], mode |-> "C64", dma |-> 0]
    IN  /\ m65Dma' = 0
        /\ IF M65Hyppo
           THEN /\ m65Hyper' = TRUE /\ m65Saved' = M65Save(view) /\ m65User' = view
                /\ m65Regs' = M65HyperRegs(view.regs) /\ m65Map' = M65HyperMap(M65NoMap)
                /\ m65Port' = [ddr |-> 63, out |-> 53]
                /\ m65Key' = [state |-> "first", byte |-> 0, mode |-> "MEGA65"] /\ m65Locked' = FALSE
           ELSE /\ m65Hyper' = m65Hyper   \* nothing clears it without HYPPO
                /\ m65User' = [none |-> TRUE]
                /\ m65Saved' = IF m65Hyper THEN M65Save([view EXCEPT !.port = [ddr |-> 0, out |-> 0]]) ELSE M65Dead
                /\ m65Regs' = [view.regs EXCEPT !.p = IF m65Hyper THEN @ ELSE {"I"}]
                /\ m65Map' = IF m65Hyper THEN m65Map ELSE M65RomMap
                /\ m65Port' = [ddr |-> 47, out |-> 55]
                /\ m65Key' = [state |-> "first", byte |-> 0, mode |-> "C64"] /\ m65Locked' = TRUE

M65Next ==
    \/ M65Compute \/ M65MapInstruction \/ M65WritePort \/ M65SetDma
    \/ M65Trap \/ M65TrapServed \/ M65WriteSaved \/ M65Return \/ M65Reset
    \/ \E v \in M65Knocks : M65Knock(v)

M65Spec == M65Init /\ [][M65Next]_m65Vars

-----------------------------------------------------------------------------
(***************************************************************************)
(* A trap is transparent: however HYPPO maps, banks, knocks or starts DMA  *)
(* meanwhile, and whether it or an intercept served the call, the program  *)
(* goes on with its registers, MAP, CPU port, personality and DMA list as  *)
(* they were, but for what was written into the virtualisation registers.  *)
(***************************************************************************)
M65TrapTransparent ==
    [][/\ M65Return => M65View' = m65User
       /\ M65TrapServed =>
             \E a \in {0}, ok \in BOOLEAN : M65View' = [M65View EXCEPT !.regs = M65Answered(@, a, ok)]]_m65Vars

(***************************************************************************)
(* The lock of the VIC-III, which is told only of changes, agrees with the *)
(* personality through knocks, traps and resets.                           *)
(***************************************************************************)
M65LockFollows == m65Locked <=> m65Key.mode # "MEGA65"

(***************************************************************************)
(* What the CPU reads in the hypervisor at $8000-$BFFF and what DMA and    *)
(* the debugger reach through MAP are the same memory at $FFF8000, as long *)
(* as HYPPO has not selected another megabyte; a read that no ROM answers  *)
(* reads where a write goes; and no offset leads out of its megabyte.      *)
(***************************************************************************)
M65OneMemory ==
    /\ (M65Hyppo /\ m65Hyper /\ m65Map.mbHigh = 4096 * 255) =>
          \A page \in {128, 191} : M65Translate(m65Map, page) = 65528 * 16 + page - 128
    /\ \A page \in {0, 127, 255} :
          page \div 32 \in m65Map.en =>
              M65Translate(m65Map, page) \div 4096 =
                  (IF page < 128 THEN m65Map.mbLow ELSE m65Map.mbHigh) \div 4096
    /\ \A page \in {0, 128, 175, 192, 208, 224}, d030 \in {0, 184} :
          M65ReadFrom(page, d030)[1] # "rom" => M65ReadFrom(page, d030) = M65WriteTo(page)

(***************************************************************************)
(* The memory map and the register lock, both of which hypervisor traps,   *)
(* knocks and resets move, stay what the hardware's rules make them.       *)
(***************************************************************************)
M65MapSound == M65LockFollows /\ M65OneMemory
=============================================================================
