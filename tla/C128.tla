-------------------------------- MODULE C128 --------------------------------
(***************************************************************************)
(* The Commodore 128 (plugins/machines/c128/main/machine_c128.cpp,         *)
(* c128_carts.cpp): the memory the 8502, the Z80 and the VIC-II see        *)
(* through the MMU, the two processors that take turns, the keyboard that  *)
(* also types, and the cartridges.                                         *)
(***************************************************************************)
EXTENDS Integers, Sequences, FiniteSets

(***************************************************************************)
(* The memory map.  An address is its page, with the offset kept by every  *)
(* mapping; the page numbers are the machine's.  The MMU's registers in    *)
(* page 255 are an address of their own.  What an access reaches is a      *)
(* triple: a kind, a RAM bank or zero, and the page.                       *)
(***************************************************************************)
CONSTANTS C128Pages,    \* pages looked at
          C128Crs,      \* configurations (CR) a program stores
          C128Rcrs,     \* RAM configurations (RCR)
          C128Relocs    \* pages a program puts page 0 or page 1 at

C128Cr == [bank : 0 .. 1, io : BOOLEAN, low : BOOLEAN, mid : 0 .. 3, hi : 0 .. 3]
C128Rcr == [size : 0 .. 3, bottom : BOOLEAN, top : BOOLEAN, vic : 0 .. 1]

ASSUME C128Assumption ==
    /\ C128Pages \subseteq 0 .. 255 /\ C128Relocs \subseteq 0 .. 255
    /\ C128Crs \subseteq C128Cr /\ C128Rcrs \subseteq C128Rcr

VARIABLES cmmu,     \* m_mmu and the two latches
          cport     \* the 8502's port: colour RAM for the CPU and the VIC, character ROM

c128MapVars == <<cmmu, cport>>

MmuReset ==
    [cr |-> [bank |-> 0, io |-> TRUE, low |-> FALSE, mid |-> 0, hi |-> 0],
     pcr |-> [bank |-> 0, io |-> TRUE, low |-> FALSE, mid |-> 0, hi |-> 0],
     rcr |-> [size |-> 0, bottom |-> FALSE, top |-> FALSE, vic |-> 0],
     c64 |-> FALSE, z80 |-> TRUE, p0 |-> 0, p0b |-> 0, p1 |-> 1, p1b |-> 0, p0h |-> 0, p1h |-> 0]

C128MapInit == cmmu = MmuReset /\ cport = [n \in 0 .. 2 |-> TRUE]

SharedPages(m) == IF m.rcr.size = 0 THEN 4 ELSE 8 * (2 ^ m.rcr.size)
BottomShared(m, p) == m.rcr.bottom /\ p < SharedPages(m)
TopShared(m, p) == m.rcr.top /\ p > 255 - SharedPages(m)

Ram(b, p) == <<"ram", b, p>>

PageIsRam(m, p, b) ==
    /\ b = m.cr.bank
    /\ CASE p <= 63 -> TRUE
         [] p \in 64 .. 127 -> m.cr.low
         [] p \in 128 .. 191 -> m.cr.mid = 3
         [] p \in 208 .. 223 -> ~m.cr.io /\ m.cr.hi = 3
         [] OTHER -> m.cr.hi = 3

\* The bank an access to page p is in, without relocation.
Banked(m, p) == IF m.cr.bank = 1 /\ (BottomShared(m, p) \/ TopShared(m, p)) THEN Ram(0, p) ELSE Ram(m.cr.bank, p)

\* Faulty: the page that page 0 is put at is not put at page 0.
RamAddrOneWay(m, p) ==
    CASE p = 1 -> Ram(IF m.rcr.bottom THEN 0 ELSE m.p1b, m.p1)
      [] p = 0 -> Ram(IF m.rcr.bottom THEN 0 ELSE m.p0b, m.p0)
      [] OTHER -> Banked(m, p)

\* ramAddr(): pages 0 and 1 change places with the pages they are put at.
RamAddr(m, p) ==
    LET moved == ~(m.p0 = 0 /\ m.p1 = 1 /\ m.p0b = 0 /\ m.p1b = 0)
    IN  IF moved /\ p = 1 THEN Ram(IF m.rcr.bottom THEN 0 ELSE m.p1b, m.p1)
        ELSE IF moved /\ p = 0 /\ m.rcr.bottom THEN Ram(0, m.p0)
        ELSE IF moved /\ p = m.p1 /\ PageIsRam(m, m.p1, m.p1b) THEN Ram(m.p1b, 1)
        ELSE IF moved /\ p = 0 THEN Ram(m.p0b, m.p0)
        ELSE IF moved /\ p = m.p0 /\ PageIsRam(m, m.p0, m.p0b) THEN Ram(m.p0b, 0)
        ELSE IF p < 2 THEN Ram(0, p)
        ELSE Banked(m, p)

\* io(): the chip that answers in $D000-$DFFF.
IoAt(m, p) ==
    CASE p \in 208 .. 211 -> <<"vic", 0, 208>>
      [] p = 212 -> <<"sid", 0, p>>
      [] p = 213 -> IF m.c64 THEN <<"open", 0, p>> ELSE <<"mmu", 0, p>>
      [] p = 214 -> <<"vdc", 0, p>>
      [] p \in 216 .. 219 -> <<"colour", IF m.c64 \/ cport[0] THEN 0 ELSE 1, p - 216>>
      [] p = 220 -> <<"cia1", 0, p>>
      [] p = 221 -> <<"cia2", 0, p>>
      [] p \in 222 .. 223 /\ ~m.c64 -> <<"cart", 0, p>>
      [] OTHER -> <<"open", 0, p>>

\* readC64() and writeC64()
C64Io(p) == p \in 208 .. 223 /\ (cport[0] \/ cport[1]) /\ cport[2]
ReadC64(m, p) ==
    CASE p \in 160 .. 191 /\ cport[0] /\ cport[1] -> <<"basic64", 0, p>>
      [] C64Io(p) -> IoAt(m, p)
      [] p \in 208 .. 223 /\ (cport[0] \/ cport[1]) /\ ~cport[2] -> <<"chargen", 0, p % 16>>
      [] p >= 224 /\ cport[1] -> <<"kernal64", 0, p>>
      [] OTHER -> Banked(m, p)
WriteC64(m, p) == IF C64Io(p) THEN IoAt(m, p) ELSE Banked(m, p)

\* read() and write()
FuncRom(sel, p) == <<IF sel = 1 THEN "internal" ELSE "external", 0, p>>

Read8502(m, p) ==
    LET pick(sel, rom) == CASE sel = 0 -> rom [] sel = 3 -> RamAddr(m, p) [] OTHER -> FuncRom(sel, p)
    IN  IF m.c64 THEN ReadC64(m, p)
        ELSE CASE p < 64 -> RamAddr(m, p)
               [] p \in 64 .. 127 -> IF m.cr.low THEN RamAddr(m, p) ELSE <<"basic", 0, p>>
               [] p \in 128 .. 191 -> pick(m.cr.mid, <<"basic", 0, p>>)
               [] p \in 208 .. 223 /\ m.cr.io -> IoAt(m, p)
               [] OTHER -> pick(m.cr.hi, IF p \in 208 .. 223 THEN <<"chargen", 0, 16 + (p % 16)>> ELSE <<"kernal", 0, p>>)

Write8502(m, p) ==
    IF m.c64 THEN WriteC64(m, p)
    ELSE IF p \in 208 .. 223 /\ m.cr.io THEN IoAt(m, p) ELSE RamAddr(m, p)

\* z80Read(), z80Write(), and z80In(), z80Out() of a port's high byte.
Colours(p) == <<"colour", IF cport[0] THEN 0 ELSE 1, p % 4>>

ReadZ80(m, p) ==
    IF m.c64 THEN ReadC64(m, p)
    ELSE CASE p < 16 -> IF m.cr.bank = 1 THEN RamAddr(m, p) ELSE <<"kernal", 0, 208 + p>>
           [] p \in 16 .. 19 /\ m.cr.io -> Colours(p)
           [] p \in 208 .. 223 -> IF m.cr.hi \in {1, 2} THEN FuncRom(m.cr.hi, p) ELSE RamAddr(m, p)
           [] OTHER -> Read8502(m, p)

WriteZ80(m, p) ==
    IF m.c64 THEN WriteC64(m, p)
    ELSE CASE p < 16 /\ m.cr.bank = 0 -> Ram(0, 208 + p)
           [] p \in 16 .. 19 /\ m.cr.io -> Colours(p)
           [] p \in 208 .. 223 -> RamAddr(m, p)
           [] OTHER -> Write8502(m, p)

PortZ80(m, p, memory) ==
    CASE p < 16 -> IF m.cr.bank = 1 THEN memory ELSE Ram(0, 208 + p)
      [] p = 213 -> IF m.cr.io THEN <<"mmu", 0, p>> ELSE <<"open", 0, p>>
      [] p \in 208 .. 223 \ {213} -> IoAt(m, p)
      [] OTHER -> memory
InZ80(m, p) == PortZ80(m, p, ReadZ80(m, p))
OutZ80(m, p) == PortZ80(m, p, WriteZ80(m, p))

\* vicFetch()
VicFetch(m, p) ==
    CASE m.c64 /\ (p % 128) \in 16 .. 31 -> <<"chargen", 0, p % 16>>
      [] ~m.c64 /\ ~cport[2] /\ (p % 64) \in 16 .. 31 -> <<"chargen", 0, 16 + (p % 16)>>
      [] OTHER -> Ram(m.rcr.vic, p)

\* The processor that runs reaches the MMU's registers through I/O, and CR and
\* its presets also at $FF00.
MmuSeen == IF cmmu.z80 THEN InZ80(cmmu, 213)[1] = "mmu" ELSE Read8502(cmmu, 213)[1] = "mmu"

\* mmuStore(): the high byte of a page waits for its low byte.
StoreCr(c) == cmmu' = [cmmu EXCEPT !.cr = c] /\ ~cmmu.c64 /\ UNCHANGED cport
StorePcr(c) == cmmu' = [cmmu EXCEPT !.pcr = c] /\ MmuSeen /\ UNCHANGED cport
LoadPcr == StoreCr(cmmu.pcr)
StoreMcr(z80, c64) == cmmu' = [cmmu EXCEPT !.z80 = z80, !.c64 = c64] /\ MmuSeen /\ UNCHANGED cport
StoreRcr(r) == cmmu' = [cmmu EXCEPT !.rcr = r] /\ MmuSeen /\ UNCHANGED cport
StoreHigh(which, b) ==
    cmmu' = (IF which = 0 THEN [cmmu EXCEPT !.p0h = b] ELSE [cmmu EXCEPT !.p1h = b]) /\ MmuSeen /\ UNCHANGED cport
StoreLow(which, p) ==
    /\ cmmu' = IF which = 0 THEN [cmmu EXCEPT !.p0 = p, !.p0b = cmmu.p0h] ELSE [cmmu EXCEPT !.p1 = p, !.p1b = cmmu.p1h]
    /\ MmuSeen /\ UNCHANGED cport
C128PortWrite(pins) == cport' = pins /\ UNCHANGED cmmu
C128MmuReset == cmmu' = MmuReset /\ UNCHANGED cport

C128MapNext ==
    \/ \E c \in C128Crs : StoreCr(c) \/ (c.bank = 1 /\ c.io /\ StorePcr(c))
    \/ LoadPcr
    \/ \E z80, c64 \in BOOLEAN : StoreMcr(z80, c64)
    \/ \E r \in C128Rcrs : StoreRcr(r)
    \/ \E which, b \in 0 .. 1 : StoreHigh(which, b)
    \/ \E which \in 0 .. 1, p \in C128Relocs : StoreLow(which, p)
    \/ \E b \in BOOLEAN : C128PortWrite([n \in 0 .. 2 |-> n = 1 \/ b])
    \/ C128MmuReset

IsRam(t) == t[1] = "ram"

(***************************************************************************)
(* Whatever is read as RAM is the RAM that a write to the same address     *)
(* reaches, for the 8502, for the Z80 and for its ports (read, write,      *)
(* z80Read, z80Write, z80In, z80Out, ramAddr).                             *)
(***************************************************************************)
C128WritesRead ==
    \A p \in C128Pages :
        /\ LET r == Read8502(cmmu, p) IN IsRam(r) => Write8502(cmmu, p) = r
        /\ LET r == ReadZ80(cmmu, p) IN IsRam(r) => WriteZ80(cmmu, p) = r
        /\ LET r == InZ80(cmmu, p) IN IsRam(r) => OutZ80(cmmu, p) = r

\* Page 0 or 1 where it belongs, or at another page that is RAM now.
InPlace(m, p, b, own) == (p = own /\ b = 0) \/ (p > 1 /\ PageIsRam(m, p, b))

(***************************************************************************)
(* No two addresses are the same RAM, with any bank and any shared areas,  *)
(* while pages 0 and 1 are where they belong or at two other pages that    *)
(* are RAM in this configuration: pages change places (ramAddr).           *)
(***************************************************************************)
C128RamApart ==
    ~cmmu.c64 /\ InPlace(cmmu, cmmu.p0, cmmu.p0b, 0) /\ InPlace(cmmu, cmmu.p1, cmmu.p1b, 1) /\ cmmu.p0 # cmmu.p1 =>
        \A p \in C128Pages : LET r == RamAddr(cmmu, p) IN \A q \in C128Pages : p < q => RamAddr(cmmu, q) # r
-----------------------------------------------------------------------------
(***************************************************************************)
(* The processors.  MCR says whose turn it is; an instruction may change   *)
(* it.  The Z80 and the 8502 in fast mode run two cycles for one of the    *)
(* machine's, and the VIC-II stops a slow 8502 in its badlines.            *)
(***************************************************************************)
CONSTANT MaxC128Ticks   \* bound: machine cycles

VARIABLE crun       \* whose turn it is, half, backlog, fresh8502, and a history of the time

C128RunInit ==
    crun = [z80 |-> TRUE, fast |-> FALSE, half |-> 0, backlog |-> 0, fresh |-> TRUE, active |-> "z80",
            ticks |-> 0, spent |-> 0, ran |-> "none", vector |-> FALSE]

\* schedulerStep's beginning, when the VIC-II has the bus.
C128Stalled(r) == r.backlog > 0 /\ ~r.z80 /\ ~r.fast
Turn(r) == IF r.z80 THEN "z80" ELSE "8502"
C128Wait ==
    /\ C128Stalled(crun)
    /\ crun' = [crun EXCEPT !.active = Turn(crun), !.backlog = @ - 1, !.ticks = @ + 1, !.spent = @ + 2, !.ran = "none"]

\* Faulty: the odd cycle of a double-speed instruction is dropped.
OddCycleDropped(n) == 0

OddCycle(n) == n % 2

\* An instruction of c cycles that leaves MCR and $D030 as z80 and fast; the 8502's is
\* counted at the speed it leaves.  The chips tick for it, and a badline may follow.
C128Instruction(c, z80, fast, stolen) ==
    LET double == crun.z80 \/ fast
        n == crun.half + c
    IN  /\ ~C128Stalled(crun)
        /\ crun' = [z80 |-> z80, fast |-> fast, backlog |-> stolen, active |-> Turn(crun), ran |-> Turn(crun),
                    fresh |-> crun.z80 /\ crun.fresh, vector |-> crun.vector \/ (~crun.z80 /\ crun.fresh),
                    half |-> IF double THEN OddCycle(n) ELSE crun.half,
                    ticks |-> crun.ticks + (IF double THEN n \div 2 ELSE c),
                    spent |-> crun.spent + (IF double THEN c ELSE 2 * c)]

\* onReset: the Z80 starts, and the 8502 takes its vector when it first runs.
C128Reset ==
    crun' = [crun EXCEPT !.z80 = TRUE, !.fast = FALSE, !.fresh = TRUE, !.active = "z80", !.ran = "none", !.vector = FALSE]

C128RunNext ==
    /\ crun.ticks < MaxC128Ticks
    /\ \/ C128Wait \/ C128Reset
       \/ \E c \in 2 .. 3, z80, fast \in BOOLEAN, stolen \in {0, 2} :
             C128Instruction(c, z80, fast, stolen)

(***************************************************************************)
(* Machine time is the processors' time: no cycle is lost or counted twice *)
(* where the processors, the clock or the VIC-II's badlines change over;   *)
(* the processor that ran is the one shown, and the 8502 never runs after  *)
(* a reset without taking its vector (create's schedulerStep and onReset). *)
(***************************************************************************)
C128TimeKept ==
    /\ (2 * crun.ticks) + crun.half = crun.spent
    /\ crun.ran # "none" => crun.active = crun.ran
    /\ crun.ran = "8502" => crun.vector /\ ~crun.fresh
-----------------------------------------------------------------------------
(***************************************************************************)
(* The keyboard: keys people hold, and a queue of text that presses keys   *)
(* of its own (C128Keyboard).                                              *)
(***************************************************************************)
CONSTANTS C128Keys,     \* keys without shift
          MaxTyped      \* bound: events of the typing queue

VARIABLE ckeys      \* m_rows, m_queue, m_typed, and a history of the keys people hold

C128KeysInit == ckeys = [down |-> {}, queue |-> <<>>, typed |-> {}, held |-> {}]

\* A name key() takes is a key, or a key with shift; the empty name ends a character.
PlainKey(k) == <<"key", k>>
ShiftedKey(k) == <<"shifted", k>>
NoKey == <<"none", "none">>
KeysOf(name) == CASE name[1] = "key" -> {name[2]} [] name[1] = "shifted" -> {"left_shift", name[2]} [] OTHER -> {}

SetKeys(keys, name, down) == IF down THEN keys \cup KeysOf(name) ELSE keys \ KeysOf(name)

\* pressKeyByName()
C128Hold(name, down) ==
    ckeys' = [ckeys EXCEPT !.down = SetKeys(@, name, down), !.held = SetKeys(@, name, down)]

C128ClearKeys == ckeys' = [ckeys EXCEPT !.down = {}, !.held = {}]

\* enqueueText() of a character: a small letter is shift around its key.
C128Type(name, small) ==
    LET press(n) == [name |-> n, down |-> TRUE]
        lift(n) == [name |-> n, down |-> FALSE]
        shift == PlainKey("left_shift")
        strokes == IF small THEN <<press(shift), press(name), lift(name), lift(shift)>> ELSE <<press(name), lift(name)>>
    IN  /\ Len(ckeys.queue) + Len(strokes) < MaxTyped
        /\ ckeys' = [ckeys EXCEPT !.queue = @ \o strokes \o <<lift(NoKey)>>]

\* Faulty: the names typed are forgotten without releasing their keys.
ReleaseTypedNot(c) == [c EXCEPT !.typed = {}]

ReleaseTyped(c) == [c EXCEPT !.down = @ \ UNION {KeysOf(n) : n \in c.typed}, !.typed = {}]

\* tick() when the timer is through, and reset().
C128TypeStep ==
    LET e == Head(ckeys.queue)
        rest == [ckeys EXCEPT !.queue = Tail(@)]
    IN  /\ ckeys.queue # <<>>
        /\ ckeys' = IF e.name = NoKey THEN ReleaseTyped(rest)
                    ELSE [rest EXCEPT !.down = SetKeys(@, e.name, e.down), !.typed = IF e.down THEN @ \cup {e.name} ELSE @]

C128KeysReset == ckeys' = ReleaseTyped([ckeys EXCEPT !.queue = <<>>])

C128KeysNext ==
    \/ \E k \in C128Keys, down \in BOOLEAN : C128Hold(PlainKey(k), down) \/ C128Hold(ShiftedKey(k), down)
    \/ \E k \in C128Keys : C128Type(PlainKey(k), TRUE) \/ C128Type(PlainKey(k), FALSE) \/ C128Type(ShiftedKey(k), FALSE)
    \/ C128ClearKeys \/ C128TypeStep \/ C128KeysReset

(***************************************************************************)
(* Typing leaves no key down: what is down is held by someone or was typed *)
(* and will be released, and once the text is through, or dropped by a     *)
(* reset in the middle of a character, only keys people hold are down      *)
(* (C128Keyboard::tick, reset, releaseTyped, enqueueText).                 *)
(***************************************************************************)
C128NoKeyStuck ==
    /\ ckeys.down \subseteq ckeys.held \cup UNION {KeysOf(n) : n \in ckeys.typed}
    /\ ckeys.queue = <<>> => ckeys.down \subseteq ckeys.held /\ ckeys.typed = {}
-----------------------------------------------------------------------------
(***************************************************************************)
(* Cartridges.  The AM29F040 flash of the GMod2 (Flash040) takes commands  *)
(* after two stores that unlock it.  Here it is the two unlocking          *)
(* addresses in one sector and a byte in another, and a byte is the set of *)
(* its bits that are one.                                                  *)
(***************************************************************************)
CONSTANTS FlashBytes,   \* bytes stored
          MaxFlashOps   \* bound: stores that change the data

FlashAt == {<<0, "5555">>, <<0, "2AAA">>, <<1, "else">>}
BitsOf(b) == {n \in 0 .. 7 : (b \div (2 ^ n)) % 2 = 1}
Erased == BitsOf(255)

VARIABLE cflash     \* data, m_state, m_base, m_program, and a history: the last stores of a command, what the last one did, how many did

C128FlashInit ==
    cflash = [data |-> [a \in FlashAt |-> Erased], state |-> "read", base |-> "read", program |-> 0,
              last |-> <<>>, did |-> "none", ops |-> 0]

\* Faulty: the second unlocking store is not looked at.
UnlockedAnyhow(first, a, b) == first => a[2] = "5555" /\ b = 170

\* The two stores that unlock a command: $AA at $5555, then $55 at $2AAA.
Unlocking(first, a, b) == IF first THEN a[2] = "5555" /\ b = 170 ELSE a[2] = "2AAA" /\ b = 85

\* store() in each m_state: the data, the state and the base after it.
FlashStored(f, a, b) ==
    LET go(to) == [f EXCEPT !.state = to]
        rest == go(f.base)
        settle(to) == [f EXCEPT !.state = to, !.base = to]
        m1 == a[2] = "5555"
    IN  CASE f.state = "read" -> IF Unlocking(TRUE, a, b) THEN go("magic1") ELSE f
          [] f.state = "magic1" -> IF Unlocking(FALSE, a, b) THEN go("magic2") ELSE rest
          [] f.state = "magic2" ->
                (CASE m1 /\ b = 144 -> settle("autoselect") [] m1 /\ b = 240 -> settle("read")
                   [] m1 /\ b = 160 -> go("program") [] m1 /\ b = 128 -> go("erase1") [] OTHER -> rest)
          [] f.state = "program" ->
                LET left == f.data[a] \cap BitsOf(b)
                IN  [f EXCEPT !.program = b, !.data[a] = left, !.state = IF left = BitsOf(b) THEN f.base ELSE "error",
                              !.did = IF left = f.data[a] THEN "none" ELSE "program"]
          [] f.state = "erase1" -> IF Unlocking(TRUE, a, b) THEN go("erase2") ELSE rest
          [] f.state = "erase2" -> IF Unlocking(FALSE, a, b) THEN go("select") ELSE rest
          [] f.state = "select" ->
                [rest EXCEPT !.data = [c \in FlashAt |-> IF (m1 /\ b = 16) \/ (b = 48 /\ c[1] = a[1]) THEN Erased ELSE @[c]],
                             !.did = CASE m1 /\ b = 16 -> "chip" [] b = 48 -> "sector" [] OTHER -> "none"]
          [] f.state \in {"error", "autoselect"} ->
                (CASE b = 240 -> settle("read") [] Unlocking(TRUE, a, b) -> go("magic1") [] OTHER -> f)

\* The stores commands are made of; any other ends a command.
CommandStores == {<<"5555", 170>>, <<"2AAA", 85>>, <<"5555", 160>>, <<"5555", 128>>}
Recent(s) ==
    LET from == {i \in DOMAIN s : s[i] = <<"5555", 170>> /\ Len(s) - i < 5}
    IN  IF from = {} THEN <<>> ELSE SubSeq(s, CHOOSE i \in from : \A j \in from : i <= j, Len(s))

C128FlashStore(a, b) ==
    LET f == FlashStored([cflash EXCEPT !.did = "none"], a, b)
    IN  /\ cflash.ops < MaxFlashOps
        /\ cflash' = [f EXCEPT !.last = IF f.did = "none" /\ <<a[2], b>> \in CommandStores THEN Recent(Append(@, <<a[2], b>>))
                                        ELSE IF f.did = "none" THEN <<>> ELSE @,
                               !.ops = IF f.did = "none" THEN @ ELSE @ + 1]

\* read(): after a failure, bit 7 inverted and bit 5 (the toggling bit 6 is left out).
FlashShown(f, a) ==
    CASE f.state = "error" -> ({7} \ BitsOf(f.program)) \cup {5}
      [] f.state = "autoselect" /\ a[2] = "else" -> {0}
      [] OTHER -> f.data[a]

\* GMod2's reset
C128FlashReset == cflash' = [cflash EXCEPT !.state = "read", !.base = "read", !.program = 0, !.did = "none", !.last = <<>>]

C128FlashNext ==
    \/ \E a \in FlashAt, b \in FlashBytes : C128FlashStore(a, b)
    \/ C128FlashReset

EndsWith(s, t) == Len(s) >= Len(t) /\ SubSeq(s, Len(s) - Len(t) + 1, Len(s)) = t
Unlock == <<<<"5555", 170>>, <<"2AAA", 85>>>>

(***************************************************************************)
(* A store changes the flash only at the end of the whole sequence of      *)
(* stores that commands it, without a store to another place in between;   *)
(* programming takes bits away and never gives one back, and a byte that   *)
(* could not be programmed shows an inverted bit 7 (Flash040::store, read).*)
(***************************************************************************)
C128FlashSafe ==
    /\ cflash.did = "program" => EndsWith(cflash.last, Unlock \o <<<<"5555", 160>>>>)
    /\ cflash.did \in {"chip", "sector"} => cflash.last = Unlock \o <<<<"5555", 128>>>> \o Unlock
    /\ cflash.state = "error" => \A a \in FlashAt : (7 \in FlashShown(cflash, a)) # (7 \in BitsOf(cflash.program))
-----------------------------------------------------------------------------
(***************************************************************************)
(* The M93C86 EEPROM behind the GMod2's register, bit by bit, with a       *)
(* program that sends whole commands, or gives one up and deselects the    *)
(* chip with the clock low.  An address is three bits (ten) of which the   *)
(* last picks one of two words, a byte two bits (eight).                   *)
(***************************************************************************)
VARIABLES ceep,     \* the chip
          chost     \* the program: the command's bits to send, and what it believes the words are

EepWords == 0 .. 1
EepBit == 0 .. 1
EepWord == EepBit \X EepBit \X EepBit \X EepBit
eepVars == <<ceep, chost>>

C128EepInit ==
    /\ ceep = [cs |-> FALSE, clock |-> FALSE, in |-> 0, out |-> 0, reg |-> <<>>, outReg |-> <<>>, count |-> 0,
               cmd |-> "idle", addr |-> 0, wen |-> FALSE, data |-> [w \in EepWords |-> <<1, 1, 1, 1>>]]
    /\ chost = [left |-> <<>>, cmd |-> "none", words |-> [w \in EepWords |-> <<1, 1, 1, 1>>], wen |-> FALSE,
                at |-> 0, got |-> <<>>]

AddrOf(reg) == reg[6]
EepAll(w) == [x \in EepWords |-> w]

\* shiftIn() once the bit is in the register: the cases of its length.
EepForgotten(e) == [e EXCEPT !.reg = <<>>]
GivenUp(e) == EepForgotten([e EXCEPT !.cmd = "idle"])

\* Six bits: an address, or the end of a command without a word.
ShiftedSix(e) ==
    LET at == AddrOf(e.reg)
    IN  CASE e.cmd = "read" -> EepForgotten([e EXCEPT !.cmd = "dummy", !.addr = at])
          [] e.cmd \in {"wds", "wen"} -> [GivenUp(e) EXCEPT !.wen = e.cmd = "wen"]
          [] e.cmd \in {"erase", "eral"} /\ ~e.wen -> GivenUp(e)
          [] e.cmd = "erase" /\ e.wen -> EepForgotten([e EXCEPT !.addr = at, !.data = [@ EXCEPT ![at] = <<1, 1, 1, 1>>]])
          [] e.cmd = "eral" /\ e.wen -> EepForgotten([e EXCEPT !.data = EepAll(<<1, 1, 1, 1>>)])
          [] OTHER -> e

\* Ten bits: a word for one address or for all.
ShiftedTen(e) ==
    LET r == e.reg
        word == <<r[7], r[8], r[9], r[10]>>
    IN  IF ~e.wen THEN GivenUp(e)
        ELSE IF e.cmd = "write" THEN EepForgotten([e EXCEPT !.addr = AddrOf(r), !.data = [@ EXCEPT ![AddrOf(r)] = word]])
        ELSE EepForgotten([e EXCEPT !.data = EepAll(word)])

ShiftedIn(e) ==
    LET r == e.reg
    IN  CASE Len(r) = 1 -> IF r[1] = 0 THEN EepForgotten(e) ELSE e
          [] Len(r) = 3 -> [e EXCEPT !.cmd = IF r[2] = 0 THEN (IF r[3] = 0 THEN "cmd00" ELSE "write")
                                             ELSE IF r[3] = 0 THEN "read" ELSE "erase"]
          [] Len(r) = 5 /\ e.cmd = "cmd00" ->
                IF r[4] = 0 THEN [e EXCEPT !.cmd = IF r[5] = 0 THEN "wds" ELSE "wral"]
                ELSE IF r[5] = 0 THEN [e EXCEPT !.cmd = "eral"] ELSE [e EXCEPT !.cmd = "wen", !.wen = TRUE]
          [] Len(r) = 6 -> ShiftedSix(e)
          [] Len(r) = 10 /\ e.cmd \in {"write", "wral"} -> ShiftedTen(e)
          [] OTHER -> e

NextWord(a) == 1 - a

\* writeClock() on a rising edge: a word comes out, or a bit goes in.
ClockRises(e) ==
    LET high(a) == <<e.data[a][1], e.data[a][2]>>
        low(a) == <<e.data[a][3], e.data[a][4]>>
        shifted == [e EXCEPT !.out = Head(e.outReg), !.outReg = Tail(@), !.count = @ + 1]
        on == NextWord(e.addr)
    IN  CASE e.cmd = "dummy" ->
                [e EXCEPT !.out = high(e.addr)[1], !.outReg = Tail(high(e.addr)), !.count = 1, !.cmd = "data"]
          [] e.cmd = "data" /\ e.count = 1 -> [shifted EXCEPT !.outReg = low(e.addr)]
          [] e.cmd = "data" /\ e.count = 3 -> [shifted EXCEPT !.addr = on, !.outReg = high(on), !.count = 0]
          [] e.cmd = "data" /\ e.count \notin {1, 3} -> shifted
          [] OTHER -> ShiftedIn([e EXCEPT !.reg = Append(@, e.in)])

\* writeSelect(), and io1()'s write of select, clock and data.
Select(e, cs) ==
    LET f == CASE ~e.cs /\ cs /\ ~e.clock -> [e EXCEPT !.reg = <<>>]
               [] e.cs /\ ~cs /\ e.cmd \in {"write", "wral", "eral"} -> [e EXCEPT !.cmd = "busy"]
               [] OTHER -> e
    IN  [f EXCEPT !.cs = cs, !.cmd = IF ~cs /\ f.cmd \in {"read", "dummy", "data"} THEN "idle" ELSE f.cmd]

EepIo(e, cs, clock, bit) ==
    LET f == [Select(e, cs) EXCEPT !.in = bit]
    IN  IF ~cs THEN Select(e, cs)
        ELSE [(IF clock /\ ~f.clock THEN ClockRises(f) ELSE f) EXCEPT !.clock = clock]

\* readData(): busy, then ready, then the last bit that came out.
EepReads(e) == IF ~e.cs \/ e.cmd = "busy" THEN 0 ELSE IF e.cmd = "ready" THEN 1 ELSE e.out
EepAfterRead(e) ==
    IF e.cs /\ e.cmd = "busy" THEN [e EXCEPT !.cmd = "ready"]
    ELSE IF e.cs /\ e.cmd = "ready" THEN [e EXCEPT !.cmd = "idle"] ELSE e

\* The program (external): commands as the chip's data sheet has them.
Opcodes ==
    [read |-> {<<1, 1, 0, b, 0>> : b \in {0, 1}}, write |-> {<<1, 0, 1, 1, 0>>}, erase |-> {<<1, 1, 1, 0, 0>>},
     wen |-> {<<1, 0, 0, 1, 1>>}, wds |-> {<<1, 0, 0, 0, 0>>}, wral |-> {<<1, 0, 0, 0, 1>>}, eral |-> {<<1, 0, 0, 1, 0>>}]

\* Select with the clock low; a command begins.
EepBegin(cmd, op, at, word) ==
    /\ chost.cmd = "none"
    /\ ceep' = EepIo(EepIo(ceep, FALSE, FALSE, 0), TRUE, FALSE, 0)
    /\ chost' = [chost EXCEPT !.cmd = cmd, !.at = at, !.got = <<>>,
                              !.left = op \o <<at>> \o (IF cmd \in {"write", "wral"} THEN word ELSE <<>>)]

\* One bit: data and clock low, then clock high; with the last one the command is done.
EepSend ==
    LET bit == Head(chost.left)
        word == <<ceep.reg[7], ceep.reg[8], ceep.reg[9], bit>>
        done == Len(chost.left) = 1
    IN  /\ chost.left # <<>>
        /\ ceep' = EepIo(EepIo(ceep, TRUE, FALSE, bit), TRUE, TRUE, bit)
        /\ chost' = [chost EXCEPT !.left = Tail(@),
                       !.wen = CASE Len(chost.left) = 2 /\ chost.cmd = "wen" -> TRUE [] done /\ chost.cmd = "wds" -> FALSE [] OTHER -> @,
                       !.words = IF ~done \/ ~chost.wen THEN @
                                 ELSE CASE chost.cmd = "write" -> [@ EXCEPT ![chost.at] = word]
                                   [] chost.cmd = "wral" -> EepAll(word)
                                   [] chost.cmd = "erase" -> [@ EXCEPT ![chost.at] = <<1, 1, 1, 1>>]
                                   [] chost.cmd = "eral" -> EepAll(<<1, 1, 1, 1>>)
                                   [] OTHER -> @]

\* A bit of a word read, and of the next word after it.
EepReceive ==
    /\ chost.cmd = "read" /\ chost.left = <<>> /\ Len(chost.got) < 8
    /\ ceep' = EepIo(EepIo(ceep, TRUE, FALSE, 0), TRUE, TRUE, 0)
    /\ chost' = [chost EXCEPT !.got = Append(@, EepReads(ceep'))]

\* Deselect, at the end of a command or before; the clock is low.
EepEnd ==
    /\ chost.cmd # "none"
    /\ ceep' = EepIo(EepIo(ceep, TRUE, FALSE, 0), FALSE, FALSE, 0)
    /\ chost' = [chost EXCEPT !.cmd = "none", !.left = <<>>, !.got = <<>>]

\* A read of the register while the chip is selected, between commands.
EepPoll == chost.cmd = "none" /\ ceep' = EepAfterRead(EepIo(ceep, TRUE, FALSE, 0)) /\ UNCHANGED chost

C128EepNext ==
    \/ \E cmd \in DOMAIN Opcodes : \E op \in Opcodes[cmd], at \in EepWords, word \in {<<0, 1, 0, 0>>} :
          EepBegin(cmd, op, at, word)
    \/ EepSend \/ EepReceive \/ EepEnd \/ EepPoll

(***************************************************************************)
(* The words are what the program's whole commands made of them, commands  *)
(* given up and polls in between change no word, and a read gives the word *)
(* asked for and then the next one, highest bit first (M93C86).  Writes    *)
(* are enabled by the fifth bit of WEN, before the command is through.     *)
(***************************************************************************)
C128EepRight ==
    /\ ceep.data = chost.words
    /\ LET stream == chost.words[chost.at] \o chost.words[1 - chost.at]
       IN  \A n \in DOMAIN chost.got : chost.got[n] = stream[n]
-----------------------------------------------------------------------------
(***************************************************************************)
(* The cartridges' banks (BankedCart and its kinds, Partner128Cart,        *)
(* GMod2C128Cart), and the images they are made from, in KB.               *)
(***************************************************************************)
CONSTANTS CartBytes,    \* bytes stored in a cartridge's register
          MagicBanks    \* numbers of 16 KB chips of a Magic Desk

ASSUME C128CartAssumption == CartBytes \subseteq 0 .. 255 /\ MagicBanks \subseteq 1 .. 64

VARIABLES ccart,    \* the kind, m_bank, m_forced, and whether the button was pushed and not released
          cimage    \* a function ROM: for each KB, the KB of the image it shows, or -1

C128CartInit ==
    \/ \E kind \in {"comal", "partner", "gmod2"} : ccart = [kind |-> kind, chips |-> 1, bank |-> 0, forced |-> FALSE, frozen |-> FALSE]
    \/ \E n \in MagicBanks : ccart = [kind |-> "magic", chips |-> n, bank |-> 0, forced |-> FALSE, frozen |-> FALSE]

\* Banks of ROM, or of the Partner's RAM, there is memory for.
CartRoom == [comal |-> 6, magic |-> 64, partner |-> 64, gmod2 |-> 32]

\* Faulty: the mask is the power of two itself.
MagicSizeWhole(chips) == CHOOSE p \in {2, 4, 8, 16, 32, 64, 128} : p > chips /\ p < 4 * chips

\* The power of two MagicDesk128Cart masks its bank with.
MagicSize(chips) == CHOOSE p \in {1, 2, 4, 8, 16, 32, 64} : p >= chips /\ p < 2 * chips

CartBank(kind, chips, v) ==
    CASE kind = "comal" -> (<<0, 0, 2, 4>>[1 + ((v \div 32) % 4)]) + ((v \div 16) % 2)
      [] kind = "magic" -> (v % 64) % MagicSize(chips)
      [] kind = "partner" -> v % 64
      [] kind = "gmod2" -> v % 32

\* io1(): a write, and a read, with which a Magic Desk latches the open bus.
CartStore(v) ==
    ccart' = [ccart EXCEPT !.bank = CartBank(ccart.kind, ccart.chips, v),
                           !.forced = @ /\ ~(ccart.kind = "partner" /\ (v \div 64) % 2 = 1),
                           !.frozen = @ /\ (v \div 64) % 2 = 0]
CartLatch == ccart' = [ccart EXCEPT !.bank = IF ccart.kind = "magic" THEN 255 % MagicSize(ccart.chips) ELSE @]
CartReset == ccart' = [ccart EXCEPT !.bank = IF ccart.kind = "gmod2" THEN @ ELSE 0, !.forced = FALSE, !.frozen = FALSE]
CartFreeze == ccart' = [ccart EXCEPT !.forced = @ \/ ccart.kind = "partner", !.frozen = ccart.kind = "partner"]

C128CartNext == \/ \E v \in CartBytes : CartStore(v)
                \/ CartLatch \/ CartReset \/ CartFreeze

\* functionRomImage(): what is at out[base] is doubled until the span is full,
\* of 32 KB after five times.
Doubled(out, base, len, span) ==
    [a \in DOMAIN out |-> IF len < span /\ a \in base + len .. base + (2 * len) - 1 THEN out[a - len] ELSE out[a]]
Mirrored(out, base, len, span) ==
    Doubled(Doubled(Doubled(Doubled(Doubled(out, base, len, span), base, 2 * len, span), base, 4 * len, span),
                    base, 8 * len, span), base, 16 * len, span)

\* A CHIP packet of a .crt, of any size up to 16 KB.
ChipSpan(size) == CHOOSE p \in {1, 2, 4, 8, 16} : p >= size /\ p < 2 * size
ChipCopied(out, base, size) ==
    Mirrored([a \in 0 .. 31 |-> IF a \in base .. base + size - 1 THEN a - base ELSE out[a]], base, ChipSpan(size), 16)

C128ImageInit ==
    LET blank == [a \in 0 .. 31 |-> -1]
    IN  \/ \E len \in {1, 2, 4, 8, 16, 32} :
              cimage = [len |-> len, chips |-> <<>>, out |-> Mirrored([a \in 0 .. 31 |-> IF a < len THEN a ELSE -1], 0, len, 32)]
        \/ \E low, high \in 1 .. 16 :
              cimage = [len |-> 0, chips |-> <<low, high>>, out |-> ChipCopied(ChipCopied(blank, 0, low), 16, high)]

(***************************************************************************)
(* A cartridge never reads behind its memory, whatever its register or the *)
(* open bus holds, also when the number of chips is not a power of two;    *)
(* the NMI vector is forced from the freeze button until the register or a *)
(* reset releases it; and a function ROM shows its image all over its      *)
(* 32 KB, a chip that is not a power of two only where it has bytes        *)
(* (bankByte, io1, freeze, functionRomImage).                              *)
(***************************************************************************)
C128CartRight ==
    /\ ccart.bank < CartRoom[ccart.kind] /\ ccart.forced = ccart.frozen
    /\ cimage.len > 0 => \A a \in 0 .. 31 : cimage.out[a] = a % cimage.len
    /\ \A h \in DOMAIN cimage.chips : \A a \in 0 .. 15 :
          LET p == ChipSpan(cimage.chips[h])
          IN  cimage.out[(16 * (h - 1)) + a] = IF a % p < cimage.chips[h] THEN a % p ELSE -1
-----------------------------------------------------------------------------
\* Each part by itself: they share no state.
C128MapSpec == C128MapInit /\ [][C128MapNext]_c128MapVars
C128RunSpec == C128RunInit /\ [][C128RunNext]_crun
C128KeysSpec == C128KeysInit /\ [][C128KeysNext]_ckeys
C128FlashSpec == C128FlashInit /\ [][C128FlashNext]_cflash
C128EepSpec == C128EepInit /\ [][C128EepNext]_eepVars
NoImage == [len |-> 0, chips |-> <<>>, out |-> <<>>]
C128CartSpec ==
    C128CartInit /\ (C128ImageInit \/ cimage = NoImage) /\ [][C128CartNext /\ UNCHANGED cimage]_<<ccart, cimage>>

(***************************************************************************)
(* The C128's memory map, time, keyboard and cartridges are right          *)
(* (machine_c128.cpp, c128_carts.cpp).                                     *)
(***************************************************************************)
C128Right ==
    C128WritesRead /\ C128RamApart /\ C128TimeKept /\ C128NoKeyStuck /\ C128FlashSafe /\ C128EepRight /\ C128CartRight
=============================================================================
