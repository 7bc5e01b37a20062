--------------------------- MODULE HomeComputers ----------------------------
(***************************************************************************)
(* The memory maps and keyboards of three machines that are built in code: *)
(* Apple II and IIe (machine_apple2.cpp), Plus/4 and C16                   *)
(* (machine_plus4.cpp), Atari 800 and XL/XE (machine_atari.cpp,            *)
(* atari_cart.cpp).                                                        *)
(*                                                                         *)
(* Memory is not modelled byte by byte: an access is modelled by the cell  *)
(* it reaches, a name for the memory and an index, at addresses on both    *)
(* sides of every border of the map.                                       *)
(***************************************************************************)
EXTENDS Integers, Sequences, FiniteSets

Nowhere == <<"none", 0>>    \* where a write has no effect

With(set, name, on) == IF on THEN set \cup {name} ELSE set \ {name}
Bit(v, n) == (v \div 2^n) % 2 = 1
-----------------------------------------------------------------------------
(***************************************************************************)
(* Apple2Bus: soft switches, language card and auxiliary memory.  `sw` are *)
(* the switches that are on, `vf` the video flags, `shown` and `alt` the   *)
(* flags and the character set Apple2Video was given last.                 *)
(***************************************************************************)
CONSTANTS AppleIo,      \* addresses of soft switches that are accessed
          MaxAppleOps   \* bound: instructions

VARIABLES abus,     \* m_iie, the switches, m_vf, m_lcLastRead within an instruction
          acard     \* history: the last two accesses to the card, and whether writes were enabled before them

appleVars == <<abus, acard>>

AppleAts == {0, 511, 512, 1024, 2047, 2048, 8192, 16383, 16384, 49151, 53248, 57343, 57344, 65535}

\* resetPaging()
ResetPaging(b) == [b EXCEPT !.sw = {"bank2", "wr"}, !.vf = {"TEXT"}, !.shown = {"TEXT"}, !.alt = FALSE]

AppleInit ==
    /\ \E e \in BOOLEAN :
          abus = ResetPaging([iie |-> e, sw |-> {}, vf |-> {}, shown |-> {}, alt |-> TRUE, last |-> 0, ops |-> 0])
    /\ acard = [kinds |-> <<>>, open |-> TRUE]

SetVideo(b, flag, on) == LET v == With(b.vf, flag, on) IN [b EXCEPT !.vf = v, !.shown = v]

\* Faulty: 80STORE is switched for the memory alone.
IieSwitchSilent(b, n) ==
    [b EXCEPT !.sw = With(@, <<"80store", "auxrd", "auxwr", "intcx", "altzp", "c3", "80col", "altchar">>[n \div 2 + 1],
                          n % 2 = 1)]

\* $C000-$C00F, written on a IIe.
IieSwitch(b, n) ==
    LET on == n % 2 = 1
        set(name) == [b EXCEPT !.sw = With(@, name, on)]
    IN  CASE n \div 2 = 0 -> SetVideo(set("80store"), "80STORE", on)
          [] n \div 2 \in 1 .. 5 -> set(<<"auxrd", "auxwr", "intcx", "altzp", "c3">>[n \div 2])
          [] n \div 2 = 6 -> SetVideo(b, "80COL", on)
          [] n \div 2 = 7 -> [set("altchar") EXCEPT !.alt = on]

\* $C050-$C05F; on a IIe annunciator 3 is double hi-res.
VideoSwitch(b, n) ==
    IF n < 8 THEN SetVideo(b, <<"TEXT", "MIXED", "PAGE2", "HIRES">>[n \div 2 + 1], n % 2 = 1)
    ELSE IF b.iie /\ n >= 14 THEN SetVideo(b, "DHIRES", n = 14) ELSE b

\* Faulty: a single read of an odd address enables writes.
LanguageCardEager(b, n, wr) ==
    [b EXCEPT !.sw = With(With(With(@, "bank2", ~Bit(n, 3)), "rd", Bit(n, 1) = Bit(n, 0)), "wr", Bit(n, 0) /\ ~wr)]

\* $C080-$C08F.  Writes are enabled by a read of an odd address after another one.
LanguageCard(b, n, wr) ==
    LET odd == Bit(n, 0)
        rmw == wr /\ b.last = 49280 + n
        enable == odd /\ "pre" \in b.sw /\ (wr => rmw)
        banked == With(With(b.sw, "bank2", ~Bit(n, 3)), "rd", Bit(n, 1) = odd)
    IN  [b EXCEPT !.sw = With(With(banked, "wr", enable \/ (odd /\ "wr" \in banked)), "pre", odd /\ ~wr),
                  !.last = IF wr THEN @ ELSE 49280 + n]

\* $C300 and $CFFF switch the internal ROM at $C800 in and out.
SlotRom(b, a) ==
    IF ~b.iie THEN b
    ELSE IF a = 53247 THEN [b EXCEPT !.sw = @ \ {"c8"}]
    ELSE IF a \div 256 = 195 /\ "c3" \notin b.sw THEN [b EXCEPT !.sw = @ \cup {"c8"}] ELSE b

\* io() and cx(): the switches one access moves; a speaker, paddles, cassette and disk are not among them.
Touch(b, a, wr) ==
    CASE a >= 49408 -> SlotRom(b, a)
      [] a \in 49152 .. 49167 /\ wr /\ b.iie -> IieSwitch(b, a % 16)
      [] a \in 49232 .. 49247 -> VideoSwitch(b, a % 16)
      [] a \in 49280 .. 49295 -> LanguageCard(b, a % 16, wr)
      [] OTHER -> b

CardKind(a, wr, rmw) == IF a % 2 = 0 THEN "even" ELSE IF rmw THEN "rmw" ELSE IF wr THEN "write" ELSE "read"
Remember(c, b, a, wr, rmw) ==
    IF a \notin 49280 .. 49295 THEN c
    ELSE [kinds |-> IF c.kinds = <<>> THEN <<CardKind(a, wr, rmw)>>
                    ELSE <<c.kinds[Len(c.kinds)], CardKind(a, wr, rmw)>>,
          open |-> "wr" \in b.sw]

\* begin(), then an instruction that reads, writes, or reads and writes back.
AppleAccess(a, wr) ==
    LET b == [abus EXCEPT !.last = 0, !.ops = @ + 1]
    IN  abus.ops < MaxAppleOps /\ abus' = Touch(b, a, wr) /\ acard' = Remember(acard, b, a, wr, FALSE)

AppleReadWrite(a) ==
    LET b == Touch([abus EXCEPT !.last = 0, !.ops = @ + 1], a, FALSE)
    IN  /\ abus.ops < MaxAppleOps
        /\ abus' = Touch(b, a, TRUE)
        /\ acard' = Remember(Remember(acard, abus, a, FALSE, FALSE), b, a, TRUE, TRUE)

\* ctrlReset(): a II keeps its switches.
AppleCtrlReset ==
    /\ abus' = IF abus.iie THEN ResetPaging(abus) ELSE abus
    /\ acard' = IF abus.iie THEN [kinds |-> <<>>, open |-> TRUE] ELSE acard

AppleNext ==
    \/ \E a \in AppleIo : AppleAccess(a, FALSE) \/ AppleAccess(a, TRUE) \/ AppleReadWrite(a)
    \/ AppleCtrlReset

\* auxFor()
AuxFor(b, a, wr) ==
    /\ b.iie
    /\ IF a < 512 THEN "altzp" \in b.sw
       ELSE IF "80store" \in b.sw /\ (a \in 1024 .. 2047 \/ ("HIRES" \in b.vf /\ a \in 8192 .. 16383))
            THEN "PAGE2" \in b.vf
            ELSE (IF wr THEN "auxwr" ELSE "auxrd") \in b.sw

\* Faulty: bank 1 of the auxiliary card is where bank 2 is.
AuxLcIndexOne(b, a) == a

AuxLcIndex(b, a) == IF a >= 57344 \/ "bank2" \in b.sw THEN a ELSE a - 4096
LcIndex(b, a) == IF a >= 57344 THEN 8192 + a - 57344 ELSE (IF "bank2" \in b.sw THEN 4096 ELSE 0) + a - 53248

CardCell(b, a) == IF "altzp" \in b.sw THEN <<"aux", AuxLcIndex(b, a)>> ELSE <<"card", LcIndex(b, a)>>
AppleReads(b, a) ==
    IF a < 49152 THEN <<IF AuxFor(b, a, FALSE) THEN "aux" ELSE "main", a>>
    ELSE IF "rd" \in b.sw THEN CardCell(b, a) ELSE <<"rom", a>>
AppleWrites(b, a) ==
    IF a < 49152 THEN <<IF AuxFor(b, a, TRUE) THEN "aux" ELSE "main", a>>
    ELSE IF "wr" \in b.sw THEN CardCell(b, a) ELSE Nowhere

(***************************************************************************)
(* The memory a write reaches is its own: two addresses never share a      *)
(* cell, the two banks of the card at $D000 are different memory, and      *)
(* with RAMRD and RAMWRT alike an address of RAM reads what was written    *)
(* (Apple2Bus::auxFor, lcIndex, auxLcIndex, read8, write8).                *)
(***************************************************************************)
AppleCellsApart ==
    LET other == [abus EXCEPT !.sw = With(@, "bank2", "bank2" \notin @)]
    IN  \A a \in AppleAts :
          /\ \A c \in AppleAts \ {a} : AppleWrites(abus, a) = AppleWrites(abus, c) => AppleWrites(abus, a) = Nowhere
          /\ a \in 53248 .. 57343 /\ AppleWrites(abus, a) # Nowhere =>
                \A c \in AppleAts : AppleWrites(abus, a) # AppleWrites(other, c)
          /\ /\ ("auxrd" \in abus.sw) = ("auxwr" \in abus.sw)
             /\ AppleWrites(abus, a) # Nowhere /\ AppleReads(abus, a)[1] # "rom"
             => AppleReads(abus, a) = AppleWrites(abus, a)

(***************************************************************************)
(* Writes to the card are enabled only by two reads of odd addresses in a  *)
(* row, or by an instruction that reads and writes one, whatever else the  *)
(* program does between; an access to an even address protects it          *)
(* (Apple2Bus::io, m_lcPrewrite).                                          *)
(***************************************************************************)
AppleCardGuarded ==
    LET n == Len(acard.kinds)
    IN  n > 0 => /\ acard.kinds[n] = "even" => "wr" \notin abus.sw
                 /\ "wr" \in abus.sw /\ ~acard.open =>
                       n = 2 /\ acard.kinds \in {<<"read", "read">>, <<"read", "rmw">>}

(***************************************************************************)
(* What is kept twice agrees: the video shows the flags the bus has, and   *)
(* 80STORE is one switch for memory and video (iieSwitch, resetPaging).    *)
(***************************************************************************)
AppleCopiesAgree ==
    /\ abus.shown = abus.vf
    /\ ("80store" \in abus.sw) = ("80STORE" \in abus.vf)
    /\ ("altchar" \in abus.sw) = abus.alt
-----------------------------------------------------------------------------
(***************************************************************************)
(* Apple2Keyboard: a latch with a strobe.  Text that is typed waits until  *)
(* the program has taken the character before.                             *)
(***************************************************************************)
CONSTANTS AppleKeys,    \* letter keys
          MaxText       \* bound: characters of text

VARIABLES akbd,     \* m_code, m_strobe, m_queue, m_wait, m_shift, m_ctrl, m_caps, m_down
          atext     \* history: what was typed, whether somebody pressed a key between, what the program got until then

appleKbdVars == <<akbd, atext>>

AppleKbdInit ==
    /\ \E e \in BOOLEAN :
          akbd = [iie |-> e, code |-> <<"none", "up">>, strobe |-> FALSE, queue |-> <<>>, wait |-> FALSE,
                  shift |-> FALSE, ctrl |-> FALSE, caps |-> TRUE, down |-> {}]
    /\ atext = [due |-> <<>>, got |-> <<>>, mixed |-> FALSE]

Latch(k, c) == [k EXCEPT !.code = c, !.strobe = TRUE]

\* shifted(), and Control with a letter.
Shifted(k, key) == <<key, IF k.ctrl THEN "ctrl" ELSE IF k.iie /\ ~k.shift /\ ~k.caps THEN "low" ELSE "up">>

AppleKey(key, down) ==
    /\ akbd' = IF down THEN Latch([akbd EXCEPT !.down = @ \cup {key}], Shifted(akbd, key))
               ELSE [akbd EXCEPT !.down = @ \ {key}]
    /\ atext' = [atext EXCEPT !.mixed = @ \/ down]

AppleModifier(down) ==
    /\ \/ akbd' = [akbd EXCEPT !.shift = down]
       \/ akbd' = [akbd EXCEPT !.ctrl = down]
       \/ akbd.iie /\ down /\ akbd' = [akbd EXCEPT !.caps = ~@]
    /\ UNCHANGED atext

AppleType(key, form) ==
    LET c == <<key, IF akbd.iie THEN form ELSE "up">>
    IN  /\ Len(atext.due) < MaxText
        /\ akbd' = [akbd EXCEPT !.queue = Append(@, c)]
        /\ atext' = [atext EXCEPT !.due = Append(@, c)]

\* Faulty: the next character is latched over one the program has not taken.
AppleKbdTickAlways ==
    /\ akbd.queue # <<>>
    /\ akbd' = [Latch(akbd, Head(akbd.queue)) EXCEPT !.queue = Tail(@)]
    /\ UNCHANGED atext

AppleKbdTick ==
    /\ akbd.queue # <<>> /\ ~akbd.strobe
    /\ akbd' = IF akbd.wait THEN [akbd EXCEPT !.wait = FALSE]
               ELSE [Latch(akbd, Head(akbd.queue)) EXCEPT !.queue = Tail(@), !.wait = TRUE]
    /\ UNCHANGED atext

\* The program finds the strobe at $C000 and clears it with $C010.
AppleTake ==
    /\ akbd.strobe
    /\ akbd' = [akbd EXCEPT !.strobe = FALSE]
    /\ atext' = [atext EXCEPT !.got = IF atext.mixed THEN @ ELSE Append(@, akbd.code)]

\* clearKeys(), the RESET key (clearStrobe) and power on (reset); text that is dropped is not due.
AppleDrop ==
    \/ /\ akbd' = [akbd EXCEPT !.queue = <<>>, !.shift = FALSE, !.ctrl = FALSE]
       /\ atext' = [atext EXCEPT !.due = atext.got \o (IF akbd.strobe THEN <<akbd.code>> ELSE <<>>)]
    \/ /\ akbd' = [akbd EXCEPT !.strobe = FALSE]
       /\ atext' = [atext EXCEPT !.due = atext.got \o akbd.queue]
    \/ /\ akbd' = [akbd EXCEPT !.strobe = FALSE, !.queue = <<>>, !.wait = FALSE, !.down = {}]
       /\ atext' = [atext EXCEPT !.due = atext.got]

AppleKbdNext ==
    \/ \E key \in AppleKeys, down \in BOOLEAN : AppleKey(key, down)
    \/ \E down \in BOOLEAN : AppleModifier(down)
    \/ \E key \in AppleKeys, form \in {"up", "low"} : AppleType(key, form)
    \/ AppleKbdTick \/ AppleTake \/ AppleDrop

(***************************************************************************)
(* Text arrives as it was typed: what the program took, the character in   *)
(* the latch and the queue are the text, in order, none twice and none     *)
(* lost, unless somebody presses a key meanwhile (tick, enqueueText).      *)
(***************************************************************************)
AppleTextArrives ==
    ~atext.mixed => atext.due = atext.got \o (IF akbd.strobe THEN <<akbd.code>> ELSE <<>>) \o akbd.queue
-----------------------------------------------------------------------------
(***************************************************************************)
(* Plus4Bus: ROM over RAM, four ROMs in each half of the upper 32 KB, the  *)
(* 7501's port with the serial bus, and cartridges.  A C16 has 16 KB of    *)
(* RAM that repeats.  Ports are sets of bits.                              *)
(***************************************************************************)
CONSTANTS Plus4Images,  \* cartridge images
          Plus4Bits     \* values written to the port

VARIABLE pbus       \* m_ramMask, m_romOn and TED's $FF13 bit 0, m_banks, the port, what it drives, m_cart

Plus4Ats == {0, 1, 2, 16383, 16384, 32767, 32768, 49151, 49152, 64511, 64512, 64767, 65311, 65312, 65341, 65344, 65535}

\* resetBanks(), portChanged()
ResetBanks(b) == [b EXCEPT !.rom = TRUE, !.banks = 0, !.dir = {}, !.data = {}, !.driven = {}]

Plus4Init ==
    \E small \in BOOLEAN :
        pbus = ResetBanks([small |-> small, rom |-> TRUE, ted |-> TRUE, banks |-> 0, dir |-> {}, data |-> {},
                           driven |-> {}, cart |-> [n \in 0 .. 3 |-> 0]])

\* A store to $FF3E or $FF3F: TED's register and, through setRomSelect, the bus.
Plus4RomSelect(on) == pbus' = [pbus EXCEPT !.ted = on, !.rom = on]
Plus4BankSelect(n) == pbus' = [pbus EXCEPT !.banks = n]

\* Faulty: a new direction does not reach the serial bus.
Plus4PortStoreLate(reg, bits) ==
    pbus' = IF reg = 0 THEN [pbus EXCEPT !.dir = bits \ {5}]
            ELSE [pbus EXCEPT !.data = bits, !.driven = bits \cap pbus.dir \cap 0 .. 2]

\* write8() of addresses 0 and 1; bits 0 to 2 of the outputs pull DATA, CLK and ATN.
Plus4PortStore(reg, bits) ==
    LET b == IF reg = 0 THEN [pbus EXCEPT !.dir = bits \ {5}] ELSE [pbus EXCEPT !.data = bits]
    IN  pbus' = [b EXCEPT !.driven = b.dir \cap b.data \cap 0 .. 2]

\* onReset: the bus, then TED, which stores to $FF3E.
Plus4Reset == pbus' = [ResetBanks(pbus) EXCEPT !.ted = TRUE, !.rom = TRUE]

\* parseCartridge(): a raw image is C1, a .crt says where each chip goes; a chip is <<rom, image byte>>.
ImageChips(img) ==
    CASE img.kind = "crt" -> img.chips
      [] img.kind = "raw" /\ img.size \in {8, 16} -> <<<<0, 1>>>>
      [] img.kind = "raw" /\ img.size = 32 -> <<<<0, 1>>, <<1, 2>>>>
      [] OTHER -> <<>>
Parses(img) == ImageChips(img) # <<>> /\ \A i \in 1 .. Len(ImageChips(img)) : ImageChips(img)[i][1] \in 0 .. 3

\* put(): of several chips for a ROM the last one stays; an empty ROM is 0.
Placed(chips) ==
    [n \in 0 .. 3 |->
        LET at == {i \in 1 .. Len(chips) : chips[i][1] = n}
        IN  IF at = {} THEN 0 ELSE chips[CHOOSE i \in at : \A j \in at : j <= i][2]]

\* insertCartridge() and removeCartridge() reset the machine; a wrong image changes nothing.
Plus4Insert(img) ==
    /\ Parses(img)
    /\ pbus' = [ResetBanks(pbus) EXCEPT !.ted = TRUE, !.cart = Placed(ImageChips(img))]
Plus4Remove == pbus' = [ResetBanks(pbus) EXCEPT !.ted = TRUE, !.cart = [n \in 0 .. 3 |-> 0]]

Plus4Next ==
    \/ \E on \in BOOLEAN : Plus4RomSelect(on)
    \/ \E n \in 0 .. 15 : Plus4BankSelect(n)
    \/ \E reg \in 0 .. 1, bits \in Plus4Bits : Plus4PortStore(reg, bits)
    \/ \E img \in Plus4Images : Plus4Insert(img)
    \/ Plus4Reset \/ Plus4Remove

RamCell(b, a) == <<"ram", IF b.small THEN a % 16384 ELSE a>>
IsTed(b, a, wr) == a \in 65280 .. 65311 \/ (a \in 65342 .. 65343 /\ (wr \/ ~b.ted))
IsIo(b, a, wr) == a \in 64768 .. 65279 \/ IsTed(b, a, wr)

\* Faulty: $FC00 is banked like the rest.
RomReadAll(b, a) ==
    IF a < 49152 THEN <<"low", b.banks % 4>> ELSE <<"high", b.banks \div 4>>

\* romRead(): which ROM; the KERNAL is bank 0 of the upper half.
RomRead(b, a) ==
    IF a < 49152 THEN <<"low", b.banks % 4>>
    ELSE IF a \in 64512 .. 64767 THEN <<"high", 0>> ELSE <<"high", b.banks \div 4>>

Plus4Reads(b, a) ==
    IF a < 2 THEN <<"port", a>> ELSE IF IsIo(b, a, FALSE) THEN <<"io", a>>
    ELSE IF a >= 32768 /\ b.rom THEN RomRead(b, a) ELSE RamCell(b, a)
Plus4Writes(b, a) == IF IsIo(b, a, TRUE) THEN <<"io", a>> ELSE RamCell(b, a)
TedFetches(b, a, fromRom) == IF fromRom /\ a >= 32768 THEN RomRead(b, a) ELSE RamCell(b, a)

(***************************************************************************)
(* TED and bus agree on ROM or RAM, so that TED fetches what the program   *)
(* reads; writes reach RAM under ROM, where TED finds them; the page that  *)
(* switches banks is the KERNAL's in every bank (Plus4Bus, Ted::store).    *)
(***************************************************************************)
Plus4MapRight ==
    /\ pbus.rom = pbus.ted
    /\ \A a \in Plus4Ats :
          /\ ~IsIo(pbus, a, FALSE) /\ a >= 2 => Plus4Reads(pbus, a) = TedFetches(pbus, a, pbus.rom)
          /\ ~IsIo(pbus, a, TRUE) => Plus4Writes(pbus, a) = TedFetches(pbus, a, FALSE)
          /\ a \in 64512 .. 64767 /\ pbus.rom => Plus4Reads(pbus, a) = <<"high", 0>>

(***************************************************************************)
(* The serial bus carries what the port says, after any order of stores to *)
(* direction and data and after a reset (write8, portChanged, resetBanks). *)
(***************************************************************************)
Plus4LinesFollow == pbus.driven = pbus.dir \cap pbus.data \cap 0 .. 2
-----------------------------------------------------------------------------
(***************************************************************************)
(* Plus4Keyboard: names are keys, some with SHIFT; typed text presses and  *)
(* releases a name and then clears the matrix.                             *)
(***************************************************************************)
CONSTANTS Plus4Keys,    \* keys that have a shifted name as well
          MaxStrokes    \* bound: events in the queue

VARIABLE pkeys      \* m_rows as the keys that are down, m_queue, and a history of the keys people hold

Plus4KeysInit == pkeys = [down |-> {}, queue |-> <<>>, held |-> {}]

KeysNamed(k, shifted) == IF shifted THEN {k, "left_shift"} ELSE {k}
Plus4Set(keys, k, shifted, down) == IF down THEN keys \cup KeysNamed(k, shifted) ELSE keys \ KeysNamed(k, shifted)

Plus4Hold(k, shifted, down) ==
    pkeys' = [pkeys EXCEPT !.down = Plus4Set(@, k, shifted, down), !.held = Plus4Set(@, k, shifted, down)]

Plus4Type(k, shifted) ==
    LET stroke(down) == [key |-> k, shifted |-> shifted, down |-> down, clear |-> FALSE]
    IN  /\ Len(pkeys.queue) + 3 <= MaxStrokes
        /\ pkeys' = [pkeys EXCEPT !.queue = @ \o <<stroke(TRUE), stroke(FALSE), [stroke(FALSE) EXCEPT !.clear = TRUE]>>]

Plus4KeysTick ==
    LET e == Head(pkeys.queue)
    IN  /\ pkeys.queue # <<>>
        /\ pkeys' = [pkeys EXCEPT !.queue = Tail(@),
                                  !.down = IF e.clear THEN {} ELSE Plus4Set(@, e.key, e.shifted, e.down)]

Plus4ClearKeys == pkeys' = [pkeys EXCEPT !.down = {}, !.held = {}]

\* Faulty: the queue is dropped with a key of it down.
Plus4KeysResetQueue == pkeys' = [pkeys EXCEPT !.queue = <<>>]

Plus4KeysReset == pkeys' = [pkeys EXCEPT !.queue = <<>>, !.down = {}]

Plus4KeysNext ==
    \/ \E k \in Plus4Keys, shifted, down \in BOOLEAN : Plus4Hold(k, shifted, down)
    \/ \E k \in Plus4Keys, shifted \in BOOLEAN : Plus4Type(k, shifted)
    \/ Plus4KeysTick \/ Plus4ClearKeys \/ Plus4KeysReset

(***************************************************************************)
(* When the text is through, or dropped by a reset between a press and its *)
(* release, only keys that people hold are down (tick, reset).             *)
(***************************************************************************)
Plus4NoKeyStuck == pkeys.queue = <<>> => pkeys.down \subseteq pkeys.held
-----------------------------------------------------------------------------
(***************************************************************************)
(* Atari: the bus, port B of the PIA that banks an XL, and the cartridge   *)
(* slot.  A cartridge type is a family and a size in KB; m_state is kept   *)
(* as the number it is.  Port values are sets of the bits 0, 1 and 7.      *)
(***************************************************************************)
CONSTANTS AtariCarts,   \* cartridge types
          AtariCctl,    \* addresses and values of accesses to $D5xx
          MaxAtariOps   \* bound: accesses between resets

VARIABLE atari      \* AtariBus, BankingPort, the PIA's registers, Cartridge, TRIG3, a snapshot

NoCart == [fam |-> "none", kb |-> 0]
AtariPins == {0, 1, 7}
AtariAts == {0, 20480, 22527, 22528, 32768, 40959, 40960, 49151, 49152, 53247, 55296, 65535}

\* setPortB()
SetPortB(b, v) ==
    IF ~b.xl THEN b ELSE [b EXCEPT !.os = 0 \in v, !.basic = 1 \notin v, !.self = 7 \notin v /\ 0 \in v]

\* resetBanking()
ResetBanking(b) ==
    IF b.xl THEN SetPortB(b, AtariPins) ELSE [b EXCEPT !.os = TRUE, !.basic = b.cart = NoCart, !.self = FALSE]

\* Cartridge::reset()
CartStart(t) == CASE t.fam = "oss034" -> 1 [] t.fam = "atmaxold" -> 127 [] OTHER -> 0

Flipped(a) == (a % 16) - 2 * (a % 8) + 7

\* Cartridge::access()
CartAccess(t, s, a) ==
    CASE t.fam \in {"oss034", "oss043"} ->
            IF Bit(a, 3) THEN -1
            ELSE CASE a % 8 = 0 -> 0
                   [] a % 8 \in {3, 7} -> IF t.fam = "oss034" THEN 1 ELSE 2
                   [] a % 8 = 4 -> IF t.fam = "oss034" THEN 2 ELSE 1
                   [] OTHER -> 255
      [] t.fam = "ossm091" -> IF Bit(a, 3) THEN (IF Bit(a, 0) THEN 2 ELSE -1) ELSE (IF Bit(a, 0) THEN 3 ELSE 1)
      [] t.fam = "oss8" -> IF Bit(a, 3) THEN (IF Bit(a, 0) THEN 0 ELSE -1) ELSE 1
      [] t.fam = "db" -> a % 4
      [] t.fam = "will" -> IF t.kb = 64 THEN a % 16 ELSE (a % 4) + (a % 16) - (a % 8)
      [] t.fam = "express" -> IF a \div 16 = 7 THEN Flipped(a) ELSE s
      [] t.fam = "diamond" -> IF a \div 16 = 13 THEN Flipped(a) ELSE s
      [] t.fam = "sdx" /\ t.kb = 64 -> IF a \div 16 # 14 THEN s ELSE IF Bit(a, 3) THEN (a % 16) - (a % 4) ELSE Flipped(a)
      [] t.fam = "sdx" /\ t.kb = 128 ->
            IF a \div 32 # 7 THEN s
            ELSE IF Bit(a, 3) THEN (a % 16) - (a % 4) ELSE Flipped(a) + (IF Bit(a, 4) THEN 0 ELSE 16)
      [] t.fam \in {"phoenix", "blizzard"} -> 1
      [] t.fam = "atmax128" -> IF a \div 32 = 0 THEN a ELSE s
      [] t.fam \in {"atmaxold", "atmaxnew"} -> a
      [] OTHER -> s

\* Faulty: the bank number is not cut to the size of the image.
CartWriteWide(t, s, a, v) == IF t.fam \in {"xegs", "swxegs", "mega"} THEN v ELSE CartAccess(t, s, a)

\* Cartridge::writeCctl(): some types take their bank from the value.
CartWrite(t, s, a, v) ==
    CASE t.fam = "xegs" -> v % (t.kb \div 8)
      [] t.fam = "swxegs" -> (v % (t.kb \div 8)) + v - (v % 128)
      [] t.fam = "mega" -> (v % (t.kb \div 16)) + v - (v % 128)
      [] OTHER -> CartAccess(t, s, a)

Rd4(t, s) ==
    \/ t.fam = "std" /\ t.kb = 16
    \/ t.fam = "blizzard" /\ s = 0
    \/ t.fam \in {"xegs", "swxegs", "mega", "db"} /\ s < 128
Rd5(t, s) ==
    \/ t.fam = "std"
    \/ t.fam \in {"phoenix", "blizzard"} /\ s = 0
    \/ t.fam \in {"oss034", "oss043", "ossm091", "oss8"} /\ s >= 0
    \/ t.fam \in {"will", "express", "diamond", "sdx"} /\ ~Bit(s, 3)
    \/ t.fam = "atmax128" /\ ~Bit(s, 4)
    \/ t.fam \in {"atmaxold", "atmaxnew", "xegs", "swxegs", "mega", "db"} /\ s < 128

\* Cartridge::read(): the KB of the image an address reads, -1 where it reads $FF.
CartKb(t, s, a) ==
    LET off == (a - (IF a < 40960 THEN 32768 ELSE 40960)) \div 1024
        banked == CASE t.fam = "sdx" /\ t.kb = 128 -> (s % 8) + (IF Bit(s, 4) THEN 8 ELSE 0)
                    [] t.fam \in {"will", "express", "diamond", "sdx"} -> s % 8
                    [] t.fam = "atmax128" -> s % 16
                    [] OTHER -> s % 128
    IN  IF a < 40960
        THEN CASE t.fam \in {"std", "blizzard"} -> off
               [] t.fam \in {"xegs", "swxegs", "db"} -> banked * 8 + off
               [] t.fam = "mega" -> banked * 16 + off
               [] OTHER -> -1
        ELSE CASE t.fam \in {"std", "phoenix", "blizzard"} -> IF t.kb = 16 THEN 8 + off ELSE off
               [] t.fam \in {"oss034", "oss043", "ossm091", "oss8"} ->
                     IF off >= 4 THEN (IF t.fam \in {"oss034", "oss043"} THEN 12 ELSE 0) + off - 4
                     ELSE IF s = 255 THEN -1 ELSE s * 4 + off
               [] t.fam \in {"xegs", "swxegs", "db"} -> t.kb - 8 + off
               [] t.fam = "mega" -> banked * 16 + 8 + off
               [] OTHER -> banked * 8 + off

\* cartChanged: on an XL the trigger input 3 is RD5.
CartChanged(b) == IF b.xl THEN [b EXCEPT !.trig = ~Rd5(b.cart, b.state)] ELSE b

\* onReset: the chips, the cartridge, the port, the banks, TRIG3.
AtariPowerOn(b) ==
    CartChanged(ResetBanking(
        [b EXCEPT !.orb = AtariPins, !.pddr = {}, !.out = {}, !.ddr = {}, !.trig = FALSE,
                  !.state = CartStart(b.cart), !.loaded = FALSE, !.ops = 0]))

AtariInit ==
    \E xl \in BOOLEAN :
        atari = AtariPowerOn([xl |-> xl, os |-> TRUE, basic |-> FALSE, self |-> FALSE, cart |-> NoCart, state |-> 0,
                              orb |-> {}, pddr |-> {}, out |-> {}, ddr |-> {}, trig |-> FALSE, snap |-> <<>>,
                              loaded |-> FALSE, ops |-> 0])

AtariOp(b) == atari.ops < MaxAtariOps /\ atari' = [b EXCEPT !.ops = @ + 1]

\* BankingPort::apply(), after a store to the PIA's port B or its direction.
Apply(b) == SetPortB(b, (b.out \cap b.ddr) \cup (AtariPins \ b.ddr))
AtariPortB(v) == AtariOp(IF atari.xl THEN [Apply([atari EXCEPT !.out = v]) EXCEPT !.orb = v, !.loaded = FALSE] ELSE [atari EXCEPT !.orb = v])
AtariDdrB(v) == AtariOp(IF atari.xl THEN [Apply([atari EXCEPT !.ddr = v]) EXCEPT !.pddr = v, !.loaded = FALSE] ELSE [atari EXCEPT !.pddr = v])

\* Faulty: a bank switch does not tell the OS's trigger input.
AtariCctlAccessSilent(a, v, wr) ==
    /\ atari.cart # NoCart
    /\ AtariOp([atari EXCEPT !.state = IF wr THEN CartWrite(atari.cart, @, a, v) ELSE CartAccess(atari.cart, @, a)])

AtariCctlAccess(a, v, wr) ==
    /\ atari.cart # NoCart
    /\ AtariOp(CartChanged([atari EXCEPT
           !.state = IF wr THEN CartWrite(atari.cart, @, a, v) ELSE CartAccess(atari.cart, @, a)]))

\* insertCartridge() and removeCartridge(); a snapshot taken with another cartridge is not loaded.
AtariInsert(t) == atari' = AtariPowerOn([atari EXCEPT !.cart = t, !.snap = <<>>])
AtariReset == atari' = AtariPowerOn(atari)

\* saveState() and loadState() keep the banks and the cartridge's, not the port's registers.
AtariSave == AtariOp([atari EXCEPT !.snap = <<atari.os, atari.basic, atari.self, atari.state>>])
AtariLoad ==
    LET s == atari.snap
        b == [atari EXCEPT !.os = s[1], !.basic = s[2], !.self = s[3], !.loaded = TRUE]
    IN  s # <<>> /\ AtariOp(IF atari.cart = NoCart THEN b ELSE CartChanged([b EXCEPT !.state = s[4]]))

AtariNext ==
    \/ \E v \in SUBSET AtariPins : AtariPortB(v) \/ AtariDdrB(v)
    \/ \E a \in AtariCctl, v \in AtariCctl, wr \in BOOLEAN : (wr \/ v = a) /\ AtariCctlAccess(a, v, wr)
    \/ \E t \in AtariCarts \cup {NoCart} : AtariInsert(t)
    \/ AtariReset \/ AtariSave \/ AtariLoad

CartAnswers(b, a) == a \in 32768 .. 49151 /\ IF a < 40960 THEN Rd4(b.cart, b.state) ELSE Rd5(b.cart, b.state)

\* Faulty: writes go to the RAM under the self test.
WritableSelf(b, a) ==
    /\ ~CartAnswers(b, a)
    /\ IF b.xl THEN /\ b.os => a \notin 49152 .. 53247 /\ a < 55296
                    /\ b.basic => a \notin 40960 .. 49151
       ELSE a < 49152 /\ (b.basic => a < 40960)

Writable(b, a) ==
    /\ ~CartAnswers(b, a)
    /\ IF b.xl THEN /\ b.os => a \notin 49152 .. 53247 /\ a < 55296
                    /\ b.basic => a \notin 40960 .. 49151
                    /\ b.self => a \notin 20480 .. 22527
       ELSE a < 49152 /\ (b.basic => a < 40960)

\* read(), outside the chips.
AtariReads(b, a) ==
    CASE CartAnswers(b, a) -> "cart"
      [] ~CartAnswers(b, a) /\ b.xl ->
            IF b.os /\ (a \in 49152 .. 53247 \/ a >= 55296) THEN "os"
            ELSE IF b.self /\ a \in 20480 .. 22527 THEN "self"
            ELSE IF b.basic /\ a \in 40960 .. 49151 THEN "basic" ELSE "ram"
      [] OTHER -> IF a >= 55296 THEN "os" ELSE IF a >= 49152 THEN "none"
                  ELSE IF b.basic /\ a >= 40960 THEN "basic" ELSE "ram"

(***************************************************************************)
(* An address reads RAM if, and only if, a write to it changes RAM, under  *)
(* every bank, BASIC, self test and cartridge (read, writable).            *)
(***************************************************************************)
AtariReadsBack == \A a \in AtariAts : (AtariReads(atari, a) = "ram") = Writable(atari, a)

(***************************************************************************)
(* What is kept twice agrees: TRIG3 of an XL tells the OS whether the      *)
(* cartridge is in the map, and the banks are what port B puts out, or a   *)
(* snapshot's until the next store to the port (cartChanged, apply,        *)
(* resetBanking).                                                          *)
(***************************************************************************)
AtariCopiesAgree ==
    atari.xl => /\ atari.trig = ~Rd5(atari.cart, atari.state)
                /\ ~atari.loaded => atari = Apply(atari)

(***************************************************************************)
(* A bank that can be selected is in the image: no enabled address reads   *)
(* beyond it (Cartridge::access, writeCctl, read, load).                   *)
(***************************************************************************)
AtariBankInside ==
    \A a \in AtariAts : CartAnswers(atari, a) => CartKb(atari.cart, atari.state, a) \in -1 .. atari.cart.kb - 1
-----------------------------------------------------------------------------
(***************************************************************************)
(* AtariKeyboard with POKEY's keyboard register: people press keys, and    *)
(* typed text presses the next one when the OS's one-key buffer CH ($2FC)  *)
(* is free.  A tick here is the two frames the typing waits for; the OS    *)
(* takes POKEY's interrupt at once (external).                             *)
(***************************************************************************)
CONSTANTS AtariKeys     \* keys that can be typed with and without shift

VARIABLES ikbd,     \* m_held, m_shift, m_queue, m_typing, m_lastCode, m_typedShift, SKSTAT, SKCTL, CH, a console key
          itext     \* history: as atext

atariKbdVars == <<ikbd, itext>>

ChFree == <<"none", FALSE>>
AtariKbdStart == [held |-> {}, shift |-> FALSE, queue |-> <<>>, typing |-> 0, last |-> ChFree, tshift |-> FALSE,
                  down |-> FALSE, low |-> FALSE, scan |-> FALSE, ch |-> ChFree, console |-> FALSE]

AtariKbdInit == ikbd = [AtariKbdStart EXCEPT !.scan = TRUE] /\ itext = [due |-> <<>>, got |-> <<>>, mixed |-> FALSE]

\* POKEY::keyDown(), ignored while SKCTL has the scan off; the OS puts the code in CH.
PokeyDown(k, code) == IF k.scan THEN [k EXCEPT !.down = TRUE, !.ch = code] ELSE k

\* press() and the shift key.
AtariPress(key) ==
    /\ ikbd' = PokeyDown([ikbd EXCEPT !.held = @ \cup {key}], <<key, ikbd.shift>>)
    /\ itext' = [itext EXCEPT !.mixed = TRUE]
AtariLift(key) ==
    LET held == ikbd.held \ {key}
    IN  ikbd' = [ikbd EXCEPT !.held = held, !.down = @ /\ held # {}] /\ UNCHANGED itext
AtariShift(down) == ikbd' = [ikbd EXCEPT !.shift = down, !.low = down] /\ UNCHANGED itext
AtariClearKeys == ikbd' = [ikbd EXCEPT !.held = {}, !.down = FALSE] /\ UNCHANGED itext

AtariType(key, shift) ==
    /\ Len(itext.due) < MaxText
    /\ ikbd' = [ikbd EXCEPT !.queue = Append(@, <<key, shift>>)]
    /\ itext' = [itext EXCEPT !.due = Append(@, <<key, shift>>)]

\* holdConsoleKey() at boot, let go by a later tick.
AtariHoldConsole == ikbd' = [ikbd EXCEPT !.console = TRUE] /\ UNCHANGED itext
AtariConsoleTick == ikbd.console /\ ikbd' = [ikbd EXCEPT !.console = FALSE] /\ UNCHANGED itext

\* Faulty: a key is typed before CH is free.
MayTypeAnyhow(k) == k.queue # <<>>

MayType(k) == k.queue # <<>> /\ k.ch = ChFree

\* The release of a typed key.
AtariTickUp ==
    /\ ikbd.typing = 1
    /\ ikbd' = [ikbd EXCEPT !.down = FALSE, !.low = @ /\ ~ikbd.tshift, !.typing = 2]
    /\ UNCHANGED itext

\* The next key; the same key again waits once more.
AtariTickDown ==
    LET code == Head(ikbd.queue)
    IN  /\ ikbd.typing # 1 /\ MayType(ikbd)
        /\ IF code = ikbd.last /\ ikbd.typing = 2
           THEN ikbd' = [ikbd EXCEPT !.typing = 3] /\ UNCHANGED itext
           ELSE /\ ikbd' = PokeyDown([ikbd EXCEPT !.last = code, !.queue = Tail(@), !.tshift = code[2],
                                                  !.low = @ \/ code[2], !.typing = 1], code)
                /\ itext' = [itext EXCEPT !.mixed = @ \/ ~ikbd.scan]

AtariTickIdle == ikbd.typing \in 2 .. 3 /\ ikbd.queue = <<>> /\ ikbd' = [ikbd EXCEPT !.typing = 0] /\ UNCHANGED itext

\* External: BASIC takes the key in CH; the OS turns the scan on after a reset.
AtariTake ==
    /\ ikbd.ch # ChFree
    /\ ikbd' = [ikbd EXCEPT !.ch = ChFree]
    /\ itext' = [itext EXCEPT !.got = IF itext.mixed THEN @ ELSE Append(@, ikbd.ch)]
AtariScanOn == ikbd' = [ikbd EXCEPT !.scan = TRUE] /\ UNCHANGED itext

\* reset() of keyboard and POKEY; CH is RAM, and m_typedShift stays.
AtariKbdReset ==
    /\ ikbd' = [AtariKbdStart EXCEPT !.ch = ikbd.ch, !.tshift = ikbd.tshift, !.console = ikbd.console]
    /\ itext' = [itext EXCEPT !.due = itext.got \o (IF ikbd.ch = ChFree THEN <<>> ELSE <<ikbd.ch>>)]

AtariKbdNext ==
    \/ \E key \in AtariKeys : AtariPress(key) \/ AtariLift(key) \/ AtariType(key, TRUE) \/ AtariType(key, FALSE)
    \/ \E down \in BOOLEAN : AtariShift(down)
    \/ AtariClearKeys \/ AtariHoldConsole \/ AtariConsoleTick
    \/ AtariTickUp \/ AtariTickDown \/ AtariTickIdle \/ AtariTake \/ AtariScanOn \/ AtariKbdReset

(***************************************************************************)
(* Typed text reaches CH in order, none twice and none overwritten, unless *)
(* somebody presses a key meanwhile or the scan is off; and POKEY shows a  *)
(* key or SHIFT as down only while somebody holds it or it is being typed  *)
(* (tick, press, reset).                                                   *)
(***************************************************************************)
AtariTextArrives ==
    /\ ~itext.mixed => itext.due = itext.got \o (IF ikbd.ch = ChFree THEN <<>> ELSE <<ikbd.ch>>) \o ikbd.queue
    /\ ikbd.down => ikbd.held # {} \/ ikbd.typing = 1
    /\ ikbd.low => ikbd.shift \/ (ikbd.typing = 1 /\ ikbd.tshift)
=============================================================================
