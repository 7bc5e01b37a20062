----------------------------- MODULE MCMachines -----------------------------
(***************************************************************************)
(* A C64's interrupts, the Commander X16, and the maps and keyboards of    *)
(* Apple II, Plus/4 and Atari for TLC.  A behaviour is a behaviour of the  *)
(* part chosen at the start.                                               *)
(***************************************************************************)
EXTENDS Interrupts6502, Vera, X16, HomeComputers

VARIABLE unit   \* the part this behaviour is about

x16Vars == <<busVars, smcVars, i2cVars, rtcVars, padVars>>
homeVars == <<appleVars, appleKbdVars, pbus, pkeys, atari, atariKbdVars>>
machineVars == <<unit, vars, veraVars, rasterVars, vline, cardVars, x16Vars, homeVars>>

Units == {"c64", "ports", "raster", "sound", "lines", "card",
          "banks", "smc", "i2c", "rtc", "pads",
          "apple", "apple keys", "plus4", "plus4 keys", "atari", "atari keys"}

\* The parts that are not chosen start, and stay, in one of their states.
VeraAtRest ==
    /\ vera = VeraReset /\ vram = VramReset /\ vshadow = [c \in Special |-> 0]
    /\ vpast = [stale |-> {0, 1}, apart |-> Special, ops |-> 0]

\* The machines below have no state unless they are chosen.
X16Init ==
    /\ IF unit = "banks" THEN BusInit ELSE xbus = 0 /\ xirq = 0
    /\ IF unit = "smc" THEN SmcInit ELSE smc = 0 /\ xtext = 0 /\ xseen = 0
    /\ IF unit = "i2c" THEN I2cInit ELSE i2c = 0 /\ imem = 0 /\ imaster = 0 /\ iseen = 0
    /\ IF unit = "rtc" THEN RtcInit ELSE rtc = 0 /\ rtrue = 0
    /\ IF unit = "pads" THEN PadInit ELSE pads = 0 /\ padseen = 0

HomeInit ==
    /\ IF unit = "apple" THEN AppleInit ELSE abus = 0 /\ acard = 0
    /\ IF unit = "apple keys" THEN AppleKbdInit ELSE akbd = 0 /\ atext = 0
    /\ IF unit = "plus4" THEN Plus4Init ELSE pbus = 0
    /\ IF unit = "plus4 keys" THEN Plus4KeysInit ELSE pkeys = 0
    /\ IF unit = "atari" THEN AtariInit ELSE atari = 0
    /\ IF unit = "atari keys" THEN AtariKbdInit ELSE ikbd = 0 /\ itext = 0

MachinesInit ==
    /\ unit \in Units
    /\ X16Init /\ HomeInit
    /\ Init /\ RasterInit /\ CardInit
    /\ IF unit = "ports" THEN VeraInit ELSE VeraAtRest
    /\ IF unit = "lines" THEN LineInit ELSE vline = [kind |-> "none", out |-> <<>>]

MachinesNext ==
    /\ \/ unit = "c64" /\ Next
       \/ unit = "ports" /\ VeraNext
       \/ unit = "raster" /\ (ScanNext \/ EnableNext)
       \/ unit = "sound" /\ (SoundNext \/ EnableNext)
       \/ unit = "lines" /\ DrawLine
       \/ unit = "card" /\ CardNext
       \/ unit = "banks" /\ BusNext
       \/ unit = "smc" /\ SmcNext
       \/ unit = "i2c" /\ I2cNext
       \/ unit = "rtc" /\ RtcNext
       \/ unit = "pads" /\ PadNext
       \/ unit = "apple" /\ AppleNext
       \/ unit = "apple keys" /\ AppleKbdNext
       \/ unit = "plus4" /\ Plus4Next
       \/ unit = "plus4 keys" /\ Plus4KeysNext
       \/ unit = "atari" /\ AtariNext
       \/ unit = "atari keys" /\ AtariKbdNext
    /\ unit # "c64" => UNCHANGED vars
    /\ unit # "ports" => UNCHANGED veraVars
    /\ unit \notin {"raster", "sound"} => UNCHANGED rasterVars
    /\ unit # "lines" => UNCHANGED vline
    /\ unit # "card" => UNCHANGED cardVars
    /\ unit # "banks" => UNCHANGED busVars
    /\ unit # "smc" => UNCHANGED smcVars
    /\ unit # "i2c" => UNCHANGED i2cVars
    /\ unit # "rtc" => UNCHANGED rtcVars
    /\ unit # "pads" => UNCHANGED padVars
    /\ unit # "apple" => UNCHANGED appleVars
    /\ unit # "apple keys" => UNCHANGED appleKbdVars
    /\ unit # "plus4" => UNCHANGED pbus
    /\ unit # "plus4 keys" => UNCHANGED pkeys
    /\ unit # "atari" => UNCHANGED atari
    /\ unit # "atari keys" => UNCHANGED atariKbdVars
    /\ UNCHANGED unit

\* The scheduler loop of FairSpec, for the C64.
MachinesSpec ==
    /\ MachinesInit /\ [][MachinesNext]_machineVars
    /\ WF_vars(unit = "c64" /\ CpuStep) /\ WF_vars(unit = "c64" /\ Tick)

MCVeraIncs == {[by |-> 1, down |-> TRUE], [by |-> 4, down |-> FALSE]}
MCVeraFx ==
    {FxOff, [FxOff EXCEPT !.mode = 1, !.four = TRUE], [FxOff EXCEPT !.mode = 2, !.four = TRUE, !.cycle = TRUE],
     [FxOff EXCEPT !.mode = 3], [FxOff EXCEPT !.hop = TRUE, !.fill = TRUE],
     [FxOff EXCEPT !.write = TRUE, !.trans = TRUE, !.four = TRUE]}
MCSprites ==
    {[here |-> TRUE, z |-> z, x |-> x, flip |-> f, row |-> <<1, 0, 2>>, mask |-> m] :
        z \in {0, 1, 3}, x \in {-1, 2}, f \in BOOLEAN, m \in {{}, {"a"}}}

MCI2cJobs ==
    {[rd |-> r, dev |-> d, reg |-> 2, val |-> 0] : r \in {TRUE}, d \in 0 .. 3}
    \cup {[rd |-> FALSE, dev |-> d, reg |-> 2, val |-> 5] : d \in {1, 3}}
    \cup {[rd |-> FALSE, dev |-> 3, reg |-> 5, val |-> 1], [rd |-> FALSE, dev |-> 2, reg |-> 1, val |-> 1]}

\* One or two of every kind of soft switch; both cards' addresses.
MCAppleIo ==
    {49152, 49153, 49155, 49157, 49161, 49163, 49165, 49167, 49233, 49237, 49239, 49246, 49280, 49281, 49283, 49291, 49920, 53247}
MCPlus4Images ==
    {[kind |-> "raw", size |-> n, chips |-> <<>>] : n \in {5, 16, 32}}
    \cup {[kind |-> "crt", size |-> 0, chips |-> c] : c \in {<<<<0, 1>>, <<0, 2>>, <<3, 3>>>>, <<<<4, 1>>>>}}
MCPlus4Bits == {{}, {0}, {0, 1, 5}, {2, 3}}
MCAtariCarts ==
    {[fam |-> f, kb |-> 8] : f \in {"std", "oss8", "phoenix"}}
    \cup {[fam |-> f, kb |-> 16] : f \in {"std", "oss034", "oss043", "ossm091", "blizzard"}}
    \cup {[fam |-> f, kb |-> 64] : f \in {"will", "express", "diamond", "sdx", "swxegs", "mega"}}
    \cup {[fam |-> f, kb |-> 128] : f \in {"sdx", "atmax128", "xegs"}}
    \cup {[fam |-> f, kb |-> 1024] : f \in {"atmaxold", "atmaxnew"}}
    \cup {[fam |-> f, kb |-> 32] : f \in {"will", "db"}}

(***************************************************************************)
(* VERA's ports, shadows, interrupts, queues, lines and card are right;    *)
(* the X16's banks, SMC, I2C bus, clock and pads are; and so are the maps  *)
(* and keyboards of Apple II, Plus/4 and Atari.                            *)
(***************************************************************************)
MachinesRight ==
    /\ unit = "ports" => VeraPortsFresh /\ VeraShadowed
    /\ unit \in {"raster", "sound"} => VeraIrqFollows /\ VeraFieldTold /\ VeraQueues
    /\ unit = "lines" => VeraSpritesRight /\ VeraTilesRight /\ VeraPiecesRight
    /\ unit = "card" => VeraCardRight
    /\ unit = "banks" => BanksTold
    /\ unit = "smc" => SmcTextArrives /\ SmcPacketsWhole
    /\ unit = "i2c" => I2cDelivers
    /\ unit = "rtc" => RtcKeepsTime
    /\ unit = "pads" => PadBitsRight
    /\ unit = "apple" => AppleCellsApart /\ AppleCardGuarded /\ AppleCopiesAgree
    /\ unit = "apple keys" => AppleTextArrives
    /\ unit = "plus4" => Plus4MapRight /\ Plus4LinesFollow
    /\ unit = "plus4 keys" => Plus4NoKeyStuck
    /\ unit = "atari" => AtariReadsBack /\ AtariCopiesAgree /\ AtariBankInside
    /\ unit = "atari keys" => AtariTextArrives
=============================================================================
