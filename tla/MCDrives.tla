------------------------------ MODULE MCDrives ------------------------------
(***************************************************************************)
(* The disk drives for TLC: the IEEE-488 bus with the drive's DOS behind   *)
(* it, and the two DOS implementations, on a disk image and on a host      *)
(* folder; and the Commodore 128.  A behaviour is a behaviour of the part  *)
(* chosen at the start; the other parts stay in one of their states.  The  *)
(* serial bus is in MCDevices.                                             *)
(***************************************************************************)
EXTENDS Ieee488Bus, CbmImageDos, CbmHostDos, C128

VARIABLE unit   \* the part this behaviour is about

ieeeOwn == <<ctl, ieee, pet>>
c128Vars == <<c128MapVars, crun, ckeys, cflash, eepVars, ccart, cimage>>
vars == <<unit, ieeeOwn, dosVars, imgVars, hostVars, c128Vars>>

Init ==
    /\ unit \in {"ieee488", "image", "folder", "c128map", "c128run", "c128keys", "flash", "eeprom", "cart"}
    /\ IeeeInit
    /\ ImgInit /\ (unit # "image" => imgDisk.writable /\ ~imgDisk.dir[1].slots[1].locked)
    /\ HostInit /\ (unit # "folder" => host.lists)
    /\ IF unit = "c128map" THEN C128MapInit
       ELSE cmmu = [MmuReset EXCEPT !.z80 = FALSE, !.c64 = TRUE] /\ cport = [n \in 0 .. 2 |-> TRUE]
    /\ C128RunInit /\ C128KeysInit /\ C128FlashInit /\ C128EepInit
    /\ IF unit = "cart" THEN C128CartInit /\ C128ImageInit
       ELSE ccart = [kind |-> "partner", chips |-> 1, bank |-> 0, forced |-> FALSE, frozen |-> FALSE]
            /\ cimage = NoImage

Next ==
    /\ \/ unit = "ieee488" /\ IeeeNext
       \/ unit = "image" /\ ImgNext
       \/ unit = "folder" /\ HostNext
       \/ unit = "c128map" /\ C128MapNext
       \/ unit = "c128run" /\ C128RunNext
       \/ unit = "c128keys" /\ C128KeysNext
       \/ unit = "flash" /\ C128FlashNext
       \/ unit = "eeprom" /\ C128EepNext
       \/ unit = "cart" /\ C128CartNext
    /\ unit # "ieee488" => UNCHANGED <<ieeeOwn, dosVars>>
    /\ unit # "image" => UNCHANGED imgVars
    /\ unit # "folder" => UNCHANGED hostVars
    /\ unit # "c128map" => UNCHANGED c128MapVars
    /\ unit # "c128run" => UNCHANGED crun
    /\ unit # "c128keys" => UNCHANGED ckeys
    /\ unit # "flash" => UNCHANGED cflash
    /\ unit # "eeprom" => UNCHANGED eepVars
    /\ unit # "cart" => UNCHANGED ccart
    /\ UNCHANGED <<unit, cimage>>

Spec == Init /\ [][Next]_vars

\* A disk of three tracks, the directory on the second.
MCDiskTracks == <<2, 3, 1>>

MCCr(bank, io, low, mid, hi) == [bank |-> bank, io |-> io, low |-> low, mid |-> mid, hi |-> hi]
MCCrs ==
    {MCCr(0, TRUE, FALSE, 0, 0), MCCr(0, FALSE, TRUE, 3, 3), MCCr(1, FALSE, TRUE, 3, 3), MCCr(1, TRUE, TRUE, 3, 3),
     MCCr(0, FALSE, FALSE, 1, 2)}
MCRcrs == {[size |-> s, bottom |-> b, top |-> s = 3, vic |-> 0] : s \in {0, 3}, b \in BOOLEAN}

(***************************************************************************)
(* Both DOS implementations: a disk image stays sound and reads back what  *)
(* was written; a host folder's files are read in order and its listing is *)
(* whole.                                                                  *)
(***************************************************************************)
FilesRight ==
    /\ unit = "image" => ImgDiskSound /\ ImgReadsBack
    /\ unit = "folder" => HostBytesInOrder /\ HostListingWhole
=============================================================================
