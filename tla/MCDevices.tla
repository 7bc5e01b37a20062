----------------------------- MODULE MCDevices ------------------------------
(***************************************************************************)
(* Devices for TLC, each with the computer or the program at its other     *)
(* end.  A behaviour is a behaviour of the part chosen at the start.       *)
(***************************************************************************)
EXTENDS IecDrive, Disk2, Disk2Code

VARIABLE unit   \* the part this behaviour is about

vars == <<unit, iecVars, d2Vars, code>>

\* The parts that are not chosen start, and stay, in one of their states.
Init ==
    /\ unit \in {"iec", "disk2", "nibbles"}
    /\ IecInit /\ (unit # "iec" => ~iec.virtual)
    /\ D2Init
    /\ IF unit = "nibbles" THEN CodeInit ELSE code = <<>>

Next ==
    /\ \/ unit = "iec" /\ IecNext
       \/ unit = "disk2" /\ D2Next
       \/ unit = "nibbles" /\ CodeNext
    /\ unit # "iec" => UNCHANGED iecVars
    /\ unit # "disk2" => UNCHANGED d2Vars
    /\ unit # "nibbles" => UNCHANGED code
    /\ UNCHANGED unit

\* IecFairness, for the serial bus.
Spec ==
    /\ Init /\ [][Next]_vars
    /\ WF_iecVars(unit = "iec" /\ KernalStep)
    /\ \A n \in 0 .. 1 : WF_iecVars(unit = "iec" /\ Tick(n))

(***************************************************************************)
(* What is sent or recorded comes back.  On the serial bus a program reads *)
(* a file's bytes in order, none twice and none left out, what it writes   *)
(* arrives, and a directory is a chain of lines, wherever ATN cuts a       *)
(* transfer; a Disk II track survives the way to nibbles and back          *)
(* (trackFromSectors, sectorsFromTrack), wherever its sectors start.       *)
(***************************************************************************)
BytesComeBack ==
    /\ unit = "iec" => IecBytesInOrder /\ IecWritesArrive /\ VirtLinksChain
    /\ unit = "nibbles" => CodeRoundTrip
=============================================================================
