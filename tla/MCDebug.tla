------------------------------ MODULE MCDebug ------------------------------
(***************************************************************************)
(* The debugger's core for TLC: a behaviour is a behaviour of DebugContext *)
(* or of the ring buffer that holds its trace, as chosen at the start.     *)
(***************************************************************************)
EXTENDS DebugContext, CircularBuffer

VARIABLE unit   \* what this behaviour is about

allVars == <<unit, vars, ringVars>>

MCInit == unit \in {"debugger", "ring"} /\ Init /\ RingInit

MCNext ==
    /\ UNCHANGED unit
    /\ \/ unit = "debugger" /\ Next /\ UNCHANGED ringVars
       \/ unit = "ring" /\ RingNext /\ UNCHANGED vars

MCSpec == MCInit /\ [][MCNext]_allVars

\* Without ROM, addresses are told apart only by equality.
AddrSymmetry == Permutations(Addrs)
=============================================================================
