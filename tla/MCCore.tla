------------------------------- MODULE MCCore -------------------------------
(***************************************************************************)
(* The processor cores' instruction semantics and the debugger's rewind    *)
(* for TLC: a behaviour is a behaviour of the part chosen at the start.    *)
(***************************************************************************)
EXTENDS Mos6502, Cpu45GS02, DebugContext

VARIABLE unit   \* the part this behaviour is about

allVars == <<unit, mosVars, g45Vars, vars>>

\* The debugger's machine starts from any memory; for the cores one will do.
MCInit ==
    /\ unit \in {"6502", "45gs02", "debugger"}
    /\ MosInit /\ G45Init /\ Init
    /\ unit # "debugger" => /\ pc = CHOOSE a \in Addrs : TRUE
                            /\ mem = [a \in Addrs |-> CHOOSE w \in Vals : TRUE]

MCNext ==
    /\ UNCHANGED unit
    /\ \/ unit = "6502" /\ MosNext /\ UNCHANGED <<g45Vars, vars>>
       \/ unit = "45gs02" /\ G45Next /\ UNCHANGED <<mosVars, vars>>
       \/ unit = "debugger" /\ Next /\ UNCHANGED <<mosVars, g45Vars>>

MCSpec == MCInit /\ [][MCNext]_allVars
=============================================================================
