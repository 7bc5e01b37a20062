--------------------------- MODULE BreakpointList ---------------------------
(***************************************************************************)
(* BreakpointList (libdebug/main/breakpoint_list.cpp): the breakpoints and *)
(* watchpoints of a DebugContext, the order they are tried in, and the     *)
(* counters hasExecBreakpoints() and hasValueWatches() answer from.        *)
(*                                                                         *)
(* A condition is either absent or "A == v".  Physical breakpoints compare *)
(* the same way after the MAP MMU, and are not told apart.                 *)
(***************************************************************************)
EXTENDS Integers, SequencesExt

CONSTANTS Addrs,    \* addresses, of code and of data
          Accs,     \* the values of the accumulator, the register conditions test
          Types,    \* the types of breakpoint the user adds
          Conds,    \* the accumulator values the user's conditions ask for
          MaxBps,   \* bound: breakpoints added in one behaviour
          MaxHits,  \* bound: hitCount saturates here
          Limits    \* the hit count limits the user sets, 0 = unlimited

ASSUME ListAssumption ==
    /\ Types \subseteq {"exec", "read", "write", "value"}
    /\ Conds \subseteq Accs
    /\ 0 \in Limits
    /\ MaxBps \in Nat /\ MaxHits \in Nat

\* "No address" is ~0u in the code, "no condition" the empty string.
NoAddr == "none"
NoCond == "none"

VARIABLES bps,         \* m_breakpoints, in the order they were added
          nextId,      \* m_nextId
          execCount,   \* m_execCount
          watchCount   \* m_watchCount

listVars == <<bps, nextId, execCount, watchCount>>

Breakpoint == [id : 1 .. MaxBps, addr : Addrs, type : Types, cond : Conds \cup {NoCond},
               hits : 0 .. MaxHits, limit : Limits, enabled : BOOLEAN]

ListInit == bps = << >> /\ nextId = 1 /\ execCount = 0 /\ watchCount = 0

One(cond) == IF cond THEN 1 ELSE 0

\* add(addr, type) and, for a value watch, addWatch(addr, size).
Add(addr, type) ==
    /\ nextId <= MaxBps
    /\ bps' = Append(bps, [id |-> nextId, addr |-> addr, type |-> type, cond |-> NoCond,
                           hits |-> 0, limit |-> 0, enabled |-> TRUE])
    /\ nextId' = nextId + 1
    /\ execCount' = execCount + One(type = "exec")
    /\ watchCount' = watchCount + One(type = "value")

\* Faulty: erases the breakpoint but keeps counting it.
RemoveAtUncounted(i) ==
    /\ bps' = RemoveAt(bps, i)
    /\ UNCHANGED <<nextId, execCount, watchCount>>

\* The erase shared by remove and removeByAddress.
RemoveIndex(i) ==
    /\ bps' = RemoveAt(bps, i)
    /\ execCount' = execCount - One(bps[i].type = "exec")
    /\ watchCount' = watchCount - One(bps[i].type = "value")
    /\ UNCHANGED nextId

\* remove(id)
RemoveById(id) ==
    \E i \in DOMAIN bps : bps[i].id = id /\ RemoveIndex(i)

\* removeByAddress(addr): the first entry at the address, whatever its type.
RemoveByAddress(addr) ==
    \E i \in DOMAIN bps :
        /\ bps[i].addr = addr
        /\ \A j \in 1 .. i - 1 : bps[j].addr # addr
        /\ RemoveIndex(i)

\* setEnabled, setCondition and setHitCountLimit: one field of one entry.
SetEnabled(id, on) ==
    \E i \in DOMAIN bps : /\ bps[i].id = id
                          /\ bps' = [bps EXCEPT ![i].enabled = on]
                          /\ UNCHANGED <<nextId, execCount, watchCount>>

SetCondition(id, c) ==
    \E i \in DOMAIN bps : /\ bps[i].id = id
                          /\ bps' = [bps EXCEPT ![i].cond = c]
                          /\ UNCHANGED <<nextId, execCount, watchCount>>

SetHitCountLimit(id, n) ==
    \E i \in DOMAIN bps : /\ bps[i].id = id
                          /\ bps' = [bps EXCEPT ![i].limit = n]
                          /\ UNCHANGED <<nextId, execCount, watchCount>>

ClearHitCounts ==
    /\ bps' = [i \in DOMAIN bps |-> [bps[i] EXCEPT !.hits = 0]]
    /\ UNCHANGED <<nextId, execCount, watchCount>>

(***************************************************************************)
(* checkExec, checkRead and checkWrite: the first enabled entry of the     *)
(* type at the address whose condition holds with accumulator a.  Only     *)
(* that entry is hit; the hit count limit is not consulted.                *)
(***************************************************************************)
Matches(b, type, addr, a) ==
    /\ b.enabled
    /\ b.type = type
    /\ b.addr = addr
    /\ b.cond \in {NoCond, a}

Hit(list, type, addr, a) ==
    \E i \in DOMAIN list : Matches(list[i], type, addr, a)

\* The entry the check finds.
IsHit(list, i, type, addr, a) ==
    /\ Matches(list[i], type, addr, a)
    /\ \A j \in 1 .. i - 1 : ~Matches(list[j], type, addr, a)

WithHits(b, n) == [b EXCEPT !.hits = IF @ + n < MaxHits THEN @ + n ELSE MaxHits]

\* The list after the check: the hit entry counts one more hit.
Counted(list, type, addr, a) ==
    [i \in DOMAIN list |-> WithHits(list[i], IF IsHit(list, i, type, addr, a) THEN 1 ELSE 0)]

\* The list after a check of every write: no count decides about a match, so
\* the order of the writes does not matter.
CountedWrites(list, ws, a) ==
    [i \in DOMAIN list |->
        WithHits(list[i], Cardinality({k \in DOMAIN ws : IsHit(list, i, "write", ws[k].loc, a)}))]

Edit ==
    \/ \E addr \in Addrs, type \in Types : Add(addr, type)
    \/ \E addr \in Addrs : RemoveByAddress(addr)
    \/ \E id \in 1 .. MaxBps : \/ RemoveById(id)
                               \/ \E on \in BOOLEAN : SetEnabled(id, on)
                               \/ \E c \in Conds \cup {NoCond} : SetCondition(id, c)
                               \/ \E n \in Limits : SetHitCountLimit(id, n)
    \/ ClearHitCounts

(***************************************************************************)
(* The two counters agree with the list and no id is used twice, however   *)
(* entries are removed by id and by address.                               *)
(***************************************************************************)
ListConsistent ==
    /\ execCount = Cardinality({i \in DOMAIN bps : bps[i].type = "exec"})
    /\ watchCount = Cardinality({i \in DOMAIN bps : bps[i].type = "value"})
    /\ \A i, j \in DOMAIN bps : i < j => bps[i].id < bps[j].id /\ bps[j].id < nextId
=============================================================================
