------------------------------ MODULE McpTools ------------------------------
(***************************************************************************)
(* The tools an MCP client calls on one machine instance: handleToolsCall  *)
(* (mcp/main/main.cpp), one operator per tool, named as the tool.  Each    *)
(* gives the set of outcomes of a call: the instance afterwards, whether   *)
(* the reply is an error, and for the tools that run the machine why it    *)
(* stopped.  The memory tools are in the second part of the module, the    *)
(* instances, which come and go, in the third.                             *)
(*                                                                         *)
(* Of the instance, "changed" holds the parts a call has set to something  *)
(* else than a new machine has; what they hold is left out.  What a call   *)
(* depends on beyond that (files, devices of the machine type, the program *)
(* that runs) is a choice.                                                 *)
(***************************************************************************)
EXTENDS Integers, Sequences, SequencesExt, FiniteSets, TLC

CONSTANTS MaxMcpBps,      \* bound: breakpoints ever set
          MaxMcpChanged   \* bound: parts changed at a time

ASSUME McpToolsAssumption == MaxMcpBps \in Nat \ {0} /\ MaxMcpChanged \in Nat

VARIABLES mcp,       \* the MachineState: breakpoints, paused, trace, changed parts
          mcpCall,   \* history: the last call and its outcome
          mcpAsked   \* history: breakpoints the client has set and not deleted

mcpVars == <<mcp, mcpCall, mcpAsked>>

McpNewInstance == [bps |-> <<>>, next |-> 1, paused |-> FALSE, trace |-> FALSE, changed |-> {}]

McpDone(ms) == [ms |-> ms, error |-> FALSE, stop |-> "none"]
McpError(ms) == [ms |-> ms, error |-> TRUE, stop |-> "none"]
McpEither(ms) == {McpDone(ms), McpError(ms)}
McpChanges(ms, part) == [ms EXCEPT !.changed = @ \cup {part}]
McpMay(ms, part) == {McpDone(McpChanges(ms, part)), McpError(ms)}

McpEnabled(ms, kinds) == \E id \in DOMAIN ms.bps : ms.bps[id].on /\ ms.bps[id].kind \in kinds
McpAdd(ms, kind) ==
    [ms EXCEPT !.bps = (ms.next :> [kind |-> kind, on |-> TRUE]) @@ @, !.next = @ + 1]
McpRemove(ms, id) == [ms EXCEPT !.bps = [b \in DOMAIN @ \ {id} |-> @[b]]]

\* A bus access by a tool goes past the debugger: an enabled watch may pause the machine.
McpAccess(ms, kind) == {ms} \cup (IF McpEnabled(ms, {kind}) THEN {[ms EXCEPT !.paused = TRUE]} ELSE {})

\* DebugContext::resume.
\* Faulty: the pause is left in place.
McpResumeForgotten(ms) == ms

McpResume(ms) == [ms EXCEPT !.paused = FALSE]

\* What pauses a machine that runs: an enabled breakpoint or watch ("point"), or a BRK
\* ("trap"), on which every debugger here pauses: no tool turns pause-on-BRK off.
McpPauses(ms) == {"trap"} \cup (IF McpEnabled(ms, {"exec", "read", "write"}) THEN {"point"} ELSE {})

\* Steps until the machine is paused, the program ends or the budget is used up.  All
\* pauses are reported as "Breakpoint hit"; one that was there before the first step
\* ("stale") ends the run after it.
McpSteps(ms) ==
    LET ran == [ms EXCEPT !.trace = TRUE]
        at(s, why) == [ms |-> s, error |-> FALSE, stop |-> why]
    IN  IF ms.paused THEN {at(ran, "stale")}
        ELSE {at(ran, why) : why \in {"max_steps", "program_end"}} \cup
             {at([ran EXCEPT !.paused = TRUE], why) : why \in McpPauses(ms)}

McpRunWithBudget(ms) ==
    McpSteps(McpResume(ms)) \cup {[ms |-> McpResume(ms), error |-> FALSE, stop |-> "brk"]}
-----------------------------------------------------------------------------
(***************************************************************************)
(* Execution                                                               *)
(***************************************************************************)
step_cpu(ms) == McpSteps(McpResume(ms))

\* The writes that are undone go over the watched bus; the trace may be used up.
reverse_step(ms) ==
    IF ~ms.trace THEN {McpDone(ms)}
    ELSE {McpDone(McpChanges([s EXCEPT !.trace = t], "cpu")) : s \in McpAccess(ms, "write"), t \in BOOLEAN}

undo_info(ms) == {McpDone(ms)}
set_pc(ms) == McpMay(ms, "cpu")
read_registers(ms) == {McpDone(ms)}
write_register(ms) == McpMay(ms, "cpu")
run_cpu(ms) == McpRunWithBudget(ms)

\* The condition is evaluated once before, and a bad one refused; met is a reason of its own.
run_until(ms) ==
    {McpError(ms)} \cup McpSteps(McpResume(ms))
        \cup {[ms |-> [McpResume(ms) EXCEPT !.trace = TRUE], error |-> FALSE, stop |-> "condition"]}

\* reset: by onReset or part by part; breakpoints stay, their hit counts do not.
reset_machine(ms) == {McpDone([ms EXCEPT !.changed = @ \ {"cpu", "map", "io", "keys"}])}

\* These step the machine without resume().
profile_cpu(ms) == McpSteps(ms)
measure_region(ms) ==
    {McpError(ms)} \cup McpSteps(McpChanges(ms, "cpu")) \cup {McpDone(McpChanges(ms, "cpu"))}

\* record_audio: neither resumes nor looks at paused; the file may fail after the run.
record_audio(ms) ==
    {McpError(ms)} \cup
    UNION {McpEither([ms EXCEPT !.trace = TRUE, !.paused = @ \/ p]) : p \in BOOLEAN}

\* sid_scope: only a recording runs the machine.
sid_scope(ms) == McpEither(ms) \cup McpSteps(McpResume(ms))

\* Runs the routine once for each combination of inputs, up to a return or a BRK, then
\* puts back registers and stack.
generate_tests(ms) ==
    {McpError(ms)} \cup
    {McpDone([s EXCEPT !.trace = TRUE]) : s \in {McpChanges(ms, "memory")}
        \cup (IF McpEnabled(ms, {"exec", "read", "write"})
              THEN {McpChanges([ms EXCEPT !.paused = TRUE], "memory")} ELSE {})}
-----------------------------------------------------------------------------
(***************************************************************************)
(* Memory and images                                                       *)
(***************************************************************************)
read_memory(ms) == McpEither(ms)
write_memory(ms) == {McpError(ms)} \cup {McpDone(McpChanges(s, "memory")) : s \in McpAccess(ms, "write")}
save_memory(ms) == {McpError(ms)} \cup {McpDone(s) : s \in McpAccess(ms, "read")}
load_image(ms) == {McpError(ms)} \cup {McpDone(McpChanges(s, "memory")) : s \in McpAccess(ms, "write")}
load_sid(ms) == {McpError(ms)} \cup {McpDone(McpChanges(s, "memory")) : s \in McpAccess(ms, "write")}
disassemble(ms) == McpEither(ms)

\* Line by line, or through a file; written to memory only when asked to and without errors.
asm(ms) == {McpDone(ms)} \cup {McpDone(McpChanges(s, "memory")) : s \in McpAccess(ms, "write")}
-----------------------------------------------------------------------------
(***************************************************************************)
(* Breakpoints, trace, symbols                                             *)
(***************************************************************************)
set_breakpoint(ms) == {McpError(ms), McpDone(McpAdd(ms, "exec"))}
set_watchpoint(ms) == {McpError(ms)} \cup {McpDone(McpAdd(ms, k)) : k \in {"read", "write"}}
delete_breakpoint(ms, id) == {McpDone(McpRemove(ms, id))}
McpSetEnabled(ms, id, on) ==
    [ms EXCEPT !.bps = [b \in DOMAIN @ |-> IF b = id THEN [@[b] EXCEPT !.on = on] ELSE @[b]]]
enable_breakpoint(ms, id) == {McpDone(McpSetEnabled(ms, id, TRUE))}
disable_breakpoint(ms, id) == {McpDone(McpSetEnabled(ms, id, FALSE))}
list_breakpoints(ms) == {McpDone(ms)}
get_stack(ms) == {McpDone(ms)}
get_trace_buffer(ms) == {McpDone(ms)}
clear_trace(ms) == {McpDone([ms EXCEPT !.trace = FALSE])}
set_trace_filter(ms) == McpMay(ms, "filter")
get_execution_history(ms) == {McpDone(ms)}
get_memory_access_history(ms) == McpEither(ms)
list_symbols(ms) == {McpDone(ms)}
add_symbol(ms) == McpMay(ms, "symbols")
remove_symbol(ms) == {McpDone(ms), McpDone([ms EXCEPT !.changed = @ \ {"symbols"}])}
clear_symbols(ms) == {McpDone([ms EXCEPT !.changed = @ \ {"symbols"}])}
load_symbols(ms) == McpMay(ms, "symbols")
load_debug_metadata(ms) == McpMay(ms, "variables")
list_variables(ms) == {McpDone(ms)}
inspect_variable(ms) == {McpDone(s) : s \in McpAccess(ms, "read")}
get_frame_info(ms) == {McpDone(ms)}
get_heatmap(ms) == {McpDone(ms)}
heatmap_control(ms) == McpMay(ms, "heatmap")
-----------------------------------------------------------------------------
(***************************************************************************)
(* Devices: whether the machine has one is a choice                        *)
(***************************************************************************)
screenshot(ms) == McpEither(ms)
render_graphics(ms) == McpEither(ms)
get_raster_position(ms) == McpEither(ms)
list_devices(ms) == {McpDone(ms)}
get_device_info(ms) == McpEither(ms)
get_map_state(ms) == McpEither(ms)
set_map_state(ms) == McpMay(ms, "map")
get_personality(ms) == McpEither(ms)
set_personality(ms) == McpMay(ms, "io")
mount_tape(ms) == McpMay(ms, "tape")
control_tape(ms) == McpMay(ms, "tape")
record_tape(ms) == McpMay(ms, "tape")
save_tape_recording(ms) == McpMay(ms, "tape") \cup {McpError(McpChanges(ms, "tape"))}
mount_disk(ms) == McpMay(ms, "disk")
eject_disk(ms) == {McpDone([ms EXCEPT !.changed = @ \ {"disk"}]), McpDone(ms)}
press_key(ms) == McpMay(ms, "keys")
set_joystick(ms) == McpMay(ms, "keys")
mouse_input(ms) == McpMay(ms, "keys")
type_string(ms) == McpMay(ms, "keys")
set_speed(ms) == McpEither(ms) \cup McpMay(ms, "speed")
set_warp(ms) == McpEither(ms) \cup McpMay(ms, "speed")
rom_socket(ms) == McpEither(ms) \cup {McpDone(McpChanges(o.ms, "rom")) : o \in reset_machine(ms)}
-----------------------------------------------------------------------------
(***************************************************************************)
(* Test automation: load, set the PC, run, report                          *)
(***************************************************************************)
McpLoadAndEnter(ms) == {McpChanges(s, "memory") : s \in McpAccess(ms, "write")} \cup {ms}

test_assert(ms) == {McpError(ms)} \cup UNION {McpRunWithBudget(s) : s \in McpLoadAndEnter(ms)}

\* Faulty: the watch is removed only when it was hit.
test_diagnose_keeps(ms) ==
    {McpError(ms)} \cup UNION
        {LET s == McpAdd(l, "write")
         IN  {IF o.stop = "point" THEN [o EXCEPT !.ms = McpRemove(o.ms, s.next - 1)] ELSE o
                : o \in McpRunWithBudget(s)}
           : l \in McpLoadAndEnter(ms)}

\* A watch is added for this run and removed after it.
test_diagnose(ms) ==
    {McpError(ms)} \cup UNION
        {LET s == McpAdd(l, kind)
         IN  {[o EXCEPT !.ms = McpRemove(o.ms, s.next - 1)] : o \in McpRunWithBudget(s)}
           : l \in McpLoadAndEnter(ms), kind \in {"read", "write"}}
-----------------------------------------------------------------------------
McpPlainTools(ms) ==
    [step_cpu |-> step_cpu(ms), reverse_step |-> reverse_step(ms), undo_info |-> undo_info(ms),
     set_pc |-> set_pc(ms), read_registers |-> read_registers(ms), write_register |-> write_register(ms),
     run_cpu |-> run_cpu(ms), run_until |-> run_until(ms), reset_machine |-> reset_machine(ms),
     profile_cpu |-> profile_cpu(ms), measure_region |-> measure_region(ms),
     record_audio |-> record_audio(ms), sid_scope |-> sid_scope(ms), generate_tests |-> generate_tests(ms),
     read_memory |-> read_memory(ms), write_memory |-> write_memory(ms), save_memory |-> save_memory(ms),
     load_image |-> load_image(ms), load_sid |-> load_sid(ms), disassemble |-> disassemble(ms),
     asm |-> asm(ms), list_breakpoints |-> list_breakpoints(ms),
     get_stack |-> get_stack(ms), get_trace_buffer |-> get_trace_buffer(ms), clear_trace |-> clear_trace(ms),
     set_trace_filter |-> set_trace_filter(ms), get_execution_history |-> get_execution_history(ms),
     get_memory_access_history |-> get_memory_access_history(ms), list_symbols |-> list_symbols(ms),
     add_symbol |-> add_symbol(ms), remove_symbol |-> remove_symbol(ms), clear_symbols |-> clear_symbols(ms),
     load_symbols |-> load_symbols(ms), load_debug_metadata |-> load_debug_metadata(ms),
     list_variables |-> list_variables(ms), inspect_variable |-> inspect_variable(ms),
     get_frame_info |-> get_frame_info(ms), get_heatmap |-> get_heatmap(ms),
     heatmap_control |-> heatmap_control(ms), screenshot |-> screenshot(ms),
     render_graphics |-> render_graphics(ms), get_raster_position |-> get_raster_position(ms),
     list_devices |-> list_devices(ms), get_device_info |-> get_device_info(ms),
     get_map_state |-> get_map_state(ms), set_map_state |-> set_map_state(ms),
     get_personality |-> get_personality(ms), set_personality |-> set_personality(ms),
     mount_tape |-> mount_tape(ms), control_tape |-> control_tape(ms), record_tape |-> record_tape(ms),
     save_tape_recording |-> save_tape_recording(ms), mount_disk |-> mount_disk(ms),
     eject_disk |-> eject_disk(ms), press_key |-> press_key(ms), set_joystick |-> set_joystick(ms),
     mouse_input |-> mouse_input(ms), type_string |-> type_string(ms), set_speed |-> set_speed(ms),
     set_warp |-> set_warp(ms), rom_socket |-> rom_socket(ms), test_assert |-> test_assert(ms),
     test_diagnose |-> test_diagnose(ms)]

\* Tools that take the pause of an earlier stop back before they run the machine.
McpRunners == {"step_cpu", "run_cpu", "run_until", "test_assert", "test_diagnose", "sid_scope"}

McpReply(tool, o) ==
    /\ mcp' = o.ms
    /\ Cardinality(o.ms.changed) <= MaxMcpChanged /\ o.ms.next <= MaxMcpBps + 1
    /\ mcpCall' = [runs |-> tool \in McpRunners,
                   stop |-> IF o.stop = "stale" THEN "stale" ELSE "other"]

McpToolsInit ==
    /\ mcp = McpNewInstance
    /\ mcpCall = [runs |-> FALSE, stop |-> "other"]
    /\ mcpAsked = {}

\* A call that leaves the breakpoints as they are.
McpCallPlain ==
    \E tools \in {McpPlainTools(mcp)} :
        \E t \in DOMAIN tools : \E o \in tools[t] : McpReply(t, o) /\ UNCHANGED mcpAsked

McpCallSet ==
    /\ mcp.next <= MaxMcpBps
    /\ \E o \in set_breakpoint(mcp) \cup set_watchpoint(mcp) :
         /\ McpReply("set", o)
         /\ mcpAsked' = IF o.error THEN mcpAsked ELSE mcpAsked \cup {mcp.next}

McpCallDelete ==
    \E id \in 1 .. MaxMcpBps : \E o \in delete_breakpoint(mcp, id) :
        McpReply("delete", o) /\ mcpAsked' = mcpAsked \ {id}

McpCallEnable ==
    \E id \in 1 .. MaxMcpBps : \E o \in enable_breakpoint(mcp, id) \cup disable_breakpoint(mcp, id) :
        McpReply("enable", o) /\ UNCHANGED mcpAsked

McpToolsNext == McpCallPlain \/ McpCallSet \/ McpCallDelete \/ McpCallEnable

McpToolsSpec == McpToolsInit /\ [][McpToolsNext]_mcpVars
-----------------------------------------------------------------------------
(***************************************************************************)
(* "Breakpoint hit" is of the run that reports it: an enabled breakpoint   *)
(* or watch or a BRK paused the machine while it ran, never a pause that   *)
(* an earlier call left behind (a watch since deleted or disabled, a       *)
(* write_memory or reverse_step that wrote to a watched address).          *)
(***************************************************************************)
McpStopsAreReal == mcpCall.runs => mcpCall.stop # "stale"

(***************************************************************************)
(* The breakpoint list is the client's: after any call it holds exactly    *)
(* what set_breakpoint and set_watchpoint added and delete_breakpoint has  *)
(* not removed, and test_diagnose leaves no watch behind.                  *)
(***************************************************************************)
McpListIsClients == DOMAIN mcp.bps = mcpAsked

-----------------------------------------------------------------------------
(***************************************************************************)
(* The MCP tools that compute over a machine's memory: fill, copy, swap,   *)
(* search, snapshot and diff, and analyze_routine's walk through code      *)
(* (handleToolsCall in mcp/main/main.cpp).  Memory is a ring of McpSize    *)
(* bytes, as the bus masks addresses.                                      *)
(***************************************************************************)

CONSTANTS McpSize,      \* addrMask + 1
          McpBytes,     \* values of a byte
          McpMaxInsns   \* analyze_routine's max_instructions

ASSUME McpMemoryAssumption == McpSize \in Nat \ {0} /\ McpBytes \subseteq Nat /\ McpMaxInsns \in Nat \ {0}

VARIABLES mcpMem,      \* bus memory
          mcpFind,     \* lastSearchPattern and lastSearchFoundAddr (-1: 0xFFFFFFFF)
          mcpSnap,     \* the snapshots by name; an absent one is empty
          mcpAnswer    \* history: the last call and what it replied

mcpMemVars == <<mcpMem, mcpFind, mcpSnap, mcpAnswer>>

McpAddrs == 0 .. McpSize - 1
McpAt(a) == (a + McpSize) % McpSize
McpPatterns == UNION {[1 .. n -> McpBytes] : n \in 1 .. 2}
McpMatches(p, a) == \A j \in 1 .. Len(p) : mcpMem[McpAt(a + j - 1)] = p[j]

McpQuiet == mcpAnswer' = [tool |-> "none"]

McpMemoryInit ==
    /\ mcpMem \in [McpAddrs -> McpBytes]
    /\ mcpFind = [pattern |-> <<>>, found |-> -1]
    /\ mcpSnap = [n \in {"a", "b"} |-> <<>>]
    /\ mcpAnswer = [tool |-> "none"]
-----------------------------------------------------------------------------
fill_memory(a, v, size) ==
    /\ mcpMem' = [x \in McpAddrs |-> IF \E i \in 0 .. size - 1 : McpAt(a + i) = x THEN v ELSE mcpMem[x]]
    /\ McpQuiet
    /\ UNCHANGED <<mcpFind, mcpSnap>>

McpStore(mem, at, bytes) ==
    FoldLeft(LAMBDA m, i : [m EXCEPT ![McpAt(at + i - 1)] = bytes[i]], mem, [i \in DOMAIN bytes |-> i])

\* Faulty: byte by byte, without the buffer.
McpCopyForward(mem, src, dst, size) ==
    FoldLeft(LAMBDA m, i : [m EXCEPT ![McpAt(dst + i - 1)] = m[McpAt(src + i - 1)]],
             mem, [i \in 1 .. size |-> i])

\* The source is read completely before anything is written.
McpCopy(mem, src, dst, size) == McpStore(mem, dst, [i \in 1 .. size |-> mem[McpAt(src + i - 1)]])

copy_memory(src, dst, size) ==
    /\ mcpMem' = McpCopy(mcpMem, src, dst, size)
    /\ mcpAnswer' = [tool |-> "copy", before |-> mcpMem, src |-> src, dst |-> dst, size |-> size]
    /\ UNCHANGED <<mcpFind, mcpSnap>>

\* The first range is overwritten as it is read; what it held goes to the second.
McpSwap(mem, a, b, size) ==
    LET step(s, i) == [mem |-> [s.mem EXCEPT ![McpAt(a + i - 1)] = s.mem[McpAt(b + i - 1)]],
                       tmp |-> Append(s.tmp, s.mem[McpAt(a + i - 1)])]
        r == FoldLeft(step, [mem |-> mem, tmp |-> <<>>], [i \in 1 .. size |-> i])
    IN  McpStore(r.mem, b, r.tmp)

swap_memory(a, b, size) ==
    /\ mcpMem' = McpSwap(mcpMem, a, b, size)
    /\ mcpAnswer' = [tool |-> "swap", before |-> mcpMem, src |-> a, dst |-> b, size |-> size]
    /\ UNCHANGED <<mcpFind, mcpSnap>>

\* Forward from start; a match may not run over the end of memory.
search_memory(p, start) ==
    LET hits == {a \in start .. McpSize - Len(p) : McpMatches(p, a)}
        found == IF hits = {} THEN -1 ELSE CHOOSE a \in hits : \A b \in hits : a <= b
    IN  /\ mcpFind' = [pattern |-> p, found |-> found]
        /\ McpQuiet
        /\ UNCHANGED <<mcpMem, mcpSnap>>

\* Faulty: starts at the address found before.
McpSearchStartAgain(found, forward) == IF found = -1 THEN (IF forward THEN 0 ELSE McpSize - 1) ELSE found

McpSearchStart(found, forward) ==
    CASE found = -1 -> IF forward THEN 0 ELSE McpSize - 1
      [] forward    -> McpAt(found + 1)
      [] OTHER      -> McpAt(found - 1)

\* search_next and search_prior: once around memory.
McpSearchOn(forward) ==
    LET p == mcpFind.pattern
        at(k) == McpAt(McpSearchStart(mcpFind.found, forward) + (IF forward THEN k ELSE McpSize - k))
        hits == {k \in McpAddrs : McpMatches(p, at(k))}
        found == IF hits = {} THEN mcpFind.found
                 ELSE at(CHOOSE k \in hits : \A j \in hits : k <= j)
    IN  /\ p # <<>>
        /\ mcpFind' = [mcpFind EXCEPT !.found = found]
        /\ mcpAnswer' = [tool |-> IF forward THEN "next" ELSE "prior", from |-> mcpFind.found, hit |-> hits # {}]
        /\ UNCHANGED <<mcpMem, mcpSnap>>
-----------------------------------------------------------------------------
\* The bytes of a range; a range whose end is before its start is not modelled.
snapshot_save(name, base, last) ==
    /\ mcpSnap' = [mcpSnap EXCEPT ![name] = <<base, [i \in 1 .. last - base + 1 |-> mcpMem[base + i - 1]]>>]
    /\ McpQuiet
    /\ UNCHANGED <<mcpMem, mcpFind>>

snapshot_delete(name) ==
    /\ mcpSnap' = IF name = "*" THEN [n \in DOMAIN mcpSnap |-> <<>>] ELSE [mcpSnap EXCEPT ![name] = <<>>]
    /\ McpQuiet
    /\ UNCHANGED <<mcpMem, mcpFind>>

\* Faulty: a region goes on over equal bytes.
McpExtendAlways(regions, addr, inDiff) ==
    IF regions # <<>> THEN [regions EXCEPT ![Len(regions)].length = @ + 1]
    ELSE Append(regions, [addr |-> addr, length |-> 1])

McpExtend(regions, addr, inDiff) ==
    IF inDiff THEN [regions EXCEPT ![Len(regions)].length = @ + 1]
    ELSE Append(regions, [addr |-> addr, length |-> 1])

\* The regions that differ where both snapshots have bytes, as the loop collects them.
McpDiffRegions(a, b) ==
    LET from == IF a[1] > b[1] THEN a[1] ELSE b[1]
        endA == a[1] + Len(a[2])
        endB == b[1] + Len(b[2])
        to == IF endA < endB THEN endA ELSE endB
        step(s, i) ==
            LET x == from + i - 1
                differs == a[2][x - a[1] + 1] # b[2][x - b[1] + 1]
            IN  [inDiff |-> differs, regions |-> IF differs THEN McpExtend(s.regions, x, s.inDiff) ELSE s.regions]
    IN  FoldLeft(step, [inDiff |-> FALSE, regions |-> <<>>],
                 [i \in 1 .. (IF to > from THEN to - from ELSE 0) |-> i]).regions

snapshot_diff ==
    /\ mcpSnap["a"] # <<>> /\ mcpSnap["b"] # <<>>
    /\ mcpAnswer' = [tool |-> "diff", regions |-> McpDiffRegions(mcpSnap["a"], mcpSnap["b"])]
    /\ UNCHANGED <<mcpMem, mcpFind, mcpSnap>>
-----------------------------------------------------------------------------
(***************************************************************************)
(* analyze_routine: what the disassembler makes of each address, as        *)
(* one-byte instructions whose target is the byte two further on: "exit"   *)
(* is a return or a BRK, "indirect" a JMP through a pointer, "none" bytes  *)
(* that are no instruction, which count as visited and as nothing else.    *)
(* The walk takes the last address of the queue and follows it until its   *)
(* path ends or meets code it has visited.                                 *)
(***************************************************************************)
McpCode == {"plain", "branch", "call", "jump", "exit", "indirect", "none"}

McpVisit(w, pc) == [w EXCEPT !.visited = @ \cup {pc}]
McpCount(w, pc) == [w EXCEPT !.insns = Append(@, pc)]
McpLater(w, pc) == IF pc \in w.visited THEN w ELSE [w EXCEPT !.queue = Append(@, pc)]
McpGoOn(w, pc) == [w EXCEPT !.pc = pc]
McpEnds(w) == [w EXCEPT !.pc = -1]

\* Faulty: a branch is followed to its target only.
McpFollowTaken(w, code, recursive) ==
    LET s == McpCount(McpVisit(w, w.pc), w.pc)
    IN  IF code[w.pc] = "branch" THEN McpGoOn(s, McpAt(w.pc + 2)) ELSE McpEnds(s)

McpFollow(w, code, recursive) ==
    LET pc == w.pc
        op == code[pc]
        s == McpCount(McpVisit(w, pc), pc)
        next == McpAt(pc + 1)
        target == McpAt(pc + 2)
    IN  CASE op = "none" -> McpEnds(McpVisit(w, pc))
          [] op = "exit" -> McpEnds([s EXCEPT !.exits = @ \cup {pc}])
          [] op = "indirect" -> McpEnds([s EXCEPT !.indirect = @ \cup {pc}])
          [] op = "call" -> McpGoOn(IF recursive THEN McpLater(s, target) ELSE s, next)
          [] op = "branch" -> McpGoOn(McpLater(s, target), next)
          [] op = "jump" -> McpGoOn(s, target)
          [] OTHER -> McpGoOn(s, next)

\* One turn of the two loops: take from the queue, stop at code visited, or follow.
McpWalkStep(w, code, recursive) ==
    IF Len(w.insns) >= McpMaxInsns THEN w
    ELSE IF w.pc = -1
         THEN IF w.queue = <<>> THEN w ELSE [w EXCEPT !.pc = Last(w.queue), !.queue = Front(@)]
         ELSE IF w.pc \in w.visited THEN McpEnds(w)
         ELSE McpFollow(w, code, recursive)

McpWalk(entry, code, recursive) ==
    FoldLeft(LAMBDA w, i : McpWalkStep(w, code, recursive),
             [pc |-> -1, queue |-> <<entry>>, visited |-> {}, insns |-> <<>>, exits |-> {}, indirect |-> {}],
             [i \in 1 .. 4 * McpSize |-> i])

analyze_routine(entry, code, recursive) ==
    /\ mcpAnswer' = [tool |-> "analyze", entry |-> entry, code |-> code, recursive |-> recursive,
                     walk |-> McpWalk(entry, code, recursive)]
    /\ UNCHANGED <<mcpMem, mcpFind, mcpSnap>>
-----------------------------------------------------------------------------
\* Bounds: a behaviour either searches or takes snapshots; copies, swaps and walks come before both,
\* and a walk, which reads the code it is given, starts from one memory and at 0: memory is a
\* ring and the code any.
McpNoSnaps == \A n \in DOMAIN mcpSnap : mcpSnap[n] = <<>>
McpNoSearch == mcpFind.pattern = <<>>

McpMemoryNext ==
    \/ \E a \in McpAddrs, v \in McpBytes : fill_memory(a, v, 2)
    \/ /\ McpNoSnaps /\ McpNoSearch
       /\ \E a, b \in McpAddrs, size \in 1 .. McpSize - 1 : copy_memory(a, b, size) \/ swap_memory(a, b, size)
    \/ McpNoSnaps /\ \E p \in McpPatterns, a \in McpAddrs : search_memory(p, a)
    \/ \E forward \in BOOLEAN : McpSearchOn(forward)
    \/ McpNoSearch /\ \E n \in {"a", "b"}, base \in {0, 1}, last \in {2, 3} : snapshot_save(n, base, last)
    \/ \E n \in {"a", "b", "*"} : snapshot_delete(n)
    \/ snapshot_diff
    \/ /\ McpNoSnaps /\ McpNoSearch /\ mcpAnswer.tool = "none" /\ mcpMem = [a \in McpAddrs |-> 0]
       /\ \E code \in [McpAddrs -> McpCode], r \in BOOLEAN : analyze_routine(0, code, r)

McpMemorySpec == McpMemoryInit /\ [][McpMemoryNext]_mcpMemVars
-----------------------------------------------------------------------------
(***************************************************************************)
(* copy_memory moves what the source held, also when the ranges overlap or *)
(* wrap; swap_memory exchanges ranges that do not overlap.                 *)
(***************************************************************************)
McpCopies ==
    LET c == mcpAnswer
        src(i) == McpAt(c.src + i)
        dst(i) == McpAt(c.dst + i)
        n == 0 .. c.size - 1
    IN  /\ c.tool = "copy" => \A i \in n : mcpMem[dst(i)] = c.before[src(i)]
        /\ (c.tool = "swap" /\ \A i, j \in n : src(i) # dst(j)) =>
              \A i \in n : mcpMem[dst(i)] = c.before[src(i)] /\ mcpMem[src(i)] = c.before[dst(i)]

(***************************************************************************)
(* Searching on visits the matches of the pattern in cyclic order and      *)
(* leaves none out: nothing matches strictly between where it was and      *)
(* where it went.                                                          *)
(***************************************************************************)
McpSearchSkipsNone ==
    (mcpAnswer.tool \in {"next", "prior"} /\ mcpAnswer.hit) =>
        LET forward == mcpAnswer.tool = "next"
            from == IF forward THEN mcpAnswer.from ELSE McpAt(IF mcpAnswer.from = -1 THEN 0 ELSE mcpAnswer.from)
            way(a) == LET d == IF forward THEN McpAt(a - from) ELSE McpAt(from - a)
                      IN  IF d = 0 THEN McpSize ELSE d
        IN  /\ McpMatches(mcpFind.pattern, mcpFind.found)
            /\ \A a \in McpAddrs : McpMatches(mcpFind.pattern, a) => way(a) >= way(mcpFind.found)

(***************************************************************************)
(* snapshot_diff reports exactly the addresses that differ, as maximal     *)
(* regions in ascending order.                                             *)
(***************************************************************************)
McpDiffExact ==
    mcpAnswer.tool = "diff" =>
        LET a == mcpSnap["a"]
            b == mcpSnap["b"]
            has(s, x) == x \in s[1] .. s[1] + Len(s[2]) - 1
            differs == {x \in McpAddrs : has(a, x) /\ has(b, x) /\ a[2][x - a[1] + 1] # b[2][x - b[1] + 1]}
            r == mcpAnswer.regions
            covers(i) == r[i].addr .. r[i].addr + r[i].length - 1
        IN  /\ UNION {covers(i) : i \in DOMAIN r} = differs
            /\ \A i \in 1 .. Len(r) - 1 : r[i].addr + r[i].length < r[i + 1].addr

(***************************************************************************)
(* analyze_routine counts no instruction twice, stays within its limit,    *)
(* and below it counts exactly the instructions a path from the entry      *)
(* reaches, and every end of a path where one is.                          *)
(***************************************************************************)
McpWalkComplete ==
    mcpAnswer.tool = "analyze" =>
        LET w == mcpAnswer.walk
            code == mcpAnswer.code
            counted == Range(w.insns)
            succ(a) == CASE code[a] = "jump" -> {McpAt(a + 2)}
                         [] code[a] = "branch" \/ (code[a] = "call" /\ mcpAnswer.recursive) -> {McpAt(a + 1), McpAt(a + 2)}
                         [] code[a] \in {"exit", "indirect", "none"} -> {}
                         [] OTHER -> {McpAt(a + 1)}
            closed(S) == mcpAnswer.entry \in S /\ \A a \in S : succ(a) \subseteq S
            reached == {a \in McpAddrs : \A S \in SUBSET McpAddrs : closed(S) => a \in S}
        IN  /\ Cardinality(counted) = Len(w.insns) /\ Len(w.insns) <= McpMaxInsns
            /\ Len(w.insns) < McpMaxInsns =>
                  /\ counted = {a \in reached : code[a] # "none"}
                  /\ w.exits = {a \in reached : code[a] = "exit"}
                  /\ w.indirect = {a \in reached : code[a] = "indirect"}
-----------------------------------------------------------------------------
(***************************************************************************)
(* The MCP server around the tools: machine instances that are created,    *)
(* replaced and destroyed, what is kept beside them under their id or      *)
(* under their bus, test_sequence, and which tool a name reaches           *)
(* (mcp/main/main.cpp, plugin_tool_registry.cpp).                          *)
(***************************************************************************)

CONSTANTS SrvIds,      \* ids a client chooses; "c64_1" is also the first generated one
          SrvBuses,    \* addresses a new machine's bus may have
          MaxSrvObjs   \* bound: machines ever created

ASSUME McpServerAssumption == "c64_1" \in SrvIds /\ MaxSrvObjs \in Nat \ {0}

VARIABLES srvMachines,   \* g_machines: id -> instance
          srvMade,       \* machines created so far: their identities
          srvCounter,    \* g_typeCounters
          srvSnaps,      \* g_snapshots: id -> the machine it was taken of
          srvOverride,   \* g_assemblerOverrides
          srvCarts,      \* m_activeCarts: bus -> the machine it was attached to
          srvSeq,        \* a test_sequence under way: its id and the machine of its ms
          srvPlugin,     \* names in the PluginToolRegistry
          srvReply,      \* history: the last reply is a machine's, an error, undefined, or that the tool is unknown
          srvAsked       \* history: the assembler asked for since the id was last destroyed

srvVars == <<srvMachines, srvMade, srvCounter, srvSnaps, srvOverride, srvCarts, srvSeq,
             srvPlugin, srvReply, srvAsked>>

SrvWithout(f, x) == [y \in DOMAIN f \ {x} |-> f[y]]
SrvSays(kind) == srvReply' = [kind |-> kind]

\* The generated ids: type, underscore, count; past the bound they are left out.
SrvAutoId(n) == IF n = 1 THEN "c64_1" ELSE "c64_2"

McpServerInit ==
    /\ srvMachines = << >> /\ srvMade = 0 /\ srvCounter = 0
    /\ srvSnaps = << >> /\ srvOverride = << >> /\ srvCarts = << >>
    /\ srvSeq = [on |-> FALSE]
    /\ srvPlugin = {}
    /\ srvReply = [kind |-> "none"]
    /\ srvAsked = << >>
-----------------------------------------------------------------------------
(***************************************************************************)
(* handleDescribe: the tools listed, and whether each requires machine_id. *)
(***************************************************************************)
McpListed1 ==
    {<<"type_string", TRUE>>, <<"step_cpu", TRUE>>, <<"project_open", FALSE>>,
     <<"project_build", FALSE>>, <<"project_run", TRUE>>, <<"set_speed", TRUE>>,
     <<"set_warp", TRUE>>, <<"reverse_step", TRUE>>, <<"undo_info", TRUE>>, <<"set_pc", TRUE>>,
     <<"read_memory", TRUE>>}

McpListed2 ==
    {<<"write_memory", TRUE>>, <<"read_registers", TRUE>>, <<"write_register", TRUE>>,
     <<"save_memory", TRUE>>, <<"screenshot", TRUE>>, <<"render_graphics", TRUE>>,
     <<"sid_scope", TRUE>>, <<"search_memory", TRUE>>, <<"search_next", TRUE>>,
     <<"search_prior", TRUE>>, <<"get_map_state", TRUE>>}

McpListed3 ==
    {<<"set_map_state", TRUE>>, <<"get_personality", TRUE>>, <<"set_personality", TRUE>>,
     <<"get_trace_buffer", TRUE>>, <<"clear_trace", TRUE>>, <<"set_trace_filter", TRUE>>,
     <<"mount_tape", TRUE>>, <<"mount_disk", TRUE>>, <<"eject_disk", TRUE>>,
     <<"control_tape", TRUE>>, <<"record_tape", TRUE>>, <<"save_tape_recording", TRUE>>,
     <<"press_key", TRUE>>}

McpListed4 ==
    {<<"set_joystick", TRUE>>, <<"mouse_input", TRUE>>, <<"load_image", TRUE>>,
     <<"attach_cartridge", TRUE>>, <<"eject_cartridge", TRUE>>, <<"rom_socket", TRUE>>,
     <<"reset_machine", TRUE>>, <<"list_loggers", FALSE>>, <<"set_log_level", FALSE>>,
     <<"list_machines", FALSE>>, <<"list_instances", FALSE>>, <<"create_machine", FALSE>>,
     <<"destroy_machine", TRUE>>, <<"list_symbols", TRUE>>}

\* Faulty: a tool is listed under a name the dispatcher does not know.
McpListed5Misnamed ==
    {<<"add_symbol", TRUE>>, <<"remove_symbol", TRUE>>, <<"clear_symbols", TRUE>>,
     <<"load_symbols", TRUE>>, <<"run_cpu", TRUE>>, <<"run_until", TRUE>>,
     <<"test_batch", TRUE>>, <<"test_assert", TRUE>>}

McpListed5 ==
    {<<"add_symbol", TRUE>>, <<"remove_symbol", TRUE>>, <<"clear_symbols", TRUE>>,
     <<"load_symbols", TRUE>>, <<"run_cpu", TRUE>>, <<"run_until", TRUE>>,
     <<"test_sequence", TRUE>>, <<"test_assert", TRUE>>}

McpListed6 ==
    {<<"test_diagnose", TRUE>>, <<"disassemble", TRUE>>, <<"fill_memory", TRUE>>,
     <<"copy_memory", TRUE>>, <<"swap_memory", TRUE>>, <<"set_breakpoint", TRUE>>,
     <<"set_watchpoint", TRUE>>, <<"delete_breakpoint", TRUE>>, <<"enable_breakpoint", TRUE>>,
     <<"disable_breakpoint", TRUE>>, <<"list_breakpoints", TRUE>>, <<"get_stack", TRUE>>}

McpListed7 ==
    {<<"list_devices", TRUE>>, <<"get_device_info", TRUE>>, <<"asm", TRUE>>,
     <<"set_assembler", TRUE>>, <<"get_assembler", TRUE>>, <<"diff_file", FALSE>>,
     <<"snapshot_save", TRUE>>}

McpListed8 ==
    {<<"snapshot_diff", TRUE>>, <<"snapshot_list", TRUE>>, <<"snapshot_delete", TRUE>>,
     <<"analyze_routine", TRUE>>, <<"generate_tests", TRUE>>}

McpListed9 ==
    {<<"record_audio", TRUE>>, <<"load_sid", TRUE>>, <<"get_heatmap", TRUE>>,
     <<"heatmap_control", TRUE>>, <<"get_raster_position", TRUE>>, <<"profile_cpu", TRUE>>,
     <<"measure_region", TRUE>>}

McpListed10 ==
    {<<"load_debug_metadata", TRUE>>, <<"list_variables", TRUE>>, <<"inspect_variable", TRUE>>,
     <<"get_frame_info", TRUE>>, <<"get_execution_history", TRUE>>,
     <<"get_memory_access_history", TRUE>>}

McpListed == UNION {McpListed1, McpListed2, McpListed3, McpListed4, McpListed5,
                    McpListed6, McpListed7, McpListed8, McpListed9, McpListed10}

\* The names handleToolsCall compares with.
McpHandled ==
    DOMAIN McpPlainTools(McpNewInstance)
    \cup {"set_breakpoint", "set_watchpoint", "delete_breakpoint", "enable_breakpoint", "disable_breakpoint"}
    \cup {"fill_memory", "copy_memory", "swap_memory", "search_memory", "search_next", "search_prior",
          "snapshot_save", "snapshot_diff", "snapshot_list", "snapshot_delete", "analyze_routine"}
    \cup {"create_machine", "destroy_machine", "list_machines", "list_instances", "attach_cartridge",
          "eject_cartridge", "set_assembler", "get_assembler", "test_sequence", "project_open",
          "project_build", "project_run", "list_loggers", "set_log_level", "diff_file"}

\* Plugins register their tools when they are loaded, before the first request.
registerTool(name) ==
    /\ srvMade = 0
    /\ name \notin srvPlugin
    /\ srvPlugin' = srvPlugin \cup {name}
    /\ SrvSays("none")
    /\ UNCHANGED <<srvMachines, srvMade, srvCounter, srvSnaps, srvOverride, srvCarts, srvSeq, srvAsked>>

\* The last branch of handleToolsCall: a plugin's tool, or nobody's.
McpReaches(name) ==
    CASE name \in McpHandled -> "builtin"
      [] name \in srvPlugin  -> "plugin"
      [] OTHER               -> "unknown"

\* A client calls any tool it was shown.
SrvCallListed ==
    /\ \E r \in {McpReaches(name) : name \in {t[1] : t \in McpListed} \cup srvPlugin} : SrvSays(r)
    /\ UNCHANGED <<srvMachines, srvMade, srvCounter, srvSnaps, srvOverride, srvCarts, srvSeq, srvPlugin, srvAsked>>
-----------------------------------------------------------------------------
resolveAssembler(override) == IF override = "ca65" THEN "ca65" ELSE "default"

SrvAssembler(id) == IF id \in DOMAIN srvOverride THEN srvOverride[id] ELSE "default"

\* Its bus is at an address no living machine's has.
createMachineInstance(id, machines) ==
    \E bus \in SrvBuses \ {machines[i].bus : i \in DOMAIN machines} :
        /\ srvMachines' = (id :> [obj |-> srvMade + 1, bus |-> bus, assem |-> resolveAssembler(SrvAssembler(id))])
                              @@ machines
        /\ SrvSays("machine")

\* The old instance goes first, whatever becomes of the new one.
create_machine(id, known) ==
    /\ srvMade < MaxSrvObjs
    /\ srvMade' = srvMade + 1
    /\ IF known
       THEN createMachineInstance(id, SrvWithout(srvMachines, id))
       ELSE srvMachines' = SrvWithout(srvMachines, id) /\ SrvSays("error")
    /\ srvAsked' = IF id \in DOMAIN srvAsked THEN srvAsked ELSE (id :> "default") @@ srvAsked
    /\ UNCHANGED <<srvSnaps, srvOverride, srvCarts, srvPlugin>>

SrvCreateNamed(id, known) == create_machine(id, known) /\ UNCHANGED <<srvCounter, srvSeq>>
SrvCreateAuto(known) ==
    /\ srvCounter < 2
    /\ srvCounter' = srvCounter + 1
    /\ create_machine(SrvAutoId(srvCounter + 1), known)
    /\ UNCHANGED srvSeq

\* Faulty: the override stays.
destroy_machine_keeps(id) ==
    /\ id \in DOMAIN srvMachines
    /\ srvMachines' = SrvWithout(srvMachines, id)
    /\ srvAsked' = SrvWithout(srvAsked, id)
    /\ SrvSays("none")
    /\ UNCHANGED <<srvMade, srvCounter, srvSnaps, srvOverride, srvCarts, srvSeq, srvPlugin>>

destroy_machine(id) ==
    /\ id \in DOMAIN srvMachines
    /\ srvMachines' = SrvWithout(srvMachines, id)
    /\ srvOverride' = SrvWithout(srvOverride, id)
    /\ srvAsked' = SrvWithout(srvAsked, id)
    /\ SrvSays("none")
    /\ UNCHANGED <<srvMade, srvCounter, srvSnaps, srvCarts, srvSeq, srvPlugin>>

\* An unknown name is recorded and falls back to the default.
set_assembler(id, name) ==
    /\ id \in DOMAIN srvMachines
    /\ srvOverride' = (id :> name) @@ srvOverride
    /\ srvMachines' = [srvMachines EXCEPT ![id].assem = resolveAssembler(name)]
    /\ srvAsked' = [srvAsked EXCEPT ![id] = name]
    /\ SrvSays("machine")
    /\ UNCHANGED <<srvMade, srvCounter, srvSnaps, srvCarts, srvSeq, srvPlugin>>

SrvSnapshotSave(id) ==
    /\ id \in DOMAIN srvMachines
    /\ srvSnaps' = (id :> srvMachines[id].obj) @@ srvSnaps
    /\ SrvSays("machine")
    /\ UNCHANGED <<srvMachines, srvMade, srvCounter, srvOverride, srvCarts, srvSeq, srvPlugin, srvAsked>>

\* What snapshot_list and snapshot_diff show of an id that has snapshots.
SrvSnapshotShow(id) ==
    /\ id \in DOMAIN srvMachines /\ id \in DOMAIN srvSnaps
    /\ SrvSays("machine")
    /\ UNCHANGED <<srvMachines, srvMade, srvCounter, srvSnaps, srvOverride, srvCarts, srvSeq, srvPlugin, srvAsked>>

SrvSnapshotDelete(id) ==
    /\ id \in DOMAIN srvMachines /\ id \in DOMAIN srvSnaps
    /\ srvSnaps' = SrvWithout(srvSnaps, id)
    /\ SrvSays("machine")
    /\ UNCHANGED <<srvMachines, srvMade, srvCounter, srvOverride, srvCarts, srvSeq, srvPlugin, srvAsked>>

attach_cartridge(id) ==
    /\ id \in DOMAIN srvMachines
    /\ srvCarts' = (srvMachines[id].bus :> srvMachines[id].obj) @@ srvCarts
    /\ SrvSays("machine")
    /\ UNCHANGED <<srvMachines, srvMade, srvCounter, srvSnaps, srvOverride, srvSeq, srvPlugin, srvAsked>>

\* The cartridge found is the one attached at the bus's address, to whatever machine.
eject_cartridge(id) ==
    /\ id \in DOMAIN srvMachines
    /\ srvMachines[id].bus \in DOMAIN srvCarts
    /\ srvCarts' = SrvWithout(srvCarts, srvMachines[id].bus)
    /\ SrvSays("machine")
    /\ UNCHANGED <<srvMachines, srvMade, srvCounter, srvSnaps, srvOverride, srvSeq, srvPlugin, srvAsked>>

-----------------------------------------------------------------------------
(***************************************************************************)
(* test_sequence looks its machine up once; the commands in between are    *)
(* any tools, on any id; the registers it ends with are read through the   *)
(* pointer found at first.  If a command has destroyed or re-created that  *)
(* machine, the code reads an erased MachineState: what it answers then is *)
(* undefined.                                                              *)
(***************************************************************************)
SrvSequenceStart(id) ==
    /\ ~srvSeq.on /\ id \in DOMAIN srvMachines
    /\ srvSeq' = [on |-> TRUE, id |-> id, obj |-> srvMachines[id].obj]
    /\ SrvSays("none")
    /\ UNCHANGED <<srvMachines, srvMade, srvCounter, srvSnaps, srvOverride, srvCarts, srvPlugin, srvAsked>>

SrvFoundStill == srvSeq.id \in DOMAIN srvMachines /\ srvMachines[srvSeq.id].obj = srvSeq.obj

SrvSequenceEnd ==
    /\ srvSeq.on
    /\ srvSeq' = [on |-> FALSE]
    /\ IF SrvFoundStill THEN SrvSays("machine") ELSE \E kind \in {"machine", "undefined"} : SrvSays(kind)
    /\ UNCHANGED <<srvMachines, srvMade, srvCounter, srvSnaps, srvOverride, srvCarts, srvPlugin, srvAsked>>

McpServerNext ==
    \/ \E name \in {"step_cpu", "mega65_info"} : registerTool(name)
    \/ SrvCallListed
    \/ \E id \in SrvIds, known \in BOOLEAN : SrvCreateNamed(id, known)
    \/ \E known \in BOOLEAN : SrvCreateAuto(known)
    \/ \E id \in DOMAIN srvMachines :
         \/ destroy_machine(id)
         \/ \E name \in {"ca65", "nosuch"} : set_assembler(id, name)
         \/ SrvSnapshotSave(id) \/ SrvSnapshotShow(id) \/ SrvSnapshotDelete(id)
         \/ attach_cartridge(id) \/ eject_cartridge(id)
         \/ SrvSequenceStart(id)
    \/ SrvSequenceEnd

McpServerSpec == McpServerInit /\ [][McpServerNext]_srvVars
-----------------------------------------------------------------------------
(***************************************************************************)
(* Every tool the server lists, its own or a plugin's, reaches a handler:  *)
(* the list of handleDescribe and the comparisons of handleToolsCall are   *)
(* kept by hand in two places.                                             *)
(***************************************************************************)
SrvListedIsHandled == srvReply.kind # "unknown"

(***************************************************************************)
(* An instance assembles with what its client asked for: re-creating an id *)
(* keeps the choice, destroying it forgets it, so that the next machine of *)
(* that id starts with its default.                                        *)
(***************************************************************************)
SrvAssemblerAsAsked ==
    \A id \in DOMAIN srvMachines : srvMachines[id].assem = resolveAssembler(srvAsked[id])
=============================================================================
