--------------------------- MODULE CliInterpreter ---------------------------
(***************************************************************************)
(* The command line (cli/main/cli_interpreter.cpp): one operator per       *)
(* command, cli_<command>, giving the set of outcomes of a line: the       *)
(* context afterwards and, for the commands that run the machine, why they *)
(* stopped.  The context's pointers are pairs of a machine and one of its  *)
(* CPUs, so that one which was not brought along shows.                    *)
(*                                                                         *)
(* "changed" tells whether commands have altered the machine or what the   *)
(* debugger holds; the values are left out, and what a command depends on  *)
(* beyond the context (files, devices, the program) is a choice.  The      *)
(* memory commands compute as the tools of McpTools do, except that no    *)
(* match of a search runs over the end of memory.                          *)
(***************************************************************************)
EXTENDS Integers, Sequences, FiniteSets, TLC

CONSTANTS MaxCliMachines,  \* bound: machines ever created
          MaxCliBps,       \* bound: breakpoints ever set
          MaxCliChanged    \* bound: parts changed at a time

ASSUME CliAssumption == MaxCliMachines \in Nat \ {0} /\ MaxCliBps \in Nat /\ MaxCliChanged \in Nat

VARIABLES cli,     \* CliContext, the interpreter's fields, g_interrupted
          cliRan   \* history: how the last command that ran the machine ended

cliVars == <<cli, cliRan>>

CliNone == <<0, 0>>

\* CliContext and CliInterpreter's fields as constructed.
CliFresh ==
    [made |-> 0, cpu |-> CliNone, bus |-> CliNone, dbg |-> CliNone, disasm |-> CliNone, assem |-> CliNone,
     loaded |-> FALSE, asmMode |-> FALSE, paused |-> FALSE, brkTrap |-> TRUE,
     bps |-> <<>>, next |-> 1, intr |-> FALSE, changed |-> {}, quit |-> FALSE]

CliDone(c) == [c |-> c, stop |-> "none", fresh |-> TRUE]
CliStop(c, why) == [c |-> c, stop |-> why, fresh |-> TRUE]
CliChanges(c, part) == [c EXCEPT !.changed = @ \cup {part}]
CliForgets(c, part) == [c EXCEPT !.changed = @ \ {part}]
CliMay(c, part) == {CliDone(c), CliDone(CliChanges(c, part))}
\* "No machine created."
CliWith(c, outcomes) == IF c.cpu = CliNone THEN {CliDone(c)} ELSE outcomes
CliOn(c, kinds) == \E id \in DOMAIN c.bps : c.bps[id].on /\ c.bps[id].kind \in kinds
\* A command's access over the watched bus may meet a watch.
CliAccess(c) == {c} \cup (IF CliOn(c, {"watch"}) THEN {[c EXCEPT !.paused = TRUE]} ELSE {})

\* Faulty: a Ctrl-C pressed at the prompt is kept.
CliBeginKeeps(c) == c

\* g_interrupted = 0, before the machine runs.
CliBegin(c) == [c EXCEPT !.intr = FALSE]

\* Faulty: the pause is left as it is.
CliResumeForgotten(c) == c

\* m_ctx.dbg->resume()
CliResume(c) == [c EXCEPT !.paused = FALSE]

\* What pauses a machine that runs: a breakpoint or watch ("point"), a BRK ("trap").
CliPauses(c) == (IF CliOn(c, {"exec", "watch"}) THEN {"point"} ELSE {}) \cup (IF c.brkTrap THEN {"trap"} ELSE {})

\* The machine is stepped while it may be; a pause that was there ("stale") ends it after
\* a step.  All three are reported as a breakpoint.
CliSteps(c) ==
    IF c.paused THEN {CliStop(c, "stale")}
    ELSE {CliStop(c, "end")} \cup {CliStop([c EXCEPT !.paused = TRUE], why) : why \in CliPauses(c)}

\* source_stepper::step looks at g_interrupted last, so one that comes in the step that
\* ends it stays; an old one ends it after its first step.
CliSourceStep(c) ==
    {CliStop([o.c EXCEPT !.intr = i], o.stop) : o \in CliSteps(c), i \in {c.intr, TRUE}}
    \cup {[c |-> [c EXCEPT !.intr = FALSE], stop |-> "interrupted", fresh |-> ~c.intr]}

\* A loop that watches g_interrupted before each step, and clears it when it is done.
CliInterruptible(c) ==
    IF c.intr THEN {[c |-> [c EXCEPT !.intr = FALSE], stop |-> "interrupted", fresh |-> FALSE]}
    ELSE CliSteps(c) \cup {CliStop(c, "interrupted")}
-----------------------------------------------------------------------------
(***************************************************************************)
(* Machines                                                                *)
(***************************************************************************)
cli_create(c) ==
    {CliDone(c)} \cup
    IF c.made = MaxCliMachines THEN {}
    ELSE LET m == <<c.made + 1, 1>>
         IN  {CliDone([c EXCEPT !.made = @ + 1, !.cpu = m, !.bus = m, !.dbg = m, !.disasm = m, !.assem = m,
                               !.paused = FALSE, !.brkTrap = TRUE, !.bps = <<>>, !.next = 1, !.changed = {}])}

cli_reset(c) == CliWith(c, {CliDone([CliForgets(c, "machine") EXCEPT !.bus = c.cpu])})

\* Faulty: the disassembler stays the old CPU's.
cli_cpu_keeps(c) == CliWith(c, {CliDone(c)} \cup {CliDone([c EXCEPT !.cpu = <<c.cpu[1], k>>, !.bus = <<c.cpu[1], k>>]) : k \in 1 .. 2})

\* A C128 has two; its debugger and its assembler stay the first one's.
cli_cpu(c) ==
    CliWith(c, {CliDone(c)} \cup
        {CliDone([c EXCEPT !.cpu = <<c.cpu[1], k>>, !.bus = <<c.cpu[1], k>>, !.disasm = <<c.cpu[1], k>>]) : k \in 1 .. 2})

\* Its run creates the machine anew and loads the program.
cli_project(c) ==
    {CliDone(c)} \cup UNION {{CliDone(o.c)} \cup {CliDone(CliChanges(a, "machine")) : a \in CliAccess(o.c)}
                            : o \in cli_create(c)}
cli_config(c) == {CliDone(c)} \cup CliWith(c, {CliDone([c EXCEPT !.assem = <<c.cpu[1], c.cpu[2]>>])})
cli_quit(c) == {CliDone([c EXCEPT !.quit = TRUE])}
-----------------------------------------------------------------------------
(***************************************************************************)
(* Running                                                                 *)
(***************************************************************************)
cli_run(c) ==
    CliWith(c, {CliDone(c)} \cup CliInterruptible(CliResume(CliBegin(
        IF c.loaded THEN CliChanges(c, "machine") ELSE c))))
cli_runto(c) == CliWith(c, {CliDone(c)} \cup CliInterruptible(CliBegin(CliResume(c)))
                               \cup {CliStop(CliBegin(CliResume(c)), "condition")})
cli_until(c) == CliWith(c, {CliDone(c)} \cup CliInterruptible(CliResume(c)))
\* By a count of instructions, which nothing interrupts, or by source line.
cli_step(c) == CliWith(c, CliSteps(CliResume(c)) \cup CliSourceStep(CliResume(c)))
cli_next(c) == CliWith(c, {CliDone(c)} \cup CliSourceStep(CliResume(c)))
cli_finish(c) == CliWith(c, {CliDone(c)} \cup CliSourceStep(CliResume(c)))
\* The writes that are undone go over the watched bus; the registers are the debugger's CPU's.
cli_backstep(c) ==
    CliWith(c, {CliDone(c)} \cup {CliDone(CliChanges(s, "machine")) : s \in CliAccess(c)})
cli_undoinfo(c) == {CliDone(c)}

\* The machine runs and what ends or pauses it is not reported.
CliSilently(S) == {CliDone(o.c) : o \in S}

\* .instruction: assembled at $0200, executed there, and the PC put back.
cli_direct(c) ==
    CliWith(c, {CliDone(c)} \cup CliSilently(UNION {CliSteps(CliChanges(s, "machine")) : s \in CliAccess(c)}))

cli_setpc(c) == CliWith(c, CliMay(c, "machine"))
cli_regs(c) == {CliDone(c)}
cli_regwrite(c) == CliWith(c, CliMay(c, "machine"))
\* These two step without resume().
cli_profile(c) == CliWith(c, CliSilently(CliInterruptible(CliBegin(c))))
cli_measure(c) == CliWith(c, {CliDone(c)} \cup CliSilently(CliSteps(CliChanges(c, "machine"))))
\* Steps on whether paused or not.
cli_recordaudio(c) == CliWith(c, CliSilently(CliSteps(c)))
\* sid load writes, sid scope runs until it has its frames, a pause or a Ctrl-C, old or new.
cli_sid(c) ==
    CliWith(c, {CliDone(CliChanges(s, "machine")) : s \in CliAccess(c)} \cup {CliDone(c)}
               \cup {CliDone(CliBegin(o.c)) : o \in CliSteps(CliResume(c))})
-----------------------------------------------------------------------------
(***************************************************************************)
(* Breakpoints and the debugger's records                                  *)
(***************************************************************************)
CliAdd(c, kind) ==
    [c EXCEPT !.bps = [b \in DOMAIN @ \cup {c.next} |-> IF b = c.next THEN [kind |-> kind, on |-> TRUE] ELSE @[b]],
              !.next = @ + 1]
CliRoom(c) == c.next <= MaxCliBps

\* At an address, a source line, or with a condition: then at address 0.
cli_break(c) ==
    CliWith(c, {CliDone(c)} \cup (IF CliRoom(c) THEN {CliDone(CliAdd(c, "exec"))} ELSE {}))
cli_watch(c) ==
    CliWith(c, {CliDone(c)} \cup (IF CliRoom(c) THEN {CliDone(CliAdd(c, "watch"))} ELSE {}))
cli_delete(c) ==
    CliWith(c, {CliDone([c EXCEPT !.bps = [b \in DOMAIN @ \ {id} |-> @[b]]]) : id \in 1 .. MaxCliBps})
\* By address: whatever is set there.
cli_clear(c) == CliWith(c, {CliDone([c EXCEPT !.bps = [b \in DOMAIN @ \ ids |-> @[b]]]) : ids \in SUBSET DOMAIN c.bps})
CliSetEnabled(c, on) ==
    {CliDone(c)} \cup {CliDone([c EXCEPT !.bps[id].on = on]) : id \in DOMAIN c.bps}
cli_enable(c) == CliWith(c, CliSetEnabled(c, TRUE))
cli_disable(c) == CliWith(c, CliSetEnabled(c, FALSE))
cli_brktrap(c) == CliWith(c, {CliDone([c EXCEPT !.brkTrap = b]) : b \in BOOLEAN})
cli_info(c) == {CliDone(c)}
cli_print(c) == CliWith(c, {CliDone(s) : s \in CliAccess(c)})
cli_stack(c) == {CliDone(c)}
cli_frame(c) == {CliDone(c)}
cli_sym(c) == CliWith(c, CliMay(c, "debugger") \cup {CliDone(CliForgets(c, "debugger"))})
cli_trace(c) == CliWith(c, CliMay(c, "debugger") \cup {CliDone(CliForgets(c, "debugger"))})
cli_snapshot(c) == CliWith(c, CliMay(c, "debugger") \cup {CliDone(CliForgets(c, "debugger"))})
cli_analyze(c) == {CliDone(c)}
cli_srcmap(c) == CliWith(c, CliMay(c, "debugger") \cup {CliDone(CliForgets(c, "debugger"))})
cli_heatmap(c) == CliWith(c, CliMay(c, "debugger") \cup {CliDone(CliForgets(c, "debugger"))})
cli_load_debug_metadata(c) == CliWith(c, CliMay(c, "debugger"))
cli_vars(c) == {CliDone(c)}
cli_help(c) == {CliDone(c)}
cli_list(c) == {CliDone(c)}
cli_list_source(c) == {CliDone(c)}
cli_log(c) == {CliDone(c)}
cli_log_show(c) == CliWith(c, {CliDone(c), CliDone(CliForgets(c, "debugger"))})
-----------------------------------------------------------------------------
(***************************************************************************)
(* Memory, images and devices                                              *)
(***************************************************************************)
CliWrites(c) == CliWith(c, {CliDone(c)} \cup {CliDone(CliChanges(s, "machine")) : s \in CliAccess(c)})
cli_f(c) == CliWrites(c)
cli_copy(c) == CliWrites(c)
cli_swap(c) == CliWrites(c)
cli_m(c) == {CliDone(c)}
cli_save(c) == CliWith(c, {CliDone(s) : s \in CliAccess(c)})
cli_search(c) == CliWith(c, CliMay(c, "debugger"))
cli_searcha(c) == CliWith(c, CliMay(c, "debugger"))
cli_findnext(c) == {CliDone(c)}
cli_findprior(c) == {CliDone(c)}
cli_disasm(c) == {CliDone(c)}
\* asm file assembles and loads; asm <addr> turns to assembly lines.
cli_asm(c) == CliWrites(c) \cup CliWith(c, {CliDone([c EXCEPT !.asmMode = TRUE])})
cli_load(c) == CliWith(c, {CliDone(c)} \cup {CliDone([CliChanges(s, "machine") EXCEPT !.loaded = TRUE]) : s \in CliAccess(c)})
cli_load_vice(c) == CliWrites(c) \cup CliWith(c, CliMay(c, "machine"))
cli_save_vice(c) == {CliDone(c)}
\* A script reaches registers, memory and breakpoints.
cli_script(c) == CliWrites(c) \cup cli_break(c) \cup CliWith(c, CliMay(c, "machine"))
CliDevice(c) == CliWith(c, CliMay(c, "machine"))
cli_serial(c) == CliDevice(c)
cli_tape(c) == CliDevice(c)
cli_disk(c) == CliDevice(c)
cli_cart(c) == {CliDone(c)} \cup UNION {cli_reset(o.c) : o \in CliDevice(c)}
cli_rom(c) == {CliDone(c)} \cup UNION {cli_reset(o.c) : o \in CliDevice(c)}
cli_eject(c) == {CliDone(c)} \cup UNION {cli_reset(o.c) : o \in CliDevice(c)}
cli_gfx(c) == {CliDone(c)}
cli_screenshot(c) == {CliDone(c)}
cli_type(c) == CliDevice(c)
cli_key(c) == CliDevice(c)
cli_joy(c) == CliDevice(c)
cli_mouse(c) == CliDevice(c)
cli_dot_info(c) == {CliDone(c)}
cli_map(c) == {CliDone(c)}
cli_intercept(c) == CliDevice(c)
cli_hle(c) == CliDevice(c)
cli_speed(c) == CliDevice(c)
cli_warp(c) == CliDevice(c)
cli_personality(c) == CliDevice(c)
cli_iomap(c) == {CliDone(c)}
cli_raster(c) == {CliDone(c)}
cli_devinfo(c) == {CliDone(c)}
cli_maplog(c) == CliDevice(c)
cli_devices(c) == {CliDone(c)}
cli_dot_operation(c) == CliDevice(c)
-----------------------------------------------------------------------------
(***************************************************************************)
(* The branches of handleNormalCommand in their order: the words they      *)
(* compare with.                                                           *)
(***************************************************************************)
CliWords ==
    <<"help", "list", "log", "save", "create", "reset", "step", "backstep", "next", "finish",
      "until", "undoinfo", "runto", "run", "load", "load-vice", "save-vice", "script", "info",
      "break", "delete", "clear", "enable", "disable", "watch", "brktrap", "print", "list",
      "stack", "frame", "sym", "serial", "tape", "disk", "cart", "rom", "eject", "gfx",
      "screenshot", "setpc", "cpu", "regs", "m", "f", "copy", "swap", "search", "searcha",
      "findnext", "findprior", "disasm", "asm", "config", "type", "key", "joy", "mouse",
      "dev.info", "regwrite", "trace", "snapshot", "analyze", "sid", "map", "project", "srcmap",
      "intercept", "hle", "speed", "warp", "personality", "iomap", "heatmap", "raster",
      "devinfo", "profile", "measure", "recordaudio", "load-debug-metadata", "vars", "log",
      "maplog", "devices", "dev.op", "quit">>

\* What each of them does.
CliBranches(c) ==
    <<cli_help(c), cli_list(c), cli_log(c), cli_save(c), cli_create(c), cli_reset(c),
      cli_step(c), cli_backstep(c), cli_next(c), cli_finish(c), cli_until(c), cli_undoinfo(c),
      cli_runto(c), cli_run(c), cli_load(c), cli_load_vice(c), cli_save_vice(c), cli_script(c),
      cli_info(c), cli_break(c), cli_delete(c), cli_clear(c), cli_enable(c), cli_disable(c),
      cli_watch(c), cli_brktrap(c), cli_print(c), cli_list_source(c), cli_stack(c),
      cli_frame(c), cli_sym(c), cli_serial(c), cli_tape(c), cli_disk(c), cli_cart(c),
      cli_rom(c), cli_eject(c), cli_gfx(c), cli_screenshot(c), cli_setpc(c), cli_cpu(c),
      cli_regs(c), cli_m(c), cli_f(c), cli_copy(c), cli_swap(c), cli_search(c), cli_searcha(c),
      cli_findnext(c), cli_findprior(c), cli_disasm(c), cli_asm(c), cli_config(c), cli_type(c),
      cli_key(c), cli_joy(c), cli_mouse(c), cli_dot_info(c), cli_regwrite(c), cli_trace(c),
      cli_snapshot(c), cli_analyze(c), cli_sid(c), cli_map(c), cli_project(c), cli_srcmap(c),
      cli_intercept(c), cli_hle(c), cli_speed(c), cli_warp(c), cli_personality(c), cli_iomap(c),
      cli_heatmap(c), cli_raster(c), cli_devinfo(c), cli_profile(c), cli_measure(c),
      cli_recordaudio(c), cli_load_debug_metadata(c), cli_vars(c), cli_log_show(c),
      cli_maplog(c), cli_devices(c), cli_dot_operation(c), cli_quit(c)>>

\* The first branch that compares with a word serves it.
CliServed == {i \in DOMAIN CliWords : \A j \in 1 .. i - 1 : CliWords[j] # CliWords[i]}

\* Those that run the machine: the first two clear an old interrupt.
CliRunner(word) ==
    IF word \in {"run", "runto"} THEN "clears"
    ELSE IF word \in {"until", "step", "next", "finish"} THEN "keeps" ELSE "none"

CliReply(runner, o) ==
    /\ Cardinality(o.c.changed) <= MaxCliChanged
    /\ cli' = o.c
    /\ cliRan' = [runner |-> runner, stop |-> o.stop, fresh |-> o.fresh, left |-> o.c.intr]

CliInit == cli = CliFresh /\ cliRan = [runner |-> "none", stop |-> "none", fresh |-> TRUE, left |-> FALSE]

handleNormalCommand ==
    /\ ~cli.asmMode /\ ~cli.quit
    /\ \E branches \in {CliBranches(cli)}, runner \in {"clears", "keeps", "none"} :
          \E o \in UNION {branches[i] : i \in {j \in CliServed : CliRunner(CliWords[j]) = runner}} : CliReply(runner, o)

CliDirect == ~cli.asmMode /\ ~cli.quit /\ \E o \in cli_direct(cli) : CliReply("none", o)

\* Every line is assembled until a single dot.
handleAssemblyLine ==
    /\ cli.asmMode
    /\ \E o \in {CliDone([cli EXCEPT !.asmMode = FALSE])} \cup CliWrites(cli) : CliReply("none", o)

\* Ctrl-C at the prompt.
CliInterrupt == cli' = [cli EXCEPT !.intr = TRUE] /\ UNCHANGED cliRan

CliNext == handleNormalCommand \/ CliDirect \/ handleAssemblyLine \/ CliInterrupt

CliSpec == CliInit /\ [][CliNext]_cliVars
-----------------------------------------------------------------------------
(***************************************************************************)
(* The context is about one machine: whatever commands replaced it or      *)
(* chose another CPU, the bus and the disassembler are those of the CPU    *)
(* shown, the assembler and the debugger are the same machine's, the       *)
(* debugger its first CPU's whichever is shown, and assembly mode has a    *)
(* machine to assemble into.                                               *)
(***************************************************************************)
CliContextAgrees ==
    /\ cli.bus = cli.cpu /\ cli.disasm = cli.cpu /\ cli.assem[1] = cli.cpu[1]
    /\ cli.dbg = IF cli.cpu = CliNone THEN CliNone ELSE <<cli.cpu[1], 1>>
    /\ cli.asmMode => cli.cpu # CliNone

(***************************************************************************)
(* A Ctrl-C stops what it was pressed for: run and runto report an         *)
(* interruption only when it came while they ran.  until, next, finish and *)
(* step by line do not clear it first and may stop for an old one; but     *)
(* what reports an interruption has cleared it, so that a Ctrl-C ends no   *)
(* second command.                                                         *)
(***************************************************************************)
CliInterruptIsFresh ==
    /\ cliRan.runner = "clears" => cliRan.fresh
    /\ cliRan.stop = "interrupted" => ~cliRan.left

(***************************************************************************)
(* A command that runs the machine and reports a breakpoint was stopped by *)
(* a breakpoint, a watch or a BRK of its own run, not by a pause that an   *)
(* earlier command left behind.                                            *)
(***************************************************************************)
CliStopsAreReal == cliRan.runner # "none" => cliRan.stop # "stale"

(***************************************************************************)
(* A command works on the selected machine and CPU with the tools made for *)
(* them, is stopped only by an interrupt of its own time, and reports only *)
(* stops of its own run.                                                   *)
(***************************************************************************)
CliRight == CliContextAgrees /\ CliInterruptIsFresh /\ CliStopsAreReal
=============================================================================
