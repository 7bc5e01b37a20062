---------------------------- MODULE DebugContext ----------------------------
(***************************************************************************)
(* DebugContext and TraceBuffer (libdebug/main): the observer the CPU and  *)
(* the bus call on every instruction and every access.  It records the     *)
(* trace, stops on breakpoints and watchpoints, resumes, steps backwards   *)
(* and keeps snapshots.  The front ends (command line, GUI, MCP, GDB) only *)
(* issue the actions below.                                                *)
(*                                                                         *)
(* The trace is a bounded sequence: CircularBuffer is proved to be one.    *)
(* The machine is a program counter, an accumulator and a memory as peek8  *)
(* shows it, of which Rom is under an overlay and does not change; an      *)
(* instruction writes what it likes.  Addresses whose writes a device      *)
(* takes are not in Addrs.                                                 *)
(***************************************************************************)
EXTENDS BreakpointList

CONSTANTS Vals,       \* the values of a byte of memory
          Rom,        \* addresses under an overlay, read-only or writable
          Capacity,   \* of the trace buffer
          MaxWrites,  \* bound: bus writes of one instruction
          MaxLog,     \* bound: bus writes recorded in one trace entry
          MaxDepth,   \* bound: entries of the call stack trace
          MaxSnaps    \* bound: snapshots

ASSUME DebugAssumption ==
    /\ Rom \subseteq Addrs
    /\ NoAddr \notin Addrs
    /\ Capacity \in Nat \ {0}
    /\ MaxDepth \in Nat

VARIABLES pc, acc,     \* the CPU's registers
          mem,         \* what the bus shows: address |-> value
          trace,       \* m_trace, oldest entry first
          paused,      \* m_paused
          lastPaused,  \* m_lastPausedAddr
          resumeSkip,  \* m_resumeSkipAddr
          pauseOnBrk,  \* m_pauseOnBrk
          depth,       \* the depth of m_stackTrace
          snaps,       \* m_snapshots
          \* History variables, read by properties only:
          intact,      \* the newest entry was pushed after the last rewind or restore
          skips,       \* breakpoints passed without stopping since the last resume
          armed        \* resumed at the breakpoint, nothing has moved the CPU since

machine == <<pc, acc, mem>>
control == <<paused, lastPaused, resumeSkip, pauseOnBrk>>
history == <<intact, skips, armed>>
vars == <<listVars, machine, control, trace, depth, snaps, history>>

Kinds == {"plain", "push", "pull", "brk"}

Init ==
    /\ ListInit
    /\ pc \in Addrs /\ acc \in Accs /\ mem \in [Addrs -> Vals]
    /\ trace = << >> /\ depth = 0 /\ snaps = << >>
    /\ paused = FALSE /\ lastPaused = NoAddr /\ resumeSkip = NoAddr /\ pauseOnBrk = TRUE
    /\ intact = FALSE /\ skips = 0 /\ armed = FALSE
-----------------------------------------------------------------------------
(***************************************************************************)
(* One bus write: what the bus shows, and what onMemoryWrite appends to    *)
(* the current trace entry.  A read-only overlay ignores the write and a   *)
(* writable one lets it into the RAM beneath; either way the overlay's     *)
(* byte goes on being shown, and is the `before' of the log.               *)
(***************************************************************************)
BusWrite(b, w) ==
    [mem |-> IF w.loc \in Rom THEN b.mem ELSE [b.mem EXCEPT ![w.loc] = w.val],
     log |-> Append(b.log, [loc |-> w.loc, val |-> b.mem[w.loc]])]

WriteAll(b, ws) ==
    LET After[n \in 0 .. Len(ws)] == IF n = 0 THEN b ELSE BusWrite(After[n - 1], ws[n])
    IN  After[Len(ws)]

\* Faulty: undoes the writes in the order they were made.
UndoInOrder(b, log) == WriteAll(b, log)

\* The undo loop of reverseStep: newest write first, each through write8.
Undo(b, log) == WriteAll(b, Reverse(log))

\* onMemoryWrite records into the newest entry, if there is one.
Record(tr, log) ==
    IF tr = << >> THEN tr ELSE [tr EXCEPT ![Len(tr)].writes = @ \o log]

\* Faulty: a full buffer grows.
PushEntryUncapped(tr, e) == Append(tr, e)

\* pushNew on a full buffer recycles the oldest entry.
PushEntry(tr, e) == Append(IF Len(tr) = Capacity THEN Tail(tr) ELSE tr, e)

Entry == [pc |-> pc, acc |-> acc, writes |-> << >>, was |-> mem]

\* Do the bus writes of w and everything they trigger, on breakpoint list l.
DoWrites(ws, tr, l, p) ==
    LET b == WriteAll([mem |-> mem, log |-> << >>], ws)
    IN  /\ mem' = b.mem
        /\ trace' = Record(tr, b.log)
        /\ trace' # << >> => Len(trace'[Len(trace')].writes) <= MaxLog
        /\ bps' = CountedWrites(l, ws, acc)
        /\ paused' = (p \/ \E i \in DOMAIN ws : Hit(l, "write", ws[i].loc, acc))
-----------------------------------------------------------------------------
(***************************************************************************)
(* CPU step with observer: the opcode fetch is a bus read that can hit a   *)
(* read watchpoint; then onStep decides whether the instruction runs.      *)
(* `veto' is another observer of the registry refusing.                    *)
(***************************************************************************)
Skipping == pc = resumeSkip

\* Faulty: looks at the breakpoints before the address to skip.
StopsBeforeSkip(kind, veto) ==
    veto \/ Hit(bps, "exec", pc, acc) \/ (kind = "brk" /\ pauseOnBrk)

Stops(kind, veto) ==
    /\ ~Skipping
    /\ veto \/ Hit(bps, "exec", pc, acc) \/ (kind = "brk" /\ pauseOnBrk)

Fetched == Counted(bps, "read", pc, acc)
FetchPauses == paused \/ Hit(bps, "read", pc, acc)

\* onStep returns false: the entry stays in the trace, the pc stays put.
StepStopped(kind, veto) ==
    /\ Stops(kind, veto)
    /\ trace' = PushEntry(trace, Entry)
    /\ bps' = Counted(Fetched, "exec", pc, acc)
    /\ LET pause == Hit(bps, "exec", pc, acc) \/ (kind = "brk" /\ pauseOnBrk)
       IN  /\ paused' = (FetchPauses \/ pause)
           /\ lastPaused' = IF pause THEN pc ELSE lastPaused
    /\ intact' = TRUE /\ armed' = FALSE
    /\ UNCHANGED <<nextId, execCount, watchCount, machine, resumeSkip, pauseOnBrk, depth,
                   snaps, skips>>

\* Faulty: the skip address survives the step it was meant for.
SkipKept == resumeSkip

\* m_resumeSkipAddr after onStep let the instruction run.
SkipAfterStep == IF Skipping THEN NoAddr ELSE resumeSkip

\* trackStack: calls, pushes and BRK add an entry, returns and pulls drop one.
TrackStack(kind) ==
    CASE kind \in {"push", "brk"} -> depth' = depth + 1 /\ depth < MaxDepth
      [] kind = "pull"            -> depth' = IF depth > 0 THEN depth - 1 ELSE 0
      [] kind = "plain"           -> depth' = depth

\* onStep returns true and the instruction runs, reading `r' and writing ws.
StepRuns(kind, veto, r, ws, a, target) ==
    /\ ~Stops(kind, veto)
    /\ TrackStack(kind)
    /\ DoWrites(ws, PushEntry(trace, Entry),
                Counted(Fetched, "read", r, acc),
                FetchPauses \/ Hit(bps, "read", r, acc))
    /\ resumeSkip' = SkipAfterStep
    /\ pc' = target /\ acc' = a
    /\ intact' = TRUE /\ armed' = FALSE
    /\ skips' = skips + One(Hit(bps, "exec", pc, acc))
    /\ UNCHANGED <<nextId, execCount, watchCount, lastPaused, pauseOnBrk, snaps>>

(***************************************************************************)
(* A CPU step that takes an interrupt: the observer is not called, but its *)
(* stack writes are recorded in the entry of the instruction before, and   *)
(* it reads the vector r.                                                  *)
(***************************************************************************)
TakeInterrupt(r, ws, target) ==
    /\ DoWrites(ws, trace, Counted(bps, "read", r, acc), paused \/ Hit(bps, "read", r, acc))
    /\ pc' = target /\ armed' = FALSE
    /\ UNCHANGED <<nextId, execCount, watchCount, acc, lastPaused, resumeSkip, pauseOnBrk,
                   depth, snaps, intact, skips>>
-----------------------------------------------------------------------------
(***************************************************************************)
(* What the user does.                                                     *)
(***************************************************************************)
\* A memory edit goes through the bus, so it is recorded like a CPU write.
Poke(w) ==
    /\ DoWrites(<<w>>, trace, bps, paused)
    /\ UNCHANGED <<nextId, execCount, watchCount, pc, acc, lastPaused, resumeSkip,
                   pauseOnBrk, depth, snaps, history>>

\* A register edit, a jump, or the reset of the machine.
SetRegisters(p, a) ==
    /\ pc' = p /\ acc' = a /\ armed' = FALSE
    /\ UNCHANGED <<listVars, mem, control, trace, depth, snaps, intact, skips>>

\* resume()
Resume ==
    /\ resumeSkip' = lastPaused
    /\ paused' = FALSE
    /\ skips' = 0 /\ armed' = (pc = lastPaused)
    /\ UNCHANGED <<listVars, machine, lastPaused, pauseOnBrk, trace, depth, snaps, intact>>

SetPauseOnBrk(on) ==
    /\ pauseOnBrk' = on
    /\ UNCHANGED <<listVars, machine, paused, lastPaused, resumeSkip, trace, depth, snaps,
                   history>>

(***************************************************************************)
(* reverseStep(): the newest entry is popped first, so the undo writes,    *)
(* which go through the observed bus, are recorded in the entry before it. *)
(***************************************************************************)
ReverseStep ==
    /\ trace # << >>
    /\ LET e    == Last(trace)
           rest == Front(trace)
           b    == Undo([mem |-> mem, log |-> << >>], e.writes)
           hit  == \E i \in DOMAIN e.writes : Hit(bps, "write", e.writes[i].loc, acc)
       IN  /\ mem' = b.mem
           /\ trace' = Record(rest, b.log)
           /\ trace' # << >> => Len(Last(trace').writes) <= MaxLog
           /\ bps' = CountedWrites(bps, e.writes, acc)
           /\ paused' = (paused \/ hit)
           /\ pc' = e.pc /\ acc' = e.acc
    /\ intact' = FALSE /\ armed' = FALSE
    /\ UNCHANGED <<nextId, execCount, watchCount, lastPaused, resumeSkip, pauseOnBrk, depth,
                   snaps, skips>>

ClearTrace ==
    /\ trace' = << >> /\ intact' = FALSE
    /\ UNCHANGED <<listVars, machine, control, depth, snaps, skips, armed>>

SaveSnapshot ==
    /\ Len(snaps) < MaxSnaps
    /\ snaps' = Append(snaps, [pc |-> pc, acc |-> acc, mem |-> mem])
    /\ UNCHANGED <<listVars, machine, control, trace, depth, history>>

\* restoreSnapshot(index): the state is loaded behind the observer's back,
\* and the trace is kept.
RestoreSnapshot(i) ==
    /\ i \in DOMAIN snaps
    /\ pc' = snaps[i].pc /\ acc' = snaps[i].acc /\ mem' = snaps[i].mem
    /\ intact' = FALSE /\ armed' = FALSE
    /\ UNCHANGED <<listVars, control, trace, depth, snaps, skips>>

\* deleteSnapshot(index) and clearSnapshots(): later snapshots move down.
DeleteSnapshot(i) ==
    /\ i \in DOMAIN snaps
    /\ snaps' = RemoveAt(snaps, i)
    /\ UNCHANGED <<listVars, machine, control, trace, depth, history>>

ClearSnapshots ==
    /\ snaps # << >>
    /\ snaps' = << >>
    /\ UNCHANGED <<listVars, machine, control, trace, depth, history>>

EditBreakpoints == Edit /\ UNCHANGED <<machine, control, trace, depth, snaps, history>>

Write == [loc : Addrs, val : Vals]

Next ==
    \/ EditBreakpoints
    \/ \E kind \in Kinds, veto \in BOOLEAN :
          \/ StepStopped(kind, veto)
          \/ \E r \in Addrs \cup {NoAddr}, ws \in BoundedSeq(Write, MaxWrites),
                a \in Accs, target \in Addrs : StepRuns(kind, veto, r, ws, a, target)
    \/ \E r \in Addrs, ws \in BoundedSeq(Write, MaxWrites), target \in Addrs :
          TakeInterrupt(r, ws, target)
    \/ \E w \in Write : Poke(w)
    \/ \E p \in Addrs, a \in Accs : SetRegisters(p, a)
    \/ Resume \/ ReverseStep \/ ClearTrace \/ SaveSnapshot \/ ClearSnapshots
    \/ \E on \in BOOLEAN : SetPauseOnBrk(on)
    \/ \E i \in 1 .. MaxSnaps : RestoreSnapshot(i) \/ DeleteSnapshot(i)

Spec == Init /\ [][Next]_vars
-----------------------------------------------------------------------------
\* Registers and memory hold values, and the trace stays within its capacity.
TypeOK ==
    /\ bps \in Seq(Breakpoint) /\ nextId \in 1 .. MaxBps + 1
    /\ execCount \in 0 .. MaxBps /\ watchCount \in 0 .. MaxBps
    /\ pc \in Addrs /\ acc \in Accs /\ mem \in [Addrs -> Vals]
    /\ trace \in Seq([pc : Addrs, acc : Accs, writes : Seq(Write), was : [Addrs -> Vals]])
    /\ Len(trace) <= Capacity
    /\ lastPaused \in Addrs \cup {NoAddr} /\ resumeSkip \in Addrs \cup {NoAddr}
    /\ paused \in BOOLEAN /\ pauseOnBrk \in BOOLEAN
    /\ depth \in 0 .. MaxDepth
    /\ snaps \in Seq([pc : Addrs, acc : Accs, mem : [Addrs -> Vals]])

(***************************************************************************)
(* One resume lets the CPU pass at most one enabled breakpoint unnoticed:  *)
(* the skip address onStep compares with is used up by its first match, so *)
(* a loop over a breakpoint cannot run on without stopping.                *)
(***************************************************************************)
AtMostOneSkip == skips <= 1

(***************************************************************************)
(* Resuming at the breakpoint that stopped the CPU makes progress: onStep  *)
(* lets the next instruction run instead of stopping there again, even     *)
(* when another observer vetoes it or breakpoints are edited in between.   *)
(***************************************************************************)
ResumeProgresses ==
    [][(\E kind \in Kinds, veto \in BOOLEAN : StepStopped(kind, veto)) => ~armed]_vars

(***************************************************************************)
(* Undoing the newest trace entry restores the memory the instruction      *)
(* found, whatever interrupt entries and memory edits were recorded in the *)
(* same entry and however often one address was written, as long as no     *)
(* rewind or snapshot restore came after it.                               *)
(***************************************************************************)
NewestEntryUndoes ==
    intact => Undo([mem |-> mem, log |-> << >>], Last(trace).writes).mem = Last(trace).was

(***************************************************************************)
(* Every reverseStep restores the memory its instruction found, as the     *)
(* comment says: "Reverse one step: undo the last traced instruction       *)
(* (restore registers + memory)".                                          *)
(***************************************************************************)
RewindRestores == [][ReverseStep => mem' = Last(trace).was]_vars
=============================================================================
