------------------------------ MODULE GuiFrame ------------------------------
(***************************************************************************)
(* The window's handlers (gui/main/main.cpp): one operator per menu        *)
(* command, giving its outcomes as in CliInterpreter.  The machine runs in *)
(* slices of the timer, also while a dialog is open, so a command meets it *)
(* running or not; breakpoints are set and cleared in their pane at any    *)
(* time, and the console pane switches pause-on-BRK, which is on in a new  *)
(* debugger.                                                               *)
(***************************************************************************)
EXTENDS Integers, FiniteSets, Functions, Sequences

CONSTANT MaxFrameMachines   \* bound: machines loaded

ASSUME GuiFrameAssumption == MaxFrameMachines \in Nat \ {0}

VARIABLES frame,      \* MmemuFrame's pointers and m_running, the debugger's pause
          frameStop   \* history: what the status bar said when the machine last stopped

frameVars == <<frame, frameStop>>

FrameInit ==
    /\ frame = [machine |-> 0, cpu |-> 0, dbg |-> 0, panes |-> 0, audio |-> 0, running |-> FALSE, by |-> "none",
                paused |-> FALSE, hit |-> FALSE, bps |-> FALSE, brkTrap |-> FALSE, altered |-> FALSE]
    /\ frameStop = [why |-> "none", by |-> "none", hit |-> FALSE]

FrameDone(f) == [f |-> f, why |-> "none"]
FrameStopped(f, why) == [f |-> f, why |-> why]
FrameWith(f, outcomes) == IF f.cpu = 0 THEN {FrameDone(f)} ELSE outcomes
FramePause(f) == [f EXCEPT !.paused = TRUE, !.hit = TRUE]
FrameAlters(f) == [f EXCEPT !.altered = TRUE]
\* An access may meet a watchpoint, and that pauses the debugger.
FrameAccess(f) == {f} \cup (IF f.bps THEN {FramePause(f)} ELSE {})
FrameRefresh(f) == f

\* A slice, or a number of steps in one go; a breakpoint, a watch or a BRK pauses.
FrameSteps(f) ==
    IF f.paused THEN {FrameStopped(f, "breakpoint")}
    ELSE {FrameDone(f)} \cup (IF f.bps \/ f.brkTrap THEN {FrameStopped(FramePause(f), "breakpoint")} ELSE {})
-----------------------------------------------------------------------------
\* Faulty: the panes keep the debugger they had.
Frame_loadMachineById_keeps(f) ==
    IF f.machine = MaxFrameMachines THEN {FrameDone(f)}
    ELSE LET m == f.machine + 1
         IN  {FrameDone([f EXCEPT !.machine = m, !.cpu = m, !.dbg = m, !.audio = m, !.paused = FALSE, !.bps = FALSE,
                                  !.brkTrap = TRUE])}

\* Every pane is given the new machine; m_running is not touched.  The new debugger
\* pauses on BRK.
Frame_loadMachineById(f) ==
    IF f.machine = MaxFrameMachines THEN {FrameDone(f)}
    ELSE LET m == f.machine + 1
         IN  {FrameDone([f EXCEPT !.machine = m, !.cpu = m, !.dbg = m, !.panes = m, !.audio = audio,
                                  !.paused = FALSE, !.bps = FALSE, !.brkTrap = TRUE, !.altered = FALSE]) : audio \in {0, m}}

OnLoadMachine(f) == {FrameDone(f)} \cup Frame_loadMachineById(f)
OnLoadMachineDirect(f) == Frame_loadMachineById(f)

\* Into, over and out: not while running.
FrameDoStep(f) ==
    IF f.running THEN {FrameDone(f)}
    ELSE FrameWith(f, {FrameDone(o.f) : o \in FrameSteps(FrameAlters([f EXCEPT !.paused = FALSE]))})
FrameRefreshAfterStop(f) == FrameRefresh(f)
updateSourceView(f) == FrameRefresh(f)

\* Faulty: a pause is left as it is.
OnRun_forgets(f) == {FrameDone([f EXCEPT !.running = TRUE, !.by = "run", !.hit = FALSE])}

OnRun(f) == {FrameDone([f EXCEPT !.running = TRUE, !.by = "run", !.hit = FALSE, !.paused = FALSE])}
OnPause(f) == {FrameDone([FrameRefreshAfterStop(f) EXCEPT !.running = FALSE])}
OnReset(f) == FrameWith(f, {FrameDone([f EXCEPT !.running = FALSE, !.paused = FALSE])})
\* A hundred steps with Run/Stop held, whether they meet a breakpoint or not.
OnResetToMonitor(f) ==
    FrameWith(f, {FrameDone(FrameAlters(o.f)) : o \in FrameSteps([f EXCEPT !.running = FALSE, !.paused = FALSE])})
OnSpeed(f) == FrameWith(f, {FrameDone(f), FrameDone(FrameAlters(f))})
OnSpeedUpdateUI(f) == {FrameDone(f)}
-----------------------------------------------------------------------------
\* Writes over the bus.
FrameWrites(f) == FrameWith(f, {FrameDone(f)} \cup {FrameDone(FrameAlters(a)) : a \in FrameAccess(f)})
OnBackStep(f) == FrameWrites(f)
OnFillMem(f) == FrameWrites(f)
OnCopyMem(f) == FrameWrites(f)
OnSwapMem(f) == FrameWrites(f)
OnAssemble(f) == FrameWrites(f)
OnGotoAddr(f) == FrameWith(f, {FrameDone(f), FrameDone(FrameAlters(f))})
OnSearchMem(f) == FrameWith(f, {FrameDone(a) : a \in FrameAccess(f)})
OnFindNext(f) == OnSearchMem(f)
OnFindPrior(f) == OnSearchMem(f)

\* With "Auto Start" the machine runs on without resume().
OnLoadImage(f) ==
    FrameWrites(f) \cup
    FrameWith(f, {FrameDone([FrameAlters(a) EXCEPT !.running = TRUE, !.by = "autostart"]) : a \in FrameAccess(f)})
\* From the command line: a program, or else a cartridge and a reset.
OnLoadImageDirect(f) == FrameWrites(f)
OnTypeTextDirect(f) == FrameWith(f, {FrameDone(FrameAlters(f))})
\* Cartridges and ROMs reset the machine, which runs on if it ran; a pause stays.
FrameFits(f) == FrameWith(f, {FrameDone(f), FrameDone(FrameAlters(f))})
OnAttachCart(f) == FrameFits(f)
OnEjectCart(f) == FrameFits(f)
OnRomSockets(f) == FrameFits(f)
OnLoadSourceMap(f) == {FrameDone(updateSourceView(f))}
OnOpenSource(f) == {FrameDone(f)}
-----------------------------------------------------------------------------
\* The tools step whether m_running is set or not, and stop at a pause.
FrameToolProfile(f) == FrameWith(f, {FrameDone(o.f) : o \in FrameSteps(f)})
FrameToolMeasure(f) == FrameWith(f, {FrameDone(o.f) : o \in FrameSteps(FrameAlters(f))})
FrameToolRunto(f) == FrameWith(f, {FrameDone(o.f) : o \in FrameSteps([f EXCEPT !.paused = FALSE])})
FrameToolDevinfo(f) == {FrameDone(f)}
FrameToolHeatmap(f) == FrameWith(f, {FrameDone(f), FrameDone(FrameAlters(f))})
FrameToolRaster(f) == {FrameDone(f)}

\* The end of onBuildDone, a program to run or none: the project's machine, then
\* project::launch, which takes back what pauses it while it boots.
FrameLaunch(f) ==
    {FrameDone(f)} \cup
    UNION {FrameWith(g, {FrameDone([a EXCEPT !.running = FALSE]) :
                            a \in FrameAccess(g) \cup FrameAccess(FrameAlters([g EXCEPT !.paused = FALSE]))}
                        \cup {FrameDone([FrameAlters(g) EXCEPT !.running = TRUE, !.by = "run", !.hit = FALSE,
                                                              !.paused = FALSE])}) :
           g \in {f} \cup {o.f : o \in Frame_loadMachineById(f)}}

\* A slice of the run, and the refresh of the panes.
OnTimer(f) ==
    IF ~f.running \/ f.machine = 0 THEN {FrameDone(FrameRefresh(f))}
    ELSE {IF o.why = "breakpoint" THEN FrameStopped([o.f EXCEPT !.running = FALSE, !.altered = TRUE], "breakpoint")
          ELSE FrameDone(FrameAlters(o.f)) : o \in FrameSteps(f)}
         \cup (IF f.paused THEN {} ELSE {FrameStopped([FrameAlters(f) EXCEPT !.running = FALSE], "program ended")})

FrameHandlers(f) ==
    OnLoadMachine(f) \cup OnLoadMachineDirect(f) \cup FrameDoStep(f) \cup OnBackStep(f) \cup OnRun(f) \cup OnPause(f)
    \cup OnReset(f) \cup OnResetToMonitor(f) \cup OnSpeed(f) \cup OnSpeedUpdateUI(f) \cup OnFillMem(f) \cup OnCopyMem(f)
    \cup OnSwapMem(f) \cup OnAssemble(f) \cup OnGotoAddr(f) \cup OnSearchMem(f) \cup OnFindNext(f) \cup OnFindPrior(f)
    \cup OnLoadImage(f) \cup OnLoadImageDirect(f) \cup OnTypeTextDirect(f) \cup OnAttachCart(f) \cup OnEjectCart(f)
    \cup OnRomSockets(f) \cup OnLoadSourceMap(f) \cup OnOpenSource(f) \cup FrameToolProfile(f) \cup FrameToolMeasure(f)
    \cup FrameToolRunto(f) \cup FrameToolDevinfo(f) \cup FrameToolHeatmap(f) \cup FrameToolRaster(f) \cup FrameLaunch(f)

FrameReply(o) ==
    /\ frame' = o.f
    /\ frameStop' = IF o.why = "none" THEN frameStop ELSE [why |-> o.why, by |-> o.f.by, hit |-> o.f.hit]

FrameCommand == \E o \in FrameHandlers(frame) : FrameReply(o)
FrameTimer == \E o \in OnTimer(frame) : FrameReply(o)
\* The breakpoint pane, and brktrap in the console pane.
FrameBreakpoints == frame.dbg # 0 /\ frame' = [frame EXCEPT !.bps = ~@] /\ UNCHANGED frameStop
FrameBreakOnBrk == frame.dbg # 0 /\ frame' = [frame EXCEPT !.brkTrap = ~@] /\ UNCHANGED frameStop

FrameNext == FrameCommand \/ FrameTimer \/ FrameBreakpoints \/ FrameBreakOnBrk
FrameSpec == FrameInit /\ [][FrameNext]_frameVars
-----------------------------------------------------------------------------
(***************************************************************************)
(* What the panes show and the audio plays is the machine that is loaded:  *)
(* loadMachineById deletes the old one and its debugger, and gives every   *)
(* pane and the audio output the new ones.                                 *)
(***************************************************************************)
FramePanesAgree ==
    /\ frame.cpu = frame.machine /\ frame.dbg = frame.machine /\ frame.panes = frame.machine
    /\ frame.audio \in {0, frame.machine}

(***************************************************************************)
(* A run that the user started stops at a breakpoint, a watch or a BRK     *)
(* only if one was met since: Run, and Run Project, take back a pause that *)
(* an earlier command left behind, an undone write among them.  Load Image *)
(* with Auto Start does not, and may stop at once with the message of an   *)
(* old breakpoint.                                                         *)
(***************************************************************************)
FrameStopsAreReal == (frameStop.why = "breakpoint" /\ frameStop.by = "run") => frameStop.hit

-----------------------------------------------------------------------------
(***************************************************************************)
(* What the window does with the host's keyboard and game controllers      *)
(* (gui/main/main.cpp): KeyboardCaptureFilter, setKeyCapture, pollHostPads *)
(* and releaseHostPads, and loadMachineById, which gives them another      *)
(* machine.  The host has a Shift key, a key whose shifted form has a key  *)
(* of its own on a PET keyboard ("digit") and one that has not ("letter"). *)
(***************************************************************************)

CONSTANTS MaxGuiMachines,   \* bound: machines loaded
          GuiPadSlots       \* controllers, numbered from 0

ASSUME GuiInputAssumption == MaxGuiMachines \in Nat \ {0} /\ GuiPadSlots \in SUBSET Nat

VARIABLES guiMachine,   \* the machine: which one, its keyboard's kind
          guiKeys,      \* the filter, the host's keys and the keys the machine sees
          guiPads       \* m_padSent, the controllers and the machine's ports

guiInputVars == <<guiMachine, guiKeys, guiPads>>

GuiHostKeys == {"shift", "digit", "letter"}
GuiPorts == {0, 1}
GuiModifiers == {"control", "left_shift", "right_shift"}
GuiNoPads == [p \in {} |-> 0]

GuiInputInit ==
    /\ guiMachine = [id |-> 0, positional |-> FALSE]
    /\ guiKeys = [handler |-> 0, captured |-> FALSE, pending |-> FALSE, host |-> {}, seen |-> {}]
    /\ guiPads = [sent |-> GuiNoPads, held |-> [s \in {} |-> 0], port |-> [p \in GuiPorts |-> 0],
                  swap |-> FALSE, polled |-> FALSE]
-----------------------------------------------------------------------------
(***************************************************************************)
(* Keys                                                                    *)
(***************************************************************************)
GuiSend(seen, name, down) == IF down THEN seen \cup {name} ELSE seen \ {name}

\* Faulty: nothing is let go of.
GuiCapture_holds(k, active) ==
    [k EXCEPT !.captured = active, !.handler = IF active THEN guiMachine.id ELSE 0]

\* setKeyCapture(active); releasing it lets go of the modifiers.
GuiCapture(k, active) ==
    IF active THEN [k EXCEPT !.captured = TRUE, !.handler = guiMachine.id]
    ELSE [k EXCEPT !.captured = FALSE, !.handler = 0, !.seen = @ \ GuiModifiers]

\* A Shift is buffered; its release is always forwarded.
FilterShift(k, down) ==
    IF down THEN [k EXCEPT !.pending = TRUE]
    ELSE [k EXCEPT !.pending = FALSE, !.seen = GuiSend(@, "left_shift", FALSE)]

\* A key with a dedicated shifted form uses the buffered Shift up.
FilterDedicated(k, key, down) ==
    [k EXCEPT !.pending = FALSE, !.seen = GuiSend(@, "dedicated", down)]

\* Any other key forwards it first.
FilterKey(k, key, down) ==
    LET shift == k.pending /\ down
    IN  [k EXCEPT !.pending = IF shift THEN FALSE ELSE @,
                  !.seen = GuiSend(IF shift THEN GuiSend(@, "left_shift", TRUE) ELSE @, key, down)]

\* On a positional keyboard Shift is a key like any other.
FilterPositional(k, key, down) == [k EXCEPT !.seen = GuiSend(@, IF key = "shift" THEN "left_shift" ELSE key, down)]

FilterEvent(k, key, down) ==
    IF k.handler = 0 THEN k
    ELSE IF guiMachine.positional THEN FilterPositional(k, key, down)
    ELSE IF key = "shift" THEN FilterShift(k, down)
    ELSE IF key = "digit" /\ (k.pending \/ "shift" \in k.host) THEN FilterDedicated(k, key, down)
    ELSE FilterKey(k, key, down)

GuiKeyPress ==
    \E key \in GuiHostKeys \ guiKeys.host :
        guiKeys' = FilterEvent([guiKeys EXCEPT !.host = @ \cup {key}], key, TRUE)

GuiKeyRelease ==
    \E key \in guiKeys.host : guiKeys' = FilterEvent([guiKeys EXCEPT !.host = @ \ {key}], key, FALSE)

\* The tool bar button, Ctrl+Shift+K, the screen pane's button.
OnKbdFocus == \E active \in BOOLEAN : guiKeys' = GuiCapture(guiKeys, active)
-----------------------------------------------------------------------------
(***************************************************************************)
(* Controllers                                                             *)
(***************************************************************************)
\* The machine's primary port is its second one; without a machine there is none.
hostPadPort(slot, swap) ==
    LET port == IF slot = 0 THEN 1 ELSE 0
    IN  IF slot > 1 THEN {} ELSE {IF swap THEN 1 - port ELSE port}

\* The ports some connected controller is assigned to, and whether its button is held.
GuiWanted(pads) ==
    LET assigned == {p \in GuiPorts : \E s \in DOMAIN pads.held : p \in hostPadPort(s, pads.swap)}
    IN  [p \in assigned |-> IF \E s \in DOMAIN pads.held : p \in hostPadPort(s, pads.swap) /\ pads.held[s] = 1
                            THEN 1 ELSE 0]

\* Faulty: a port no controller has any more is forgotten.
pollHostPads_forgets(pads) ==
    LET ports == GuiWanted(pads)
    IN  [pads EXCEPT !.polled = TRUE, !.sent = ports,
                     !.port = [p \in GuiPorts |-> IF p \in DOMAIN ports THEN ports[p] ELSE @[p]]]

\* Ports that lost their controller are released, changes are sent.
pollHostPads(pads) ==
    LET ports == GuiWanted(pads)
        lost == {p \in DOMAIN pads.sent \ DOMAIN ports : pads.sent[p] = 1}
    IN  [pads EXCEPT !.polled = TRUE, !.sent = ports,
                     !.port = [p \in GuiPorts |-> IF p \in DOMAIN ports THEN ports[p]
                                                  ELSE IF p \in lost THEN 0 ELSE @[p]]]

releaseHostPads(pads) ==
    [pads EXCEPT !.sent = GuiNoPads,
                 !.port = [p \in GuiPorts |-> IF p \in DOMAIN pads.sent /\ pads.sent[p] = 1 THEN 0 ELSE @[p]]]

\* The timer; without a machine the controllers are only looked at.
GuiPoll == guiPads' = IF guiMachine.id = 0 THEN guiPads ELSE pollHostPads(guiPads)

GuiPadChange ==
    \E s \in GuiPadSlots :
        guiPads' = [guiPads EXCEPT !.polled = FALSE,
                                   !.held = IF s \in DOMAIN @ THEN Restrict(@, DOMAIN @ \ {s})
                                            ELSE [t \in DOMAIN @ \cup {s} |-> IF t = s THEN 0 ELSE @[t]]]

GuiPadButton ==
    \E s \in DOMAIN guiPads.held : guiPads' = [guiPads EXCEPT !.polled = FALSE, !.held[s] = 1 - @]

GuiSwapJoysticks ==
    guiPads' = [(IF guiMachine.id = 0 THEN [guiPads EXCEPT !.sent = GuiNoPads] ELSE releaseHostPads(guiPads))
                   EXCEPT !.swap = ~@, !.polled = FALSE]
-----------------------------------------------------------------------------
\* Faulty: the capture is kept for the next machine.
GuiSwitchInput_keeps(k) == [k EXCEPT !.seen = {}]

\* The new machine sees no key and no joystick; the capture is released.
GuiSwitchInput(k) == [GuiCapture(k, FALSE) EXCEPT !.seen = {}]

loadMachineById ==
    /\ guiMachine.id < MaxGuiMachines
    /\ \E positional \in BOOLEAN : guiMachine' = [id |-> guiMachine.id + 1, positional |-> positional]
    /\ guiKeys' = GuiSwitchInput(guiKeys)
    /\ guiPads' = [guiPads EXCEPT !.sent = GuiNoPads, !.port = [p \in GuiPorts |-> 0], !.polled = FALSE]

GuiInputNext ==
    \/ (GuiKeyPress \/ GuiKeyRelease \/ OnKbdFocus) /\ UNCHANGED <<guiMachine, guiPads>>
    \/ (GuiPoll \/ GuiPadChange \/ GuiPadButton \/ GuiSwapJoysticks) /\ UNCHANGED <<guiMachine, guiKeys>>
    \/ loadMachineById

GuiInputSpec == GuiInputInit /\ [][GuiInputNext]_guiInputVars
-----------------------------------------------------------------------------
(***************************************************************************)
(* Keys go to the machine that is loaded: the handler the filter keeps is  *)
(* never one of a machine that loadMachineById has deleted.                *)
(***************************************************************************)
GuiKeysReachMachine == guiKeys.handler \in {0, guiMachine.id}

(***************************************************************************)
(* Outside a capture the machine's modifiers are up: setKeyCapture(false)  *)
(* lets go of "any modifier keys that may have been left pressed", however *)
(* the capture ended and whichever keys were down.                         *)
(***************************************************************************)
GuiModifiersLetGo == ~guiKeys.captured => guiKeys.seen \cap GuiModifiers = {}

(***************************************************************************)
(* After a poll every port shows the controllers assigned to it and a port *)
(* that lost its controller (removed, or swapped away) is released.        *)
(***************************************************************************)
GuiPadsFollow ==
    guiPads.polled =>
        guiPads.port = [p \in GuiPorts |-> IF p \in DOMAIN GuiWanted(guiPads) THEN GuiWanted(guiPads)[p] ELSE 0]

-----------------------------------------------------------------------------
(***************************************************************************)
(* The window's panes (gui/main/dock_layout.cpp, with switchLayout and     *)
(* applyPaneAvailability of main.cpp): which pane is a tab of which        *)
(* notebook, which come and go with the machine, and the two layouts, one  *)
(* for editing and running and one for being stopped at a breakpoint.      *)
(***************************************************************************)

CONSTANTS DockFixed,     \* panes every machine has
          DockMachine,   \* panes only some machines have
          DockPlugin     \* panes a plugin adds and removes with the machine

ASSUME DockAssumption == DockFixed \cap DockMachine = {} /\ (DockFixed \cup DockMachine) \cap DockPlugin = {}

DockPanes == DockFixed \cup DockMachine \cup DockPlugin
DockBooks == {"bottom", "side"}

VARIABLES dock,       \* the panes' books, what is saved as open, and the layouts
          dockOwed    \* history: what the user should see again

dockVars == <<dock, dockOwed>>

DockNowhere == [p \in DockPanes |-> "none"]
\* The panes open when nothing is saved, and those the Debug layout starts with.
DockDefault == [p \in DockPanes |-> IF p \in DockFixed THEN "bottom" ELSE "none"]
DockDebugFirst == [p \in DockPanes |-> IF p \in DockFixed THEN "bottom" ELSE IF p \in DockMachine THEN "side" ELSE "none"]

DockUsable(d, p) == p \in d.known /\ p \in d.available

DockInit ==
    /\ dock = [where |-> DockDefault, known |-> DockFixed \cup DockMachine, available |-> DockFixed,
               saved |-> DockNowhere, last |-> DockNowhere, debug |-> FALSE,
               editState |-> [set |-> FALSE, where |-> DockNowhere],
               debugState |-> [set |-> FALSE, where |-> DockNowhere]]
    /\ dockOwed = [back |-> {}, edit |-> DockDefault, switched |-> FALSE]
-----------------------------------------------------------------------------
\* Opened where it was last, or where the saved layout has it.
DockOpen(d, p) ==
    IF ~DockUsable(d, p) \/ d.where[p] # "none" THEN d
    ELSE [d EXCEPT !.where[p] = IF d.last[p] # "none" THEN d.last[p]
                                ELSE IF d.saved[p] # "none" THEN d.saved[p]
                                ELSE IF p \in DockMachine THEN "side" ELSE "bottom"]

\* Closed by the user, it is no longer saved as open.
DockClose(d, p) ==
    IF d.where[p] = "none" THEN d
    ELSE [d EXCEPT !.last[p] = d.where[p], !.saved[p] = "none", !.where[p] = "none"]

\* Faulty: closed like any other.
setAvailable_forgets(d, p, yes) ==
    IF p \notin d.known \/ (p \in d.available) = yes THEN d
    ELSE [DockClose(d, p) EXCEPT !.available = IF yes THEN @ \cup {p} ELSE @ \ {p}]

\* A pane that was open stays "saved as open" and returns.
setAvailable(d, p, yes) ==
    IF p \notin d.known \/ (p \in d.available) = yes THEN d
    ELSE IF yes THEN [d EXCEPT !.available = @ \cup {p}, !.where[p] = d.saved[p]]
    ELSE [DockClose(d, p) EXCEPT !.available = @ \ {p},
                                 !.saved[p] = IF d.where[p] # "none" THEN d.where[p] ELSE d.saved[p]]

addPane(d, p) ==
    IF p \in d.known THEN d
    ELSE [d EXCEPT !.known = @ \cup {p}, !.available = @ \cup {p}, !.where[p] = d.saved[p]]

removePane(d, p) ==
    [d EXCEPT !.known = @ \ {p}, !.available = @ \ {p}, !.where[p] = "none"]

\* Faulty: a kept layout is shown as it was kept.
showOnly_all(d, where) == [d EXCEPT !.where = where]

showOnly(d, where) ==
    [d EXCEPT !.where = [p \in DockPanes |-> IF DockUsable(d, p) THEN where[p] ELSE "none"]]

resetToDefaults(d) ==
    [showOnly(d, DockDefault) EXCEPT !.saved = DockNowhere, !.last = DockNowhere]

\* Faulty: a switch to the layout that is shown is carried out too.
switchLayout_again(d, debug) ==
    IF debug THEN [showOnly(d, IF d.debugState.set THEN d.debugState.where ELSE DockDebugFirst)
                     EXCEPT !.editState = [set |-> TRUE, where |-> d.where], !.debug = TRUE]
    ELSE [(IF d.editState.set THEN showOnly(d, d.editState.where) ELSE d)
            EXCEPT !.debugState = [set |-> TRUE, where |-> d.where], !.debug = FALSE]

\* The layout left is kept, the other one is shown.
switchLayout(d, debug) ==
    IF d.debug = debug THEN d
    ELSE IF debug THEN [showOnly(d, IF d.debugState.set THEN d.debugState.where ELSE DockDebugFirst)
                          EXCEPT !.editState = [set |-> TRUE, where |-> d.where], !.debug = TRUE]
    ELSE [(IF d.editState.set THEN showOnly(d, d.editState.where) ELSE d)
            EXCEPT !.debugState = [set |-> TRUE, where |-> d.where], !.debug = FALSE]
-----------------------------------------------------------------------------
DockToggle ==
    \E p \in dock.known \cap dock.available :
        /\ dock' = IF dock.where[p] = "none" THEN DockOpen(dock, p) ELSE DockClose(dock, p)
        /\ dockOwed' = [dockOwed EXCEPT !.switched = FALSE]

DockDrag ==
    \E p \in DockPanes : \E b \in DockBooks \ {dock.where[p]} :
        /\ dock.where[p] # "none"
        /\ dock' = [dock EXCEPT !.where[p] = b]
        /\ dockOwed' = [dockOwed EXCEPT !.switched = FALSE]

DockReset ==
    /\ dock' = resetToDefaults(dock)
    /\ dockOwed' = [dockOwed EXCEPT !.switched = FALSE, !.back = {}]

\* The View menu, a breakpoint (if the user wants it), Run.
DockSwitch ==
    \E debug \in BOOLEAN :
        /\ dock' = switchLayout(dock, debug)
        /\ dockOwed' = [dockOwed EXCEPT !.back = IF dock.debug = debug THEN @ ELSE {},
                                         !.edit = IF debug /\ ~dock.debug THEN dock.where ELSE @,
                                         !.switched = dock.debug /\ ~debug]

(***************************************************************************)
(* loadMachineById: panes the machine has not are made unavailable first,  *)
(* then a plugin removes its pane or adds it.                              *)
(***************************************************************************)
DockLoadMachine ==
    \E p \in DockMachine \cup DockPlugin, has \in BOOLEAN :
        /\ dock' = IF p \in DockMachine THEN setAvailable(dock, p, has)
                   ELSE IF has THEN addPane(dock, p) ELSE removePane(dock, p)
        /\ dockOwed' = [dockOwed EXCEPT !.switched = FALSE,
                          !.back = IF p \in DockMachine /\ ~has /\ dock.where[p] # "none" THEN @ \cup {p}
                                   ELSE IF has /\ dock'.where[p] # "none" THEN @ \ {p} ELSE @]

DockNext == DockToggle \/ DockDrag \/ DockReset \/ DockSwitch \/ DockLoadMachine

DockSpec == DockInit /\ [][DockNext]_dockVars
-----------------------------------------------------------------------------
(***************************************************************************)
(* A pane that was open when a machine without it was loaded is open again *)
(* as soon as one with it is, unless the layout was changed in between:    *)
(* setAvailable keeps it "saved as open so it returns when it becomes      *)
(* available again".                                                       *)
(***************************************************************************)
DockPanesReturn == \A p \in dockOwed.back : p \notin dock.available

(***************************************************************************)
(* Back in the Edit layout the panes are where the user had put them,      *)
(* whichever layouts were asked for twice or changed while stopped; only   *)
(* panes the present machine has not are missing.                          *)
(***************************************************************************)
DockEditReturns ==
    (dockOwed.switched /\ ~dock.debug) =>
        \A p \in DockPanes : DockUsable(dock, p) => dock.where[p] = dockOwed.edit[p]

(***************************************************************************)
(* No tab for a pane the machine has not: it would show the devices of one *)
(* that was deleted.                                                       *)
(***************************************************************************)
DockOnlyUsable == \A p \in DockPanes : dock.where[p] # "none" => DockUsable(dock, p)
-----------------------------------------------------------------------------
(***************************************************************************)
(* Projects in the window (gui/main/main.cpp): make runs on a thread of    *)
(* its own, which hands its output lines and its result to the window      *)
(* thread with CallAfter.  The handlers of the window thread are atomic;   *)
(* between them the queue of posted events is served in order, but after   *)
(* any menu command that came first.  Opening a project and Run Project    *)
(* also act on the window's machine.                                       *)
(***************************************************************************)

CONSTANTS GuiProjects,      \* project directories
          MaxGuiBuilds,     \* bound: builds started
          MaxGuiLines       \* bound: lines a make prints

ASSUME GuiProjectAssumption ==
    "none" \notin GuiProjects /\ MaxGuiBuilds \in Nat \ {0} /\ MaxGuiLines \in Nat

VARIABLES guiProject,   \* m_project, m_building, m_buildCancel, m_problems; the window is open, or lost
          guiThread,    \* m_buildThread and what it works on
          guiEvents     \* events posted to the window, oldest first

guiProjectVars == <<guiProject, guiThread, guiEvents>>

GuiIdle == [on |-> FALSE, lines |-> 0, build |-> 0, run |-> FALSE]

GuiProjectInit ==
    /\ guiProject = [dir |-> "none", building |-> FALSE, builds |-> 0, cancel |-> FALSE, problems |-> {}, open |-> TRUE,
                      lost |-> FALSE]
    /\ guiThread = GuiIdle
    /\ guiEvents = <<>>

\* How make may end: a cancelled one may have ended before it saw the flag.
GuiResults(cancel) == {"ok", "failed", "error"} \cup (IF cancel THEN {"cancelled"} ELSE {})
GuiDone(result) ==
    [kind |-> "done", build |-> guiThread.build, run |-> guiThread.run, result |-> result]

\* runMake: a line is read and posted.
runMake_line ==
    /\ guiThread.on /\ guiThread.lines < MaxGuiLines
    /\ guiThread' = [guiThread EXCEPT !.lines = @ + 1]
    /\ guiEvents' = Append(guiEvents, [kind |-> "line", build |-> guiThread.build, run |-> guiThread.run,
                                       result |-> "none"])
    /\ UNCHANGED guiProject

\* The pipe is closed and make waited for: the result is posted and the thread ends.
runMake_end ==
    /\ guiThread.on
    /\ \E result \in GuiResults(guiProject.cancel) : guiEvents' = Append(guiEvents, GuiDone(result))
    /\ guiThread' = GuiIdle
    /\ UNCHANGED guiProject

\* The window waits: the thread ends now, with its cancel flag set.
stopBuildAndWait ==
    /\ guiThread' = GuiIdle
    /\ IF guiThread.on
       THEN \E result \in GuiResults(TRUE) : guiEvents' = Append(guiEvents, GuiDone(result))
       ELSE UNCHANGED guiEvents
-----------------------------------------------------------------------------
\* A machine the project names is loaded, unless it is there.
openProject ==
    /\ guiProject.open
    /\ stopBuildAndWait
    /\ \E d \in GuiProjects : guiProject' = [guiProject EXCEPT !.cancel = TRUE, !.dir = d]
    /\ \E o \in OnLoadMachine(frame) : FrameReply(o)

GuiCloseProject ==
    /\ guiProject.open /\ guiProject.dir # "none"
    /\ stopBuildAndWait
    /\ guiProject' = [guiProject EXCEPT !.cancel = TRUE, !.dir = "none"]

GuiStopBuild ==
    /\ guiProject.open /\ guiProject.building
    /\ guiProject' = [guiProject EXCEPT !.cancel = TRUE]
    /\ UNCHANGED <<guiThread, guiEvents>>

\* Faulty: does not wait for the result of the build before it.
startBuild_eager ==
    /\ guiProject.open /\ guiProject.dir # "none" /\ ~guiThread.on
    /\ guiProject.builds < MaxGuiBuilds
    /\ \E run \in BOOLEAN : guiThread' = [on |-> TRUE, lines |-> 0, build |-> guiProject.builds + 1, run |-> run]
    /\ guiProject' = [guiProject EXCEPT !.building = TRUE, !.builds = @ + 1, !.cancel = FALSE, !.problems = {}]
    /\ UNCHANGED guiEvents

startBuild ==
    /\ guiProject.open /\ guiProject.dir # "none" /\ ~guiProject.building
    /\ guiProject.builds < MaxGuiBuilds
    /\ \E run \in BOOLEAN : guiThread' = [on |-> TRUE, lines |-> 0, build |-> guiProject.builds + 1, run |-> run]
    /\ guiProject' = [guiProject EXCEPT !.building = TRUE, !.builds = @ + 1, !.cancel = FALSE, !.problems = {}]
    /\ UNCHANGED guiEvents

GuiNextIs(kind) == guiProject.open /\ guiEvents # <<>> /\ Head(guiEvents).kind = kind

onBuildLine ==
    /\ GuiNextIs("line")
    /\ guiEvents' = Tail(guiEvents)
    /\ guiProject' = [guiProject EXCEPT !.problems = @ \cup {Head(guiEvents).build}]
    /\ UNCHANGED guiThread

\* Whether a program is to be launched, for the project that is open now.
GuiLaunches == Head(guiEvents).result = "ok" /\ Head(guiEvents).run
GuiLaunched == IF GuiLaunches /\ guiProject.dir # "none" THEN \E o \in FrameLaunch(frame) : FrameReply(o)
               ELSE UNCHANGED frameVars

\* Faulty: a stopped build returns before the flag is cleared.
onBuildDone_early ==
    /\ GuiNextIs("done")
    /\ guiEvents' = Tail(guiEvents)
    /\ guiProject' = [guiProject EXCEPT !.building = (Head(guiEvents).result = "cancelled")]
    /\ UNCHANGED guiThread
    /\ GuiLaunched

\* m_project is read without being tested: closed since make posted its result, the
\* window is lost.
onBuildDone ==
    /\ GuiNextIs("done")
    /\ guiEvents' = Tail(guiEvents)
    /\ IF GuiLaunches /\ guiProject.dir = "none"
       THEN guiProject' = [guiProject EXCEPT !.building = FALSE, !.open = FALSE, !.lost = TRUE]
       ELSE guiProject' = [guiProject EXCEPT !.building = FALSE]
    /\ UNCHANGED guiThread
    /\ GuiLaunched

\* Posted events die with the window.
GuiCloseWindow ==
    /\ guiProject.open
    /\ guiThread' = GuiIdle
    /\ guiEvents' = <<>>
    /\ guiProject' = [guiProject EXCEPT !.cancel = TRUE, !.open = FALSE, !.building = FALSE]

GuiProjectNext ==
    \/ openProject \/ onBuildDone
    \/ /\ runMake_line \/ runMake_end \/ GuiCloseProject \/ GuiStopBuild \/ startBuild \/ onBuildLine \/ GuiCloseWindow
       /\ UNCHANGED frameVars

\* make ends, and the event loop serves what is posted.
GuiProjectFairness ==
    /\ WF_guiProjectVars(runMake_end)
    /\ WF_guiProjectVars(onBuildLine)
    /\ WF_guiProjectVars(onBuildDone)

GuiProjectSpec == GuiProjectInit /\ [][GuiProjectNext]_guiProjectVars /\ GuiProjectFairness
-----------------------------------------------------------------------------
(***************************************************************************)
(* The Problems pane shows one build's diagnostics: m_building stays set   *)
(* until the result is served, so no line of an earlier build arrives      *)
(* after startBuild has cleared the list, whatever was cancelled, closed   *)
(* or reopened meanwhile.                                                  *)
(***************************************************************************)
GuiProblemsOfOneBuild == guiProject.problems \subseteq {guiProject.builds}

(***************************************************************************)
(* m_building is not left set: after every way a build can end Build and   *)
(* Run Project are offered again, or the window is closed (or lost, to a   *)
(* result for a project that was closed).                                  *)
(***************************************************************************)
GuiBuildEnds == guiProject.building ~> ~guiProject.building
-----------------------------------------------------------------------------
(***************************************************************************)
(* The GUI: problems are those of one build; keys, modifiers and joysticks *)
(* reach the machine in front and are let go; panes hidden with a machine  *)
(* come back with it; every pane shows the machine that runs.              *)
(***************************************************************************)
GuiRight ==
    /\ GuiProblemsOfOneBuild
    /\ GuiKeysReachMachine
    /\ GuiModifiersLetGo
    /\ GuiPadsFollow
    /\ DockPanesReturn
    /\ DockEditReturns
    /\ DockOnlyUsable
    /\ FramePanesAgree
    /\ FrameStopsAreReal
=============================================================================
