---------------------------- MODULE MCFrontEnds ----------------------------
(***************************************************************************)
(* The front ends for TLC: the monitor and GDB servers, the MCP server,    *)
(* the command line and the GUI, one at a time: a behaviour is a behaviour *)
(* of the part chosen at the start.                                        *)
(***************************************************************************)
EXTENDS MonitorServer, GdbServer, McpTools, CliInterpreter, GuiFrame

VARIABLE unit   \* the part this behaviour is about

Units == {"monitor", "gdb", "mcpTools", "mcpMemory", "mcpServer", "cli", "project", "input",
          "dock", "frame"}

vars == <<unit, monVars, gdbVars, mcpVars, mcpMemVars, srvVars, cliVars, guiProjectVars,
          guiInputVars, dockVars, frameVars>>

\* Parts with several initial states start in one of them while they are not
\* what the behaviour is about.
Init ==
    /\ unit \in Units
    /\ MonInit /\ (unit # "monitor" => serial)
    /\ GdbInit /\ (unit # "gdb" => prompt)
    /\ McpToolsInit
    /\ McpMemoryInit /\ (unit # "mcpMemory" => \A a \in McpAddrs : mcpMem[a] = 0)
    /\ McpServerInit /\ CliInit /\ GuiProjectInit /\ GuiInputInit /\ DockInit /\ FrameInit

Others(u) ==
    /\ u # "monitor" => UNCHANGED monVars
    /\ u # "gdb" => UNCHANGED gdbVars
    /\ u # "mcpTools" => UNCHANGED mcpVars
    /\ u # "mcpMemory" => UNCHANGED mcpMemVars
    /\ u # "mcpServer" => UNCHANGED srvVars
    /\ u # "cli" => UNCHANGED cliVars
    /\ u # "project" => UNCHANGED guiProjectVars
    /\ u # "input" => UNCHANGED guiInputVars
    /\ u # "dock" => UNCHANGED dockVars
    /\ u \notin {"frame", "project"} => UNCHANGED frameVars

Next ==
    /\ \/ unit = "monitor" /\ MonNext
       \/ unit = "gdb" /\ (GdbNext \/ Terminated)
       \/ unit = "mcpTools" /\ McpToolsNext
       \/ unit = "mcpMemory" /\ McpMemoryNext
       \/ unit = "mcpServer" /\ McpServerNext
       \/ unit = "cli" /\ CliNext
       \/ unit = "project" /\ GuiProjectNext
       \/ unit = "input" /\ GuiInputNext
       \/ unit = "dock" /\ DockNext
       \/ unit = "frame" /\ FrameNext
    /\ Others(unit) /\ UNCHANGED unit

(***************************************************************************)
(* Each part's own fairness (MonFairSpec, GdbFairSpec, GuiProjectFairness).*)
(* The parts never run together, so weak fairness of one part's action and *)
(* of another's are stated in one formula.                                 *)
(***************************************************************************)
threads == <<unit, monVars, gdbVars, guiProjectVars>>
InMonitor(A) == unit = "monitor" /\ A /\ UNCHANGED <<unit, gdbVars, guiProjectVars>>
InGdb(A) == unit = "gdb" /\ A /\ UNCHANGED <<unit, monVars, guiProjectVars>>
InProject(A) == unit = "project" /\ A /\ UNCHANGED <<unit, monVars, gdbVars>>

Fairness ==
    /\ WF_threads(InMonitor(MonMainStep) \/ InGdb(GdbMainStep) \/ InProject(runMake_end))
    /\ WF_threads(InMonitor(ListenerStep) \/ InGdb(ServerStep) \/ InProject(onBuildLine))
    /\ WF_threads(InGdb(RunPolls) \/ InProject(onBuildDone))
    /\ WF_threads(InGdb(RunEnds /\ gdbStopReq))
    /\ WF_threads(InGdb(ClientFinishes))
    /\ WF_threads(InGdb(ClientReceives))

Spec == Init /\ [][Next]_vars /\ Fairness

(***************************************************************************)
(* stop() of the monitors and of the GDB server returns, and no thread of  *)
(* theirs touches anything afterwards (serial_monitor_server.cpp,          *)
(* gdb_server.cpp); a monitor's only if its client does not stay connected *)
(* without ever reading, which blocks the listener in send().              *)
(***************************************************************************)
ServersStop == []StoppedIsQuiet /\ MonStopReturns /\ GdbStopReturns

(***************************************************************************)
(* The MCP server: a tool that runs the CPU reports stops of that run and  *)
(* leaves the client's breakpoints alone; copies, searches, comparisons    *)
(* and the walk over code are exact at every edge; what is listed is       *)
(* handled, with the assembler asked for.                                  *)
(***************************************************************************)
McpRight ==
    /\ McpStopsAreReal
    /\ McpListIsClients
    /\ McpCopies
    /\ McpSearchSkipsNone
    /\ McpDiffExact
    /\ McpWalkComplete
    /\ SrvListedIsHandled
    /\ SrvAssemblerAsAsked
=============================================================================
