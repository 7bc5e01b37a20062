\* Both monitors with one client at a time, one ^C per continue of a debugger,
\* two machines in the command line, the GUI and the MCP server.
SPECIFICATION Spec
CONSTANTS
  MonMaxChunk = 2
  MaxInterrupts = 1
  MaxMcpBps = 2
  MaxMcpChanged = 1
  McpSize = 4
  McpBytes = {0, 1}
  McpMaxInsns = 4
  SrvIds = {"c64_1"}
  SrvBuses = {"b1", "b2"}
  MaxSrvObjs = 2
  MaxCliMachines = 2
  MaxCliBps = 1
  MaxCliChanged = 1
  GuiProjects = {"p1", "p2"}
  MaxGuiBuilds = 3
  MaxGuiLines = 1
  MaxGuiMachines = 2
  GuiPadSlots = {0}
  DockFixed = {}
  DockMachine = {"graphics"}
  DockPlugin = {"tape"}
  MaxFrameMachines = 2
INVARIANTS
  ReplyAnswersRequest McpRight CliRight GuiRight
PROPERTIES
  ServersStop InterruptAnswered GuiBuildEnds
CHECK_DEADLOCK FALSE
