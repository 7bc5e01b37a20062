# mmemu: a TLA+ verification project

mmemu emulates 8-bit computers (Commodore, MEGA65, Atari, Apple II, Commander
X16). Its core is a scheduler that steps a CPU and then ticks the chips on the
bus; around it stands a debugger that command line, GUI, GDB, serial-monitor,
VICE and MCP front ends drive. This directory models the parts whose errors
appear only after a particular order of steps: processors and interrupts, timer and
port chips, the MEGA65's memory map, hypervisor and DMA, disk drives and their buses,
the debugger, and the front ends with their threads. Paths below are relative to the
repository's `src/` directory.

## Inventory

| Part | State | Operations | What is hard about it |
|---|---|---|---|
| Shared IRQ/NMI lines (`libdevices/main/shared_irq_manager.h`) | one bit per device, the CPU's pin | `set`, `pulse` | the pin is written only when the OR changes, and CPU reset and `pulse` write it too |
| CPU interrupt logic (`plugins/6502`, `plugins/45gs02`) | pins, `nmiPrev`, I flag, WAI/STP, halt, MAP inhibit | `step`, `reset` | edges sampled once per instruction; interrupts hidden by five other conditions |
| Instructions (`cpu6502.cpp`, `cpu6502_cmos.cpp`, `cpu45gs02.cpp`, `assembler_6502.cpp`) | registers, memory | every opcode | executor, decoder, disassembler and assembler each know the opcodes and must agree |
| Scheduler and I/O registry (`json_machine_loader.cpp`, `io_registry.cpp`) | list of handlers | `schedulerStep`, `tickAll`, `resetAll` | CPU step, accesses, ticks and reset in one order only |
| VIA 6522, PIA 6520, CIA 6526 (`plugins/devices/*`) | flags, enables, timers, control lines, the cached `m_lastIrq`, time of day | register accesses, line inputs, `tick`, `reset` | handshakes across mode changes, ticks longer than a period, one-shot timers, flags changed without `updateIrq`, a clock read while it runs |
| MEGA65 memory (`map_mmu`, `c64_bank_controller`, `key_register`, `hypervisor_regs`) | MAP, port, personality, saved registers | MAP, traps, knocks, reset | the hypervisor replaces and restores all of it; copies of the lock and of the map |
| HDOS (`hdos_handler.cpp`) | descriptors, host handles, current file | HYPPO's DOS calls | descriptors of files and folders are one table, `readfile` names none |
| F018B DMA (`f018b_dma.cpp`) | registers, job, addresses | trigger, one byte per tick | options, chains and a list address kept twice |
| Serial bus (`iec_drive.cpp`, `virtual_iec.cpp`), IEEE-488 (`ieee488_bus.cpp`) | lines, protocol state, byte under way | line changes, ticks | two parties drive the same lines; ATN may cut any transfer |
| Disk DOS (`cbm_image_dos.cpp`, `cbm_host_dos.cpp`, `cbm_sector_disk.cpp`) | channels, buffers, BAM, directory | open, read, write, close, commands | several channels on one disk, a full disk in the middle |
| Disk II (`disk2.cpp`) | stepper, motor, track buffers, images | soft switches, reads, writes, ejects | delayed effects; the buffer must go back to its own track |
| Circular buffer (`include/util/circular_buffer.h`) | slots, head, size | `push`, `popBack`, `clear`, `operator[]` | wrap-around combined with popping |
| Breakpoint list (`libdebug/main/breakpoint_list.cpp`) | entries, ids, cached counts | add, remove, edit, `check*` | the counts decide whether checks are made at all |
| Debug context (`debug_context.cpp`, `trace_buffer.cpp`) | trace, paused and skip addresses, snapshots | `onStep`, memory observers, `resume`, `reverseStep`, snapshots | the debugger observes its own writes; resume has to leave the breakpoint it stands on |
| Monitor and GDB servers (`cli/main`) | descriptors, flags, thread | `start`, `stop`, loops, packets | two threads, no lock, blocking calls, acknowledgement timeouts |
| MCP server (`mcp/main/main.cpp`) | machines, what is kept beside them | tool calls | tools that run the CPU, add breakpoints of their own, walk memory to its ends |
| Command line (`cli_interpreter.cpp`) | context of pointers, `g_interrupted` | commands | five pointers that must name one machine, a flag set by a signal |
| GUI (`gui/main/main.cpp`, `dock_layout.cpp`) | panes, layout, input, build thread | menu commands, events | events posted by another thread; everything points to the machine that is replaced |
| VERA (`plugins/devices/vera`) | ports, VRAM, FX unit, raster, FIFO, SD card | register accesses, `tick`, line by line | prefetched bytes go stale, flags and output, queues at their limit, commands cut short |
| Commodore 128 (`plugins/machines/c128`) | MMU, processor clocks, keyboard, flash, EEPROM | reads, writes, `tick`, typing | two maps of one memory for reads and writes, command sequences, keys typed and held |
| Commander X16 (`plugins/machines/x16`) | bank latches, SMC queues, I2C bus, clock, pads | stores, port lines, `step` | a bus of two wires with state left by cut transactions, a mouse packet read through three registers, a calendar |
| Apple II, Plus/4, Atari (`plugins/machines/apple2`, `plus4`, `atari`) | switches, banks, cartridge, keyboard | accesses, resets, typing | what is kept twice (bus and video, bus and PIA, bus and TED), banks selected by address, keys typed and held |
| Other video and sound chips, other machines, loaders, tool chain, Lua | | | data, I/O or arbitrary code; not modelled |

Components meet in these places. Chips call `set()` on their line, whose manager
calls `setIrqLine`/`setNmiLine` on the CPU. `schedulerStep` calls `cpu->step()`
(during which the program may access a chip) and then `tickAll`. The CPU and the
bus call the `DebugContext` as an observer, which can refuse an instruction. A trap
lets HYPPO, or `HdosHandler` in its place, work on the CPU's state. The servers call the CPU,
the bus and the debug context from their own threads.

## Modules

| Module | Models |
|---|---|
| IrqSources | the wired-OR managers (`Drive` compares the old and the new OR) and any set of interrupt outputs. `EagerChips` call `set()` on every update, the others only on a change; `SilentReset` are the outputs whose `reset()` does not release the line (PIA) |
| Interrupts6502, Interrupts45GS02 | extend it: a scheduler step is one CPU action, a path through `step()`, then one tick action. `nmiEdge` is a history variable |
| Mos6502, Cpu45GS02 | each opcode with operands and registers, and what decoder, disassembler and assembler say of it |
| VIA6522, PIA6520, CIA6526 | one action per register access, line input, `tick` and `reset`. Timer bytes have `ByteMod` values instead of 256. `*Held`, `*Fired` and `age` are history variables |
| Mega65Memory, HdosHandler, F018bDma | address translation, traps and personality; the HDOS calls; DMA lists byte by byte. `m65User` and `hdosOpened` are history variables, what the program expects |
| CbmDos, Ieee488Bus, IecDrive | a drive's DOS as the bus sees it, and both buses line by line, with the computer's ROM at the other end (external) |
| CbmImageDos, CbmHostDos | the two DOS implementations; a transaction on the bus is one action |
| Disk2, Disk2Code | the card with its drives, cycle counts reduced to the thresholds the code compares them with; `wanted` is what the program recorded. The nibble code |
| BoundedHistory, CircularBuffer | what a trace needs, and the ring that provides it; `ImplementsHistory` is the refinement, with the live slots by age (`Contents`) as the mapping |
| BreakpointList, DebugContext | the debugger over a machine of a pc, an accumulator and a memory with ROM. `StepStopped` and `StepRuns` are the two outcomes of `onStep` with everything the step triggers. `skips`, `armed`, `intact` and `was` are history |
| MonitorServer, GdbServer | the servers' threads; every access to unlocked state is a step. A packet is two tokens, so that a client can stop in its middle. `prompt` says whether the debugger acknowledges within `sendPacket`'s second |
| Vera | the X16's video and sound chip by its parts: data ports with the FX unit, raster interrupts and PCM sound, the sprites and tiles of a line, the SD card behind its SPI port. `vpast`, `vtold` and `vasked` are history: what was changed behind a port, queued and asked for |
| C128 | MMU and memory map, the two processors' turns, keyboard, flash cartridge with EEPROM, function ROM images |
| X16 | the X16 outside VERA: bank latches; keyboard, SMC and mouse; the I2C bus bit by bit with the KERNAL (external) as master; the clock; the pads. `xseen`, `iseen`, `rtrue`, `padseen` are history |
| HomeComputers | maps as the cell that an access to an address reaches, and keyboards. `acard`, `atext`, `itext` are history |
| McpTools, CliInterpreter | one operator per tool or command, giving the set of its outcomes |
| GuiFrame | the window's handlers, input and docking; builds and their thread |
| MC* | the parts one run checks together: a behaviour is a behaviour of the part that `unit` names |
| *_proofs | the theorems, kept apart so that TLC never loads the proof library |

PROJECT.json maps every definition to the lines it models. An operator whose comment
begins with "Faulty:" is a plausible mistake in the operator below it; PROJECT.json's
mutants substitute it to show that a property notices.

## Runs that pass

| Run | Bounds | Shows |
|---|---|---|
| `machines` | 2 IRQ sources, 1 NMI source; VERA: 3 port accesses after the FX set-up, FIFO of 3 samples, lines of 5 pixels with 2 sprites, a card of 2 blocks; X16: bytes of 3 bits, queues of 3 and 6 slots, 5 clocks around midnight at month ends, pads of one button and two identification bits; addresses at the borders of each map, 3 or 2 accesses that move a switch | `PinsAreWiredOr`, `NmiOncePerEdge`, and under fairness `IrqServed`; `MachinesRight`: what VERA's ports prefetched is what memory holds, registers in VRAM are shadowed, the IRQ output follows its flags, the sound queues keep order, a line shows the pixel and the collision that the sprites and tiles describe, the SD card answers each command with its own block; a program finds the banks it selected, typed text arrives, mouse packets stay whole, what goes over I2C arrives, the clock keeps time, pad bits are the latched ones; two addresses share no memory, copies of switches agree, no bank lies outside its cartridge |
| `mega65` | 2 IRQ sources, 1 NMI source, RESTORE; 2 MAP requests; 2 HDOS descriptors; 4 DMA lists | the same for the 45GS02 (the OR for IRQ only, since RESTORE pulses NMI); `M65TrapTransparent`, `M65MapSound`; `HdosFilesRight`; `DmaListRun`: a list does what its jobs describe and is shown where it is |
| `chips` | one unit of a chip at a time, 2-valued timer bytes, ticks 0-3, registers of the clock at their ends | IRQ outputs, handshakes, one-shot timers, `TimerKeepsTime`, `TodRight`: a reading of the clock is not torn and it keeps time |
| `debug` | 2 addresses, 2 breakpoints of 3 types, trace of 1; ring of 3 slots | `ListConsistent`, `AtMostOneSkip`, `ResumeProgresses`; refinement of BoundedHistory, `IndexedByAge` |
| `core` | operands at page and sign boundaries, BCD digits; RAM and ROM byte, 2 values, 2 writes per trace entry | `MosRight`, `G45Right`: executor, decoder, disassembler and assembler agree, calls return, decimal and 32-bit arithmetic are right; `NewestEntryUndoes` |
| `front_ends` | one client at a time, 2 commands in one read of a monitor server (`MonMaxChunk`), one ^C per continue, 2 machines with 2 CPUs, memory of 4 bytes, 3 builds | `ServersStop`, `ReplyAnswersRequest`, `InterruptAnswered`, `McpRight`, `CliRight`, `GuiRight`, `GuiBuildEnds` |
| `drives` | files of 2 bytes, 2 channels, a disk of 3 tracks; C128: 7 pages, MMU registers at their ends, 12 clock ticks, 2 keys, 8 flash bytes | `IeeeRight`: bytes arrive in order, none twice; `FilesRight`: the disk stays sound and reads back what was written, listings are whole; `C128Right`: what a page reads as RAM is what a write to it changes and two banks meet only in shared RAM, neither processor loses a cycle, no typed key stays down, flash and EEPROM change only by a complete command while unlocked, a cartridge image has one size |
| `devices` | bytes of 3 bits, files of 2 bytes; a disk of 2 tracks with 2 nibbles, one write; a track of 2 sectors of 40 bytes (256 in the code, in the same arrangement) | `BytesComeBack`, `IecTransferEnds`; `Disk2Right` |

Why the bounds are enough to be interesting: two sources on a line and one on the
other are the least that make a wired OR differ from a wire; chips and managers
treat all sources alike. With two-valued bytes a timer has periods 1 to 3, and
ticks exceed the period. The units of a VIA meet only in IFR and IER and the two
sides of a PIA share nothing, hence one unit at a time; a step that leaves the
bound is still checked, and the theorems cover every combination. The CIA's sources
meet in ICR and the cascade; a third event source would only repeat what the second
does. Three slots let the ring wrap with zero, one and two items popped. One address to
stop at and one to run to suffice for resume and skip, and since no address of
that run is ROM they are interchangeable (`AddrSymmetry`; the properties are
safety properties). Two writes per entry let an interrupt or edit write an address a
second time. Trace entries longer than `MaxLog`, call depths above `MaxDepth` and
snapshots above `MaxSnaps` are cut off by guards; `MaxHits` is where hit counts
saturate, and no property reads them. A disk of three tracks, the directory on the
second, has allocation on both sides of it and is full after a few blocks. Bytes of
three bits have a first, a middle and a last one. In `devices` one Disk II drive has a
disk that may be changed (`D2Loaded`, `D2Changed`), the other one is empty; the theorem
covers both. In
`machines` the SD card is sent commands 0, 12, 13, 17, 18 and 24; 55 and 41, with which a
host starts a card, multiply its states and are left to the model. Accesses to `$D5xx`
select banks of each kind of Atari cartridge. The operands of `core` include branches to
the borders of a page; where 16-bit branches lead is `branch_targets`' question.
In `front_ends` a late debugger, which acknowledges after more than a
second, is checked only to let the server stop: its "+" can be taken for the answer to
another reply, which the protocol gives it no way to avoid.

Deadlock is not checked where a part really may stop: a program that asks for nothing
more (`drives`, `devices`), an emulator that has exited (`front_ends`), a halted CPU's
machine or a finished DMA list (`mega65`).

## Where the code and its documentation disagree

Four runs check what a comment or a test says against what the code does
(PROJECT.json quotes the lines):

| Run | Property | In short |
|---|---|---|
| `pet_reset` | `PinsAreWiredOr` | PIA reset leaves its shared line asserted; later IRQs are hidden |
| `rewind_twice` | `RewindRestores` | the second reverse step undoes the first one's undo |
| `dma_backward` | `DmaBackwardDone` | the second byte of a DMA job that counts down lands 16 MB away |
| `branch_targets` | `G45TargetsTold` | decoder and disassembler show 16-bit branch targets one too high |

The models contain the behaviour behind further disagreements. TLC finds each
formula in the last column violated; they are recorded here instead of being kept
as runs.

| Source | The text says | The code does | Formula |
|---|---|---|---|
| `plugins/6502/main/cpu6502.cpp:936` | `doc/README-C64.md:76`: NMI is "wired-OR, edge-triggered" | samples the pin once per step: acknowledged and raised again within one scheduler step, the new edge is missed | Interrupts6502: `nmiEdge /\ nmi.pin => ~cpu.nmiPrev` |
| `plugins/45gs02/main/cpu45gs02.cpp:355` | line 342: "Deferred if MAP interrupt inhibit flag is set" | updates `nmiPrev` while inhibited, so the edge is dropped | Interrupts45GS02: `cpu.inhibit /\ nmiEdge /\ nmi.pin => ~cpu.nmiPrev` |
| `KbdMega65`, RESTORE through `pulse()` | `README.md:234`: RESTORE is "an NMI on its own" | nothing lowers the pin again, so a second press makes no edge | Interrupts45GS02: `PressRestore => NmiSeen'` after an NMI was taken |
| `plugins/devices/via6522/main/via6522.cpp:276` | line 274: "this tick path becomes a no-op" | `reset()` sets `m_ca1Prev` with CA1 low, and the next tick raises the flag | VIA6522: a C1 flag is raised only by a step that changes `c1` |
| `plugins/devices/cia6526/main/cia6526.cpp:342` | `cia6526.h:21`: "Timer B may optionally count Timer A underflows" | counts every tick while timer A's bit is pending, also with timer A stopped | CIA6526: in cascade mode TB expires only while `running["TA"]` |
| `cia6526.cpp:242` | `cia6526.h:24`: "fires IRQ via ISignalLine when any enabled bit is set" | an SDR write sets the bit without `updateIrq` (a comment there says on purpose) | CIA6526: `ciaLine = (pending \cap mask # {})` |
| `plugins/devices/pia6520/main/pia6520.cpp:143` | `doc/README-6520.md:81`: reading ORA clears IRQ2 "unless independent mode" | keeps an old CA2 flag whenever CA2 is an output | PIA6520: `ReadPort(s) /\ ~cr[s].b4 => ~flag2'[s]` |
| `include/util/circular_buffer.h:55` | line 82: "most recently pushed item (index size()-1)" | counts from slot 0 after a wrap and a `popBack` | CircularBuffer: `IndexedByAge` without its condition |
| `libdebug/main/debug_context.cpp:85` | line 84: "(one step)" | the skip address stays until its address is reached | DebugContext: `skips` grows only in the first step after `Resume` |
| `libdebug/main/breakpoint_list.cpp:164` | `breakpoint_list.h:11`: "Watch for value changes at address" | `checkValueChange` has no caller | DebugContext: a changed byte under a value watch sets `paused'` |
| `breakpoint_list.cpp:128` | `breakpoint_list.h:20`: "Stop when hitCount reaches this" | stops at the first hit | DebugContext: a hit that stops has `hits >= limit` |
| `cli/main/serial_monitor_server.cpp:82` | line 80: "Close socket BEFORE signaling stop to avoid race condition" | the listener may pass the closed number to `poll` or `accept` | MonitorServer: no `PollCall` or `Accept` with `fdVar /\ ~sock` |
| `cli/main/gdb_server.cpp:88` | `gdb_server.h:29`: "Stop the server and close all connections." | a client that stops inside a packet holds the thread in `read()`, and `stop()` in join | GdbServer: `GdbStopReturns` without `ClientFairness` |

Further behaviour the models contain, or leave out on purpose, that a reader of the
code should know:

- MEGA65 without HYPPO: the map base (`megabyteLow`/`High` = 512 pages,
  `machine_mega65.cpp:1012`) is not a whole megabyte, and a reset inside the hypervisor
  keeps mode and map. The theorems about map and traps therefore assume HYPPO.
  MCP's `set_map` offsets do not survive a trap. The C65 personality stays locked.
- GDB: two ^C during one continue, crossing a breakpoint's stop reply, give two
  replies to one request. GDB asks the user before it sends a second one.
- DMA: `$D706` forgets options set before; option `$0B` only clears `useF018A`;
  overlapping copies are not handled (`doc/README-MEGA65.md:55` says they are).
- Host DOS: opening an open channel leaks its file, two "$" channels share one
  listing, "S:*" scratches the first match only. Image DOS: the last of two
  appenders to one file wins.
- Virtual IEC: a name not on the disk serves the bytes loaded before; past the end it
  sends 0 with EOI; DATA stays asserted after UNLISTEN and UNTALK.
- Disk II: a stepper change pending when the drive is switched moves the head of the
  drive selected then (`disk2.cpp:304`).
- 6502: `$FFFF` marks the accumulator in shifts, so a shift of memory at `$FFFF` is one
  of A. CIA: an alarm set to the current time does not fire.
- VERA: the sprite budget is a `uint16_t` that wraps, so later sprites of a line may be
  drawn after it is used up. `m_multiRead`, `m_acmd` and `m_lastCmd` survive the SD card's
  `attach()`: an image exchanged in the middle of CMD18 or CMD24 streams or writes a stale
  block. A second block written after CMD24 without CMD12 goes to the next address.
- C128: text typing releases a key the user holds as well, when it types that key
  (`C128Keyboard`'s comment says otherwise). Peeking the GMod2 register clocks the EEPROM.
  EEPROM: WEN takes effect at its fifth bit, ERASE is not followed by busy/ready, a select
  with the clock high keeps the input shift register.
- X16: `loadState` takes the ROM bank from address 1, so a snapshot made in an interrupt
  handler restores another bank. A reset that the SMC is asked for runs inside
  `I2cBus::step`, and the first transaction after it is misread (`iseen.lost`). A repeated
  START is not recognised; the KERNAL sends STOP first. Changing the mouse's type inside a
  packet keeps the byte count (`xseen.cut`). Movement is lost while the mouse queue is full.
  RTC register 5 is read with the leap year's bit, which a write does not mask off; a month
  0 or above 12 indexes outside the table of days. Pads read 0 after a reset until the next
  latch. The model leaves registers 3 and 5 of the clock out.
- Apple II: `clearKeys` keeps `m_down`. Plus/4: typing ends by releasing every key, those
  people hold as well. Atari: after a reset the PIA's ORB is `$FF` and the banking port's
  copy 0, so that DDRB written before ORB maps the OS out; a typed key repeated waits 2 more
  frames, a comment says 4; the release of a typed SHIFT releases a held one; a snapshot
  loaded with another cartridge may select a bank beyond its image.
- HDOS: `readfile` never sets Y (`hdos_handler.cpp:369`).
- NMI: `NmiOncePerEdge` finds an NMI taken twice or without an edge, not the lost one of
  the table above. `IrqNotLost` leaves out the CIA's serial flag, which is in the table too.
- DebugContext: under a writable overlay a write changes the RAM beneath, while the
  overlay's byte goes on being shown and is logged as the old value, so undoing the write
  leaves that byte in the RAM. Undoing a write that a device took sends the device what
  was peeked before. The model's memory is what is shown; device addresses are not in it.
- A new debugger pauses on BRK (`debug_context.h:120`). `brktrap` turns this off on the
  command line and in the GUI's console; no MCP tool does, and a BRK there is reported as
  "Breakpoint hit" with an empty list. Undo writes of a reverse step may meet a write
  watch and pause.
- CLI: `^C` during `until`, `next`, `finish` or `step` stays set, and stops the next of
  these commands; it stops no second one. `cpu <n>` leaves the debugger of the machine's
  first CPU (`cli_interpreter.cpp:1722`), so that expressions, `back` and registers are
  those of CPU 0. The assembler is the machine's.
- MCP: `destroy_machine` keeps the snapshots of its id. `profile_cpu`, `measure_region`
  and `record_audio` do not resume, so an old pause shortens them; they report no stop.
  `test_sequence` keeps the machine it found at the start: if one of its steps destroys
  it, the rest uses a deleted machine (`SrvSequenceEnd` allows any outcome).
- GUI: `onBuildDone` uses `m_project` (`main.cpp:1627`), which closing the project resets:
  a successful result still posted then ends the window (`guiProject.lost`), and one for a
  project opened since launches that one's program. Of the console pane's commands only
  `brktrap` is modelled. `DockPanesReturn` is about panes hidden by `setAvailable`.
- Disk II: `mountDisk` reads the new file before the old disk's buffer is written
  (`disk2.cpp:494`), so a file mounted again in the same drive shows its last track as it
  was before. `Disk2Right` goes by what the new file held when it was read.
- Serial drive: `ejectDisk` keeps the byte it had read from the old disk for the channel.
- Image DOS: write protection (26) and a failed write of the host file (25) are modelled;
  after 25 the image in memory has the change, what the host file then holds is left out.
- mmemu installs no SIGPIPE handler, so a monitor client that hangs up during `send()`
  may end the process; that is left out.

## Fairness

- Interrupts: weak fairness of the CPU half and of the tick half of the scheduler
  step, since the run loop calls `schedulerStep` again and again. Reset, RESTORE
  and program choices are not fair.
- MonitorServer: weak fairness of each thread; every `poll` has a timeout, so the
  listener always has a next step, except in `send()`, which waits while the
  connection's buffers are full. Of the client nothing is assumed. One that stays
  connected and never reads holds the listener in `send()` and `stop()` in join:
  `MonStopReturns` leaves that case out, and TLC finds it without the exception. The
  VICE exit command is not fair.
- GdbServer: weak fairness of both threads, of the look at the socket while a
  program runs, and of the end of `handleContinue` once stopping. The end of a
  run by a breakpoint is not fair: a program may loop. `ClientFairness` adds that a
  debugger finishes packets and reads replies; without that `stop()` may hang, see
  the table above.
- GuiFrame: the window's event loop and the end of make are fair; a make that ignores
  the signal would hold the window.
- IecDrive: time passes and the KERNAL takes the step it is ready for.
- The parts of a run never act together, so their fairness is one conjunction over
  actions that name their part.

## What is proved

All theorems hold for every value of the constants that satisfies the modules' ASSUMEs
and the assumption named here.

- **IrqSources_proofs, Machines_proofs, Mega65_proofs (interrupts).**
  `WiredOrHolds` and `GsIrqPinCorrect`, under `SilentReset = {}`, without which
  `pet_reset` refutes them: neither `PinsAreWiredOr` nor `LinesMatchChips` is inductive.
  A chip that calls `set()` only on a change needs `lastIrq` to equal its line, and
  `Drive` needs the pin to equal the OR before. The invariant is the types with both,
  `SourcesInv`, preserved by `SetLine`, `RaiseLines`, `UpdateIrq`, `TickAll` and
  `ResetSources`. `NmiNotSpurious` and `GsNmiNotSpurious` need no assumption: each path
  of `step` that keeps `nmiPrev` low saw a low pin.
- **Mega65_proofs (memory).** `M65LockCorrect` is inductive over typed states.
  `M65TrapCorrect` and `M65MapCorrect` assume HYPPO and follow a trap from the save to
  the return: `M65HyppoInv` says that while HYPPO runs the virtualisation registers hold
  what the program is to find again, that its own blocks stay mapped, and that every map
  can be rebuilt from these registers (`M65MapOk`). `HdosFilesCorrect`: handles are given out once, each open one belongs to
  exactly one descriptor, and the current file is the one opened last or none.
- **Chips_proofs.** IRQ outputs and handshakes of VIA, CIA and PIA are inductive one
  action at a time. `ViaOneShotCorrect`, `CiaOneShotCorrect`: a fired timer is not active
  until it is loaded. `CiaTimersCorrect`: `Count` is a recursive function over the cycles
  of a tick; its closed form is proved by a least-counterexample argument, and the
  counter's distance to the latch is the age modulo the period.
- **DebugContext_proofs (ring).** `RingTypeCorrect`, `RingIndexedByAge`, and the refinement
  `RingImplementsHistory`: lemmas in modular arithmetic locate the i-th oldest slot
  before and after each operation; push, pop and clear then map to the abstract actions.
- **DebugContext_proofs.** `BreakpointListCorrect`: the counters are cardinalities of
  index sets, so adding and removing an entry is a bijection argument; ids grow along the
  list (`Shape`). `UndoCorrect`: writing the old values back, newest first, restores the
  memory before the instruction. Writes and undo are recursive functions over the log;
  an induction over data is not available, so the lemmas take the least length at which
  they would fail (`LeastNatural`) and show that there is none; the invariant `DbgInv`
  carries the fact through interrupts and edits that append to the newest entry.
  `SkipsOnce`, `ResumeMakesProgress`: the skip address equals the pc only if the pc can
  never be the marker ~0u, so the invariant follows the pc into trace and snapshots, from
  which a reverse step or a restore brings it back. `DebugTypeCorrect` is the type
  invariant, the bound on the trace included.
- **Drives_proofs.** `Disk2Correct`: `D2Inv` says of each drive (`Holds`) that its image
  with the buffer written over its track is what was recorded, and that a dirty buffer
  belongs to the track under the head and to a drive whose motor runs or spins on.
  `IeeeCorrect`: a change of the computer's lines runs the drive until it settles, so each
  kind of change gets a lemma that the second round changes nothing (`AtnFalls`, `ByteTaken`,
  `ByteGone` ...). The invariant follows a transfer: where the computer is says what its lines
  are (`CtlShape`), what the drive answers (`Answers`), which bytes under ATN it has still to
  hear and so who is addressed (`Plan`, `Addressed`), how much of what is written has come
  in (`Arrives`), where a byte being read is (`Talks`), and that a file's position is what
  the program got of it, and one more while the drive keeps a byte (`Bytes`). It needs no
  exception for disks changed in the middle: only what the drive answers then does.
- **FrontEnds_proofs.** `RepliesInStep`, for a debugger that reads its replies in time and
  sends at most one ^C for a continue (`MaxInterrupts` in 0..1; with two it is false, see
  above). `ReplyAnswersRequest` says nothing of the bytes on their way to the server, which
  decide what it answers next. The invariant (`Phase`) states, for each place the thread
  can be in, what is left of the request in `c2s`, whether a ^C may have crossed the
  reply, and what is in `s2c`.
  `CliCorrect`: a command is a function from the context to a set of outcomes, so each gets
  a lemma that its outcomes are sound (`CliFine`): the context agrees (`CliSound`), the stop
  is one of the command's own run, and an interrupt that it reports is used up. `GuiCorrect` joins four invariants of the window's parts:
  `GuiProjectInv` follows a build's number through the thread and the posted events, so
  that nothing of an older build is still on its way when the list is cleared;
  `GuiInputInv` ties the port's bits to what was last sent and the capture to the handler
  it began with; `DockInv` says that while the Debug layout is shown the Edit layout is
  kept and that a pane owed to a machine is saved as open; `FrameInv` says that every pane and the audio
  output belong to the machine that is loaded, and that a run started by the user stops
  only at what it met. `GuiCorrect` is about a behaviour of all four parts at once: a
  step of one that acts on another's variables (a build launching a program) is a step
  of both.
- **Chips_proofs (clock).** `TodCorrect` assumes that a program writes BCD times of day.
  A bijection between legal times and tenths of a day (`TodTenths`) turns the cascade of
  carries into an addition modulo 864000; `TodAfter`, recursive over the tenths in a tick,
  is then followed by a least counterexample.

- **Machines_proofs (C128).** `C128Correct` joins six theorems, one for each part of
  `C128Spec`; the parts share no state. `C128MapCorrect`: the page a pointer moved and the page it moved it to
  change places (`SwappedPage`), so what a write reaches is found again and two pages
  meet only where the banks share. `C128RunInv`: the ticks passed on, doubled, and the
  odd cycle kept are the cycles spent. `C128KeysInv`: a key is down only for the user or for text,
  whose queue ends in a release of all. `C128FlashInv` places the flash's state on the path of a command
  (`FlashPath`), so that what ends it saw every store before. `EepInv` describes the
  EEPROM by the bits of the command so far: none, n sent, m of the answer read, or through. `C128CartInv`: an image mirrored
  to its chip's size is the file again at each multiple of its length (`MirroredTo`).

One proof attempt found an error in a model, now corrected: the PIA's IRQ property
excepted the wrong states of a line that was asserted when `reset()` ran (`orphan`).

Only model-checked, and why: liveness (`IrqServed`, `GsIrqServed`, `InterruptAnswered`,
`ServersStop`, `GuiBuildEnds`, `IecTransferEnds`) needs fairness. `MosRight`, `G45Right`,
and the nibble code of `BytesComeBack` use `Bitwise` or RECURSIVE operators. `MachinesRight`,
`McpRight`, `DmaListRun`, `FilesRight` and the serial bus of `BytesComeBack` are over large records
and state machines whose inductive invariants have not been worked out.

## Not modelled

Picture and sound generation, cycle counts, file formats, parsing and formatting, Lua
scripts: data rather than control, and covered by unit tests. The data race between server threads and the command
line on CPU and memory: there is no synchronisation whose correctness could be
stated. Snapshot functions of the PIA have no caller outside tests. `start()` of
the GDB server is called once by the program and is the initial state. MFM disks and
burst commands of the image DOS, audio DMA, the datasette, SD card and floppy controller,
the Z80, and construction of the machines other than the wiring of their interrupts.

## Plan

Done: interrupts, chips, processors, debugger, MEGA65, drives, front ends, each with its
runs and the proofs above. Left:

1. Proofs: soundness of the disk image, the serial bus, the DMA lists, the machines' parts of `MachinesRight`.
2. GdbServer composed with DebugContext: step at a breakpoint, breakpoints set while
   running; source stepping over the call stack.
3. Flat and sparse memory bus against one abstract memory; plugin loading order; the audio
   callback thread.
