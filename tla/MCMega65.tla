------------------------------ MODULE MCMega65 ------------------------------
(***************************************************************************)
(* The MEGA65 for TLC, one part at a time: a behaviour is a behaviour of   *)
(* the part chosen at the start.                                           *)
(***************************************************************************)
EXTENDS Interrupts45GS02, Mega65Memory, HdosHandler, F018bDma

VARIABLE unit   \* the part this behaviour is about

allVars == <<unit, gsVars, m65Vars, hdosVars, dmaVars>>

MCInit ==
    /\ unit \in {"interrupts", "memory", "hdos", "dma"}
    /\ GsInit /\ M65Init /\ HdosInit /\ DmaInit

MCNext ==
    /\ \/ unit = "interrupts" /\ GsNext
       \/ unit = "memory" /\ M65Next
       \/ unit = "hdos" /\ HdosNext
       \/ unit = "dma" /\ DmaNext
    /\ unit # "interrupts" => UNCHANGED gsVars
    /\ unit # "memory" => UNCHANGED m65Vars
    /\ unit # "hdos" => UNCHANGED hdosVars
    /\ unit # "dma" => UNCHANGED dmaVars
    /\ UNCHANGED unit

\* The scheduler loop runs for ever.
MCSpec ==
    /\ MCInit /\ [][MCNext]_allVars
    /\ WF_gsVars(unit = "interrupts" /\ CpuStep)
    /\ WF_gsVars(unit = "interrupts" /\ GsTick)
-----------------------------------------------------------------------------
\* A mapping that moves both halves of the address space, and one with carries.
MCMapArgs == {<<255, 255, 32, 143>>, <<255, 15, 1, 15>>}

(***************************************************************************)
(* DMA lists: a chain with megabyte and skip options and a transparent     *)
(* colour, a fill with fractional steps, a line, revision A with a count   *)
(* of 0, and the operations only the experimental mode has.                *)
(***************************************************************************)
J == DmaBlank
MCDmaLists == {
  [at |-> 8192, enhanced |-> TRUE, rev |-> "b", jobs |-> <<
     [J EXCEPT !.opts = << <<129, 1>>, <<134, 3>>, <<7, 0>> >>, !.chain = TRUE,
               !.count = 3, !.src = 256, !.dst = 512],
     [J EXCEPT !.opts = << <<132, 128>>, <<133, 1>> >>, !.op = "fill",
               !.count = 3, !.src = 7, !.dst = 1024] >>],
  [at |-> 3 * 2^23 + 4096, enhanced |-> TRUE, rev |-> "b", jobs |-> <<
     [J EXCEPT !.opts = << <<139, 0>>, <<140, 128>>, <<135, 4>>, <<143, 128>> >>,
               !.count = 10, !.src = 256, !.sub = 2, !.dst = 2048] >>],
  [at |-> 1234, enhanced |-> FALSE, rev |-> "a", jobs |-> <<
     [J EXCEPT !.chain = TRUE, !.count = 2, !.src = 256, !.srcBank = 1, !.dst = 768],
     [J EXCEPT !.count = 0, !.src = 256, !.dst = 53248, !.dstIo = TRUE] >>],
  [at |-> 16384, enhanced |-> FALSE, rev |-> "b", jobs |-> <<
     [J EXCEPT !.op = "swap", !.chain = TRUE, !.count = 2, !.src = 256, !.dst = 768],
     [J EXCEPT !.op = "mix", !.minterms = {1, 2}, !.count = 2 * 256 + 3,
               !.src = 600, !.dst = 900, !.sub = 5, !.modulo = 4] >>] }

\* A copy that goes from high addresses to low ones.
MCDmaBackward == {
  [at |-> 16384, enhanced |-> FALSE, rev |-> "b", jobs |-> <<
     [J EXCEPT !.count = 3, !.src = 260, !.dst = 768, !.srcDir = TRUE, !.dstDir = TRUE] >>] }
=============================================================================
