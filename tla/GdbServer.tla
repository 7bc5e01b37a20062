----------------------------- MODULE GdbServer -----------------------------
(***************************************************************************)
(* GdbServer (cli/main/gdb_server.cpp): the GDB remote protocol server's   *)
(* thread, the debugger at the other end of the connection and stop(),     *)
(* which the main thread calls when the emulator exits.  The emulator      *)
(* starts the server once, so the model begins with the thread at its loop.*)
(*                                                                         *)
(* A packet is two tokens on the wire, its start (the command's kind) and  *)
(* its end ("#" and checksum); everything else the client sends is "+" or  *)
(* "^C".  Checking m_stopRequested and the poll with a timeout that always *)
(* follows it are one step; a read that can block is two.                  *)
(***************************************************************************)
EXTENDS Naturals, Sequences, SequencesExt

CONSTANT MaxInterrupts   \* bound: ^C the user may send during one continue,
                         \* or, with a late client, during one connection

ASSUME ClientAssumption == MaxInterrupts \in Nat

VARIABLES
    prompt,       \* the client reads every reply within the second sendPacket
                  \* waits for its acknowledgement; FALSE: it may be late
    gdbStopReq,      \* m_stopRequested
    gdbMain,         \* where the main thread is: "idle" or inside stop()
    gdbThr,          \* where the server thread is
    clientFd,     \* m_clientFd >= 0
    listening,    \* the listening descriptor is open
    fdOpen,       \* the connection's descriptor is open in the server
    pkt,          \* the packet being received or handled
    gdbConn,         \* the client's side of the connection
    c2s, s2c,     \* bytes under way to the server and to the client
    half,         \* the client has sent only the start of a packet
    awaiting,     \* the request the client waits a reply for, or "none"
    interrupts    \* ^C sent since that request (if late, since it connected)

mainVars == <<prompt, gdbStopReq, gdbMain, listening>>
clientVars == <<gdbConn, half, awaiting, interrupts>>
gdbVars == <<prompt, gdbStopReq, gdbMain, gdbThr, clientFd, listening, fdOpen, pkt, gdbConn,
          c2s, s2c, half, awaiting, interrupts>>

\* "q" stands for every command answered at once (? q g G m M s Z z H).
Kinds == {"q", "c", "D", "k"}

GdbInit ==
    /\ prompt \in BOOLEAN
    /\ gdbStopReq = FALSE /\ gdbMain = "idle" /\ gdbThr = "top"
    /\ clientFd = FALSE /\ listening = TRUE /\ fdOpen = FALSE
    /\ pkt = "none" /\ gdbConn = "none" /\ c2s = <<>> /\ s2c = <<>>
    /\ half = FALSE /\ awaiting = "none" /\ interrupts = 0
-----------------------------------------------------------------------------
(***************************************************************************)
(* stop(), called by the main thread.                                      *)
(***************************************************************************)
StopRequest ==
    /\ gdbMain = "idle" /\ ~gdbStopReq
    /\ gdbStopReq' = TRUE /\ gdbMain' = "closeClient"
    /\ UNCHANGED <<prompt, gdbThr, clientFd, listening, fdOpen, pkt, c2s, s2c, clientVars>>

\* close(m_clientFd): a read already blocked on the descriptor goes on.
StopClient ==
    /\ gdbMain = "closeClient"
    /\ fdOpen' = (fdOpen /\ ~clientFd)
    /\ clientFd' = FALSE
    /\ gdbMain' = "closeListen"
    /\ UNCHANGED <<prompt, gdbStopReq, gdbThr, listening, pkt, c2s, s2c, clientVars>>

StopListen ==
    /\ gdbMain = "closeListen"
    /\ listening' = FALSE
    /\ gdbConn' = IF gdbConn = "pending" THEN "none" ELSE gdbConn
    /\ gdbMain' = "join"
    /\ UNCHANGED <<prompt, gdbStopReq, gdbThr, clientFd, fdOpen, pkt, c2s, s2c, half, awaiting,
                   interrupts>>

\* m_thread.join(); m_running = false
GdbStopJoin ==
    /\ gdbMain = "join" /\ gdbThr = "exited"
    /\ gdbMain' = "idle" /\ gdbThr' = "none"
    /\ UNCHANGED <<prompt, gdbStopReq, clientFd, listening, fdOpen, pkt, c2s, s2c, clientVars>>

GdbMainStep == StopClient \/ StopListen \/ GdbStopJoin
-----------------------------------------------------------------------------
(***************************************************************************)
(* The server thread: serverLoop().                                        *)
(***************************************************************************)
\* Faulty: the loop does not look at m_stopRequested.
ServerTopForever ==
    /\ gdbThr = "top"
    /\ gdbThr' = "poll"
    /\ UNCHANGED <<mainVars, clientFd, fdOpen, pkt, c2s, s2c, clientVars>>

ServerTop ==
    /\ gdbThr = "top"
    /\ gdbThr' = IF gdbStopReq THEN "exited" ELSE "poll"
    /\ UNCHANGED <<mainVars, clientFd, fdOpen, pkt, c2s, s2c, clientVars>>

\* poll times out, or accept fails on the descriptor stop() closed.
AcceptNothing ==
    /\ gdbThr = "poll"
    /\ gdbThr' = "top"
    /\ UNCHANGED <<mainVars, clientFd, fdOpen, pkt, c2s, s2c, clientVars>>

GdbAccept ==
    /\ gdbThr = "poll" /\ gdbConn = "pending" /\ listening
    /\ gdbConn' = "open" /\ fdOpen' = TRUE
    /\ gdbThr' = "register"
    /\ UNCHANGED <<mainVars, clientFd, pkt, c2s, s2c, half, awaiting, interrupts>>

\* m_clientFd = clientFd: stop() may have looked at it just before.
Register ==
    /\ gdbThr = "register"
    /\ clientFd' = TRUE /\ gdbThr' = "loop"
    /\ UNCHANGED <<mainVars, fdOpen, pkt, c2s, s2c, clientVars>>

\* handleClient() has returned: close(clientFd), a second close after stop()'s.
Disconnect ==
    /\ gdbThr = "close"
    /\ fdOpen' = FALSE /\ clientFd' = FALSE /\ gdbThr' = "top"
    /\ gdbConn' = "none" /\ c2s' = <<>> /\ s2c' = <<>> /\ pkt' = "none"
    /\ half' = FALSE /\ awaiting' = "none" /\ interrupts' = 0
    /\ UNCHANGED mainVars
-----------------------------------------------------------------------------
(***************************************************************************)
(* recvPacket(): skip to a packet, then read it to its end.                *)
(***************************************************************************)
ClientLoop ==
    /\ gdbThr = "loop"
    /\ gdbThr' = IF gdbStopReq THEN "close" ELSE "skip"
    /\ UNCHANGED <<mainVars, clientFd, fdOpen, pkt, c2s, s2c, clientVars>>

\* The client is gone or stop() closed the descriptor: a read returns <= 0.
ReadFails == ~fdOpen \/ (gdbConn = "hungup" /\ c2s = <<>>)

SkipEnds ==
    /\ gdbThr = "skip"
    /\ gdbStopReq \/ ReadFails
    /\ gdbThr' = "close"
    /\ UNCHANGED <<mainVars, clientFd, fdOpen, pkt, c2s, s2c, clientVars>>

SkipByte ==
    /\ gdbThr = "skip"
    /\ ~gdbStopReq /\ fdOpen /\ c2s # <<>>
    /\ c2s' = Tail(c2s)
    /\ pkt' = IF Head(c2s) \in Kinds \cup {"^C"} THEN Head(c2s) ELSE pkt
    /\ gdbThr' = CASE Head(c2s) \in Kinds -> "payload"
                [] Head(c2s) = "^C"    -> "dispatch"
                [] OTHER               -> "skip"
    /\ UNCHANGED <<mainVars, clientFd, fdOpen, s2c, clientVars>>

\* The payload loop checks m_stopRequested, then calls a blocking read.
PayloadCheck ==
    /\ gdbThr = "payload"
    /\ gdbThr' = IF gdbStopReq THEN "close" ELSE "read"
    /\ UNCHANGED <<mainVars, clientFd, fdOpen, pkt, c2s, s2c, clientVars>>

ReadCall ==
    /\ gdbThr = "read"
    /\ gdbThr' = IF fdOpen THEN "blocked" ELSE "close"
    /\ UNCHANGED <<mainVars, clientFd, fdOpen, pkt, c2s, s2c, clientVars>>

\* The packet is complete: acknowledge it, unless the descriptor is closed.
ReadReturns ==
    /\ gdbThr = "blocked" /\ c2s # <<>>
    /\ c2s' = Tail(c2s)
    /\ IF Head(c2s) # "#"
       THEN gdbThr' = "payload" /\ UNCHANGED s2c
       ELSE IF fdOpen
            THEN gdbThr' = "dispatch" /\ s2c' = Append(s2c, "+")
            ELSE gdbThr' = "close" /\ UNCHANGED s2c
    /\ UNCHANGED <<mainVars, clientFd, fdOpen, pkt, clientVars>>

ReadEnds ==
    /\ gdbThr = "blocked" /\ gdbConn = "hungup" /\ c2s = <<>>
    /\ gdbThr' = "close"
    /\ UNCHANGED <<mainVars, clientFd, fdOpen, pkt, c2s, s2c, clientVars>>
-----------------------------------------------------------------------------
(***************************************************************************)
(* handleClient()'s dispatch, handleContinue() and sendPacket().           *)
(***************************************************************************)
AfterReply == IF pkt = "D" THEN "close" ELSE "loop"

\* write() fails when stop() closed the descriptor; then there is no wait.
SendPacket(reply) ==
    /\ s2c' = IF fdOpen THEN Append(s2c, reply) ELSE s2c
    /\ gdbThr' = IF fdOpen THEN "ack" ELSE AfterReply

Dispatch ==
    /\ gdbThr = "dispatch"
    /\ CASE pkt = "c"          -> gdbThr' = "running" /\ UNCHANGED s2c
         [] pkt = "k"          -> gdbThr' = "close" /\ UNCHANGED s2c
         [] pkt = "^C"         -> SendPacket("S02")
         [] pkt \in {"q", "D"} -> SendPacket("OK")
    /\ UNCHANGED <<mainVars, clientFd, fdOpen, pkt, c2s, clientVars>>

\* A breakpoint, a BRK, 100000000 steps or m_stopRequested ends the loop.
RunEnds ==
    /\ gdbThr = "running"
    /\ SendPacket("S05")
    /\ UNCHANGED <<mainVars, clientFd, fdOpen, pkt, c2s, clientVars>>

\* Faulty: every byte that arrives while the program runs is dropped.
RunPollsDropping ==
    /\ gdbThr = "running"
    /\ ~gdbStopReq /\ fdOpen /\ c2s # <<>>
    /\ c2s' = Tail(c2s)
    /\ UNCHANGED <<mainVars, gdbThr, clientFd, fdOpen, pkt, s2c, clientVars>>

\* Every 1024 steps one byte is read; anything but ^C is dropped.
RunPolls ==
    /\ gdbThr = "running"
    /\ ~gdbStopReq /\ fdOpen /\ c2s # <<>>
    /\ c2s' = Tail(c2s)
    /\ IF Head(c2s) = "^C" THEN SendPacket("S02") ELSE UNCHANGED <<gdbThr, s2c>>
    /\ UNCHANGED <<mainVars, clientFd, fdOpen, pkt, clientVars>>

\* Faulty: sendPacket() does not wait for the acknowledgement.
AckByteIgnored == c2s' = c2s

\* sendPacket() takes one byte for the acknowledgement, whatever it is.
AckByte == c2s # <<>> /\ c2s' = Tail(c2s)

TakeAck ==
    /\ gdbThr = "ack"
    /\ IF ReadFails THEN c2s' = c2s ELSE AckByte
    /\ gdbThr' = AfterReply
    /\ UNCHANGED <<mainVars, clientFd, fdOpen, pkt, s2c, clientVars>>

AckTimeout ==
    /\ gdbThr = "ack" /\ c2s = <<>> /\ ~prompt
    /\ gdbThr' = AfterReply
    /\ UNCHANGED <<mainVars, clientFd, fdOpen, pkt, c2s, s2c, clientVars>>

ServerStep ==
    \/ ServerTop \/ AcceptNothing \/ GdbAccept \/ Register \/ Disconnect
    \/ ClientLoop \/ SkipEnds \/ SkipByte
    \/ PayloadCheck \/ ReadCall \/ ReadReturns \/ ReadEnds
    \/ Dispatch \/ TakeAck \/ AckTimeout
-----------------------------------------------------------------------------
(***************************************************************************)
(* The client, a debugger speaking the protocol (external): one request at *)
(* a time, ^C only while a continue runs, "+" for every reply.             *)
(***************************************************************************)
GdbConnect ==
    /\ gdbConn = "none" /\ listening /\ gdbThr \notin {"none", "exited"}
    /\ gdbConn' = "pending"
    /\ UNCHANGED <<mainVars, gdbThr, clientFd, fdOpen, pkt, c2s, s2c, half, awaiting,
                   interrupts>>

ClientSends(k) ==
    /\ gdbConn = "open" /\ awaiting = "none"
    /\ c2s' = Append(c2s, k)
    /\ half' = TRUE /\ awaiting' = k
    /\ interrupts' = IF prompt THEN 0 ELSE interrupts
    /\ UNCHANGED <<mainVars, gdbThr, clientFd, fdOpen, pkt, gdbConn, s2c>>

ClientFinishes ==
    /\ gdbConn = "open" /\ half
    /\ c2s' = Append(c2s, "#")
    /\ half' = FALSE
    /\ UNCHANGED <<mainVars, gdbThr, clientFd, fdOpen, pkt, gdbConn, s2c, awaiting, interrupts>>

ClientInterrupts ==
    /\ gdbConn = "open" /\ ~half /\ awaiting = "c"
    /\ interrupts < MaxInterrupts
    /\ c2s' = Append(c2s, "^C")
    /\ interrupts' = interrupts + 1
    /\ UNCHANGED <<mainVars, gdbThr, clientFd, fdOpen, pkt, gdbConn, s2c, half, awaiting>>

ClientReceives ==
    /\ gdbConn = "open" /\ s2c # <<>>
    /\ s2c' = Tail(s2c)
    /\ IF Head(s2c) = "+"
       THEN UNCHANGED <<c2s, awaiting>>
       ELSE c2s' = Append(c2s, "+") /\ awaiting' = "none"
    /\ UNCHANGED <<mainVars, gdbThr, clientFd, fdOpen, pkt, gdbConn, half, interrupts>>

ClientHangsUp ==
    /\ gdbConn = "open"
    /\ gdbConn' = "hungup" /\ s2c' = <<>>
    /\ UNCHANGED <<mainVars, gdbThr, clientFd, fdOpen, pkt, c2s, half, awaiting, interrupts>>

ClientStep ==
    \/ GdbConnect \/ \E k \in Kinds : ClientSends(k)
    \/ ClientFinishes \/ ClientInterrupts \/ ClientReceives \/ ClientHangsUp

GdbNext == StopRequest \/ GdbMainStep \/ ServerStep \/ RunEnds \/ RunPolls \/ ClientStep

\* After stop() there is nothing left to do.
Terminated == gdbMain = "idle" /\ gdbThr = "none" /\ UNCHANGED gdbVars

GdbSpec == GdbInit /\ [][GdbNext \/ Terminated]_gdbVars

(***************************************************************************)
(* Both threads keep running: every poll has a timeout.  The emulated      *)
(* program may never reach a breakpoint, so of handleContinue() only the   *)
(* look at the socket and, once stopping, its end are fair.                *)
(***************************************************************************)
ThreadFairness ==
    /\ WF_gdbVars(GdbMainStep)
    /\ WF_gdbVars(ServerStep)
    /\ WF_gdbVars(RunPolls)
    /\ WF_gdbVars(RunEnds /\ gdbStopReq)

(***************************************************************************)
(* A debugger that finishes the packets it starts and reads its replies.   *)
(***************************************************************************)
ClientFairness == WF_gdbVars(ClientFinishes) /\ WF_gdbVars(ClientReceives)

GdbFairSpec == GdbSpec /\ ThreadFairness /\ ClientFairness
-----------------------------------------------------------------------------
(***************************************************************************)
(* Requests and replies stay in step: a reply on its way is the only one   *)
(* and answers the request the client waits for.  A ^C that crosses the    *)
(* stop reply of a breakpoint must not be answered as well, or every later *)
(* reply would be taken for the answer to the wrong request.  This rests   *)
(* on sendPacket() taking one byte for the acknowledgement, and so on the  *)
(* client being prompt.                                                    *)
(***************************************************************************)
Answers(k) ==
    CASE k = "c"          -> {"S02", "S05"}
      [] k \in {"q", "D"} -> {"OK"}
      [] OTHER            -> {}

ReplyAnswersRequest ==
    prompt /\ gdbConn = "open" =>
        \A i \in DOMAIN s2c : s2c[i] # "+" =>
            /\ s2c[i] \in Answers(awaiting)
            /\ \A j \in DOMAIN s2c : s2c[j] # "+" => j = i

(***************************************************************************)
(* A running program the user interrupts comes to a stop: the ^C is seen   *)
(* and the continue answered, or the connection ends.                      *)
(***************************************************************************)
InterruptAnswered ==
    (prompt /\ awaiting = "c" /\ interrupts > 0) ~> (awaiting # "c" \/ gdbConn # "open")

(***************************************************************************)
(* stop() returns: "Stop the server and close all connections."            *)
(***************************************************************************)
GdbStopReturns == gdbMain # "idle" ~> gdbMain = "idle"
=============================================================================
