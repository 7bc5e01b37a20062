--------------------------- MODULE MonitorServer ---------------------------
(***************************************************************************)
(* The life of SerialMonitorServer and ViceMonitorServer                   *)
(* (cli/main/{serial,vice}_monitor_server.cpp): the main thread starts and *)
(* stops the server, a listener thread polls, accepts and serves one       *)
(* client at a time.  The two share the listening descriptor through the   *)
(* plain int m_listenSocket and two atomic flags; no lock is taken, so     *)
(* every access is a step of its own.  A response is one send(), which     *)
(* blocks while the connection's buffers cannot take it.                   *)
(***************************************************************************)
EXTENDS Naturals

CONSTANT MonMaxChunk   \* bound: commands that one read() brings

ASSUME MonAssumption == MonMaxChunk \in Nat \ {0}

VARIABLES serial,    \* which of the two: TRUE for the serial, FALSE for the VICE monitor
          running,   \* m_running
          monStopReq,   \* m_stopRequested
          fdVar,     \* m_listenSocket >= 0
          sock,      \* kernel: the listening descriptor is open
          monMain,      \* where the main thread is: "idle" or inside stop()
          monThr,       \* where the listener thread is
          polled,    \* the listener put a valid descriptor into pollfd
          monConn,      \* kernel: the client's connection
          monTodo,      \* commands of the chunk that was read, not yet executed
          monFull       \* kernel: the response in send() does not fit until the client reads

flags == <<serial, running, monStopReq>>
monVars == <<serial, running, monStopReq, fdVar, sock, monMain, monThr, polled, monConn,
             monTodo, monFull>>
monClientVars == <<monTodo, monFull>>

MonInit ==
    /\ serial \in BOOLEAN
    /\ running = FALSE /\ monStopReq = FALSE
    /\ fdVar = FALSE /\ sock = FALSE
    /\ monMain = "idle" /\ monThr = "none" /\ polled = FALSE
    /\ monConn = "none" /\ monTodo = 0 /\ monFull = FALSE
-----------------------------------------------------------------------------
(***************************************************************************)
(* Main thread.                                                            *)
(***************************************************************************)
\* start(): socket, bind and listen succeed; the thread starts last.
Start ==
    /\ monMain = "idle" /\ ~running
    /\ running' = TRUE /\ monStopReq' = FALSE
    /\ fdVar' = TRUE /\ sock' = TRUE
    /\ monThr' = "top"
    /\ UNCHANGED <<serial, monMain, polled, monConn, monClientVars>>

\* start() fails in socket, setsockopt, bind or listen and closes again.
StartFails ==
    /\ monMain = "idle" /\ ~running
    /\ fdVar' = FALSE /\ sock' = FALSE
    /\ UNCHANGED <<flags, monMain, monThr, polled, monConn, monClientVars>>

Stop ==
    /\ monMain = "idle" /\ running
    /\ monStopReq' = TRUE
    /\ monMain' = IF serial THEN "close" ELSE "flag"
    /\ UNCHANGED <<serial, running, fdVar, sock, monThr, polled, monConn, monClientVars>>

\* m_running = false: after the close in the serial monitor, before it in VICE.
StopFlag ==
    /\ monMain = "flag"
    /\ running' = FALSE
    /\ monMain' = IF serial THEN "join" ELSE "close"
    /\ UNCHANGED <<serial, monStopReq, fdVar, sock, monThr, polled, monConn, monClientVars>>

\* close(m_listenSocket): connections not accepted yet are dropped.
StopClose ==
    /\ monMain = "close"
    /\ sock' = FALSE
    /\ monConn' = IF monConn = "pending" THEN "none" ELSE monConn
    /\ monMain' = "forget"
    /\ UNCHANGED <<flags, fdVar, monThr, polled, monClientVars>>

\* m_listenSocket = -1
StopForget ==
    /\ monMain = "forget"
    /\ fdVar' = FALSE
    /\ monMain' = IF serial THEN "flag" ELSE "join"
    /\ UNCHANGED <<flags, sock, monThr, polled, monConn, monClientVars>>

\* Faulty: stop() returns without waiting for the listener.
JoinDetached == monThr' = monThr

\* m_listenerThread->join()
Join == monThr = "exited" /\ monThr' = "none"

MonStopJoin ==
    /\ monMain = "join"
    /\ Join
    /\ monMain' = "idle"
    /\ UNCHANGED <<flags, fdVar, sock, polled, monConn, monClientVars>>

MonMainStep == StopFlag \/ StopClose \/ StopForget \/ MonStopJoin
-----------------------------------------------------------------------------
(***************************************************************************)
(* Listener thread: listenLoop() and handleClient().                       *)
(***************************************************************************)
\* Faulty: the loops do not look at the flags.
ServingAlways == running \in BOOLEAN

\* The condition of both loops.
Serving == running /\ ~monStopReq

\* The serial monitor leaves when it sees m_listenSocket < 0; VICE never looks.
SocketGone == serial /\ ~fdVar

LoopTop ==
    /\ monThr = "top"
    /\ monThr' = IF Serving /\ ~SocketGone THEN "poll" ELSE "exited"
    /\ UNCHANGED <<flags, fdVar, sock, monMain, polled, monConn, monClientVars>>

\* poll(): the descriptor is read now and may be closed before poll returns.
PollCall ==
    /\ monThr = "poll"
    /\ polled' = fdVar
    /\ monThr' = "polling"
    /\ UNCHANGED <<flags, fdVar, sock, monMain, monConn, monClientVars>>

\* A connection, or POLLNVAL for a closed descriptor, makes poll return > 0.
PollReady ==
    /\ monThr = "polling"
    /\ polled /\ (monConn = "pending" \/ ~sock)
    /\ monThr' = IF SocketGone THEN "exited" ELSE "accept"
    /\ UNCHANGED <<flags, fdVar, sock, monMain, polled, monConn, monClientVars>>

PollTimeout ==
    /\ monThr = "polling"
    /\ monThr' = IF SocketGone THEN "exited" ELSE "top"
    /\ UNCHANGED <<flags, fdVar, sock, monMain, polled, monConn, monClientVars>>

\* accept() reads m_listenSocket again; EBADF ends only the serial listener.
\* The VICE monitor sends a banner first.
MonAccept ==
    /\ monThr = "accept"
    /\ IF fdVar /\ sock
       THEN /\ monConn = "pending" /\ monConn' = "served"
            /\ IF serial THEN monThr' = "client" /\ UNCHANGED monFull
                         ELSE monThr' = "sending" /\ monFull' \in BOOLEAN
       ELSE /\ monThr' = IF serial THEN "exited" ELSE "top"
            /\ UNCHANGED <<monConn, monFull>>
    /\ UNCHANGED <<flags, fdVar, sock, monMain, polled, monTodo>>

\* handleClient() leaves on stop or hang-up.
ClientLeave ==
    /\ monThr = "client"
    /\ ~Serving \/ monConn = "hungup"
    /\ monConn' = "none" /\ monThr' = "top"
    /\ UNCHANGED <<flags, fdVar, sock, monMain, polled, monClientVars>>

\* read(): what the client sent, also before it hung up; nothing whole is no step.
ClientRead ==
    /\ monThr = "client" /\ Serving
    /\ monTodo' \in 1 .. MonMaxChunk
    /\ monThr' = "command"
    /\ UNCHANGED <<flags, fdVar, sock, monMain, polled, monConn, monFull>>

\* The commands of a chunk follow each other without a look at the flags; VICE
\* sends no empty response.
ClientCommand ==
    /\ monThr = "command"
    /\ IF monTodo = 0
       THEN monThr' = "client" /\ UNCHANGED monClientVars
       ELSE /\ monTodo' = monTodo - 1
            /\ \/ monThr' = "sending" /\ monFull' \in BOOLEAN
               \/ ~serial /\ monThr' = "command" /\ UNCHANGED monFull
    /\ UNCHANGED <<flags, fdVar, sock, monMain, polled, monConn>>

\* send() returns when the response fits, and with an error after a hang-up.
ClientSent ==
    /\ monThr = "sending"
    /\ ~monFull \/ monConn = "hungup"
    /\ monThr' = "command" /\ monFull' = FALSE
    /\ UNCHANGED <<flags, fdVar, sock, monMain, polled, monConn, monTodo>>

\* The client gave the VICE monitor's exit command: the rest of the chunk is dropped.
ClientExits ==
    /\ ~serial
    /\ monThr = "command" /\ monTodo > 0
    /\ monTodo' = 0
    /\ monConn' = "none" /\ monThr' = "top"
    /\ UNCHANGED <<flags, fdVar, sock, monMain, polled, monFull>>

ListenerStep ==
    LoopTop \/ PollCall \/ PollReady \/ PollTimeout \/ MonAccept
    \/ ClientLeave \/ ClientRead \/ ClientCommand \/ ClientSent
-----------------------------------------------------------------------------
\* The client: connects while the socket listens, reads and hangs up when it likes.
MonConnect ==
    /\ monConn = "none" /\ sock
    /\ monConn' = "pending"
    /\ UNCHANGED <<flags, fdVar, sock, monMain, monThr, polled, monClientVars>>

ClientTakes ==
    /\ monConn = "served" /\ monFull
    /\ monFull' = FALSE
    /\ UNCHANGED <<flags, fdVar, sock, monMain, monThr, polled, monConn, monTodo>>

HangUp ==
    /\ monConn = "served"
    /\ monConn' = "hungup"
    /\ UNCHANGED <<flags, fdVar, sock, monMain, monThr, polled, monClientVars>>

MonNext == Start \/ StartFails \/ Stop \/ MonMainStep \/ ListenerStep \/ ClientExits
        \/ MonConnect \/ ClientTakes \/ HangUp

MonSpec == MonInit /\ [][MonNext]_monVars

(***************************************************************************)
(* Both threads keep running: poll times out after 500 or 100 ms, so the   *)
(* listener always takes another step, except in send().  Of the client    *)
(* nothing is assumed: it may stay connected and never read.               *)
(***************************************************************************)
MonFairSpec == MonSpec /\ WF_monVars(MonMainStep) /\ WF_monVars(ListenerStep)
-----------------------------------------------------------------------------
(***************************************************************************)
(* When stop() has returned no listener is left that could step the CPU,   *)
(* and no client is left connected.                                        *)
(***************************************************************************)
StoppedIsQuiet == (monMain = "idle" /\ ~running) => (monThr = "none" /\ monConn = "none")

\* In send() to a client that is there and does not read.
MonSendBlocked == monThr = "sending" /\ monFull /\ monConn = "served"

(***************************************************************************)
(* stop() returns: the listener notices the flags from poll, accept, a     *)
(* client's command and between two chunks, and the join ends.  The one    *)
(* exception is a client that neither reads nor hangs up for ever: stop()  *)
(* closes the listening socket only, so that the listener stays in send(). *)
(***************************************************************************)
MonStopReturns == (monMain # "idle" ~> monMain = "idle") \/ <>[]MonSendBlocked
=============================================================================
