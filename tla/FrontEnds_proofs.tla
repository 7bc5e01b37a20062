------------------------- MODULE FrontEnds_proofs --------------------------
(***************************************************************************)
(* What holds of the GDB server's requests and replies, of the command     *)
(* line and of the GUI.                                                    *)
(***************************************************************************)
EXTENDS GdbServer, CliInterpreter, GuiFrame, SequenceTheorems, TLAPS

(***************************************************************************)
(* Requests and replies of the GDB server stay in step, with a client that *)
(* reads its replies in time and sends one ^C for a continue, as GDB does  *)
(* (it asks the user before it sends another).                             *)
(*                                                                         *)
(* The invariant follows one request through both queues: where the thread *)
(* is decides what is left of it in c2s, whether a ^C may have crossed the *)
(* stop reply, and whether the reply is still on its way in s2c.           *)
(***************************************************************************)
ToServer == {"q", "c", "D", "k", "#", "^C", "+"}
ToClient == {"+", "OK", "S02", "S05"}

Away == {"top", "poll", "exited", "none"}
Between == {"register", "loop", "skip"}
Reading == {"payload", "read", "blocked"}

GdbTypes ==
    /\ prompt \in BOOLEAN /\ half \in BOOLEAN /\ fdOpen \in BOOLEAN
    /\ awaiting \in {"none", "q", "c", "D", "k"} /\ interrupts \in Nat
    /\ c2s \in Seq(ToServer) /\ s2c \in Seq(ToClient)
    /\ gdbThr \in Away \cup Between \cup Reading \cup {"dispatch", "running", "ack", "close"}
    /\ gdbConn \in {"none", "pending", "open", "hungup"}

\* Nobody is connected.
Quiet ==
    gdbThr \in Away => /\ gdbConn \in {"none", "pending"} /\ Len(c2s) = 0 /\ Len(s2c) = 0
                       /\ awaiting = "none" /\ half = FALSE

\* From place s on, q is what the client has sent of request a: nothing, its start
\* (h), all of it, or all of it and a ^C.  x counts the ^C sent for the request.
Req(q, s, a, h, x) ==
    /\ a = "none" => ~h /\ Len(q) = s - 1
    /\ a # "none" => /\ Len(q) >= s /\ q[s] = a
                     /\ h => Len(q) = s
                     /\ ~h => /\ Len(q) >= s + 1 /\ q[s + 1] = "#"
                              /\ \/ Len(q) = s + 1
                                 \/ a = "c" /\ Len(q) = s + 2 /\ q[s + 2] = "^C" /\ x >= 1

\* The same once the server has read the start.
Rest(q, a, h, x) ==
    /\ h => Len(q) = 0
    /\ ~h => /\ Len(q) >= 1 /\ q[1] = "#"
             /\ Len(q) = 1 \/ (a = "c" /\ Len(q) = 2 /\ q[2] = "^C" /\ x >= 1)

\* And once it has read it all.
Crossing(q, a, x) == Len(q) = 0 \/ (a = "c" /\ Len(q) = 1 /\ q[1] = "^C" /\ x >= 1)

\* No reply is under way, at most the acknowledgement of the request.
Acked(t) == Len(t) = 0 \/ (Len(t) = 1 /\ t[1] = "+")

\* One reply is under way, and it answers request a.
Pending(t, a) ==
    \/ Len(t) = 1 /\ t[1] # "+" /\ t[1] \in Answers(a)
    \/ Len(t) = 2 /\ t[1] = "+" /\ t[2] # "+" /\ t[2] \in Answers(a)

InStep(t, a) == Acked(t) \/ Pending(t, a)

\* What the places the thread can be in mean for the request.
IdlePhase(q, t, a, h, x) ==
    \/ Len(t) = 0 /\ (Req(q, 1, a, h, x) \/ (Len(q) >= 1 /\ q[1] = "+" /\ Req(q, 2, a, h, x)))
    \/ Pending(t, a) /\ a = "c" /\ ~h /\ Len(q) = 0 /\ x >= 1

ReadPhase(q, t, a, h, x, k) == a # "none" /\ k = a /\ Len(t) = 0 /\ Rest(q, a, h, x)

WorkPhase(q, t, a, h, x, k) == a # "none" /\ k = a /\ ~h /\ Acked(t) /\ Crossing(q, a, x)

AckPhase(q, t, a, h, x, k) ==
    \/ Pending(t, a) /\ k = a /\ ~h /\ Crossing(q, a, x)
    \/ /\ Len(t) = 0
       /\ \/ Len(q) >= 1 /\ q[1] = "+" /\ Req(q, 2, a, h, x)
          \/ Len(q) >= 2 /\ q[1] = "^C" /\ q[2] = "+" /\ Req(q, 3, a, h, x)

Phase(thr, q, t, a, h, x, k) ==
    /\ thr \in Between => IdlePhase(q, t, a, h, x)
    /\ thr \in Reading => ReadPhase(q, t, a, h, x, k)
    /\ thr = "dispatch" => WorkPhase(q, t, a, h, x, k)
    /\ thr = "running" => WorkPhase(q, t, a, h, x, k) /\ k = "c"
    /\ thr = "ack" => AckPhase(q, t, a, h, x, k)

\* A packet is handled only after its start was read.
PktKnown == gdbThr \in Reading \cup {"dispatch"} => pkt \in Kinds \cup {"^C"}

\* With a prompt client requests and replies are in step.
Steady ==
    /\ prompt /\ gdbConn = "open" => InStep(s2c, awaiting)
    /\ prompt /\ gdbConn = "open" /\ fdOpen => Phase(gdbThr, c2s, s2c, awaiting, half, interrupts, pkt)

GdbInv == GdbTypes /\ Quiet /\ PktKnown /\ Steady
-----------------------------------------------------------------------------
\* Queues: a token put in, a token taken out.
LEMMA Put1 ==
  ASSUME NEW S, NEW q \in Seq(S), NEW x \in S
  PROVE  /\ Append(q, x) \in Seq(S) /\ Len(Append(q, x)) = Len(q) + 1 /\ Len(q) \in Nat
         /\ Append(q, x)[Len(q) + 1] = x /\ \A i \in 1 .. Len(q) : Append(q, x)[i] = q[i]
OBVIOUS

LEMMA Take1 ==
  ASSUME NEW S, NEW q \in Seq(S), q # <<>>
  PROVE  /\ Tail(q) \in Seq(S) /\ Len(Tail(q)) = Len(q) - 1 /\ Len(q) \in Nat /\ Len(q) >= 1
         /\ Head(q) = q[1] /\ Head(q) \in S /\ \A i \in 1 .. Len(q) - 1 : Tail(q)[i] = q[i + 1]
OBVIOUS

LEMMA EmptyLen ==
  ASSUME NEW S, NEW q \in Seq(S) PROVE Len(q) \in Nat /\ (q = <<>> <=> Len(q) = 0)
OBVIOUS

\* What the client does to a request.
LEMMA ReqSend ==
  ASSUME NEW q \in Seq(ToServer), NEW s \in 1 .. 3, NEW k \in Kinds, NEW h, NEW x, NEW y,
         Req(q, s, "none", h, x)
  PROVE  Req(Append(q, k), s, k, TRUE, y)
<1>1. k \in ToServer /\ k # "none"
  BY DEF Kinds, ToServer
<1>2. Len(q) = s - 1 /\ Len(q) + 1 = s
  BY DEF Req
<1>3. Len(Append(q, k)) = s /\ Append(q, k)[s] = k
  BY <1>1, <1>2, Put1
<1> QED BY <1>1, <1>3 DEF Req

LEMMA ReqFinish ==
  ASSUME NEW q \in Seq(ToServer), NEW s \in 1 .. 3, NEW a, NEW x, Req(q, s, a, TRUE, x)
  PROVE  Req(Append(q, "#"), s, a, FALSE, x)
<1>1. a # "none" /\ Len(q) = s /\ q[s] = a
  BY DEF Req
<1>2. "#" \in ToServer
  BY DEF ToServer
<1>3. Len(Append(q, "#")) = s + 1 /\ Append(q, "#")[s + 1] = "#" /\ Append(q, "#")[s] = a
  BY <1>1, <1>2, Put1
<1> QED BY <1>1, <1>3 DEF Req

LEMMA ReqInterrupt ==
  ASSUME NEW q \in Seq(ToServer), NEW s \in 1 .. 3, NEW x \in Nat, x = 0, Req(q, s, "c", FALSE, x)
  PROVE  Req(Append(q, "^C"), s, "c", FALSE, x + 1)
<1>1. Len(q) = s + 1 /\ q[s] = "c" /\ q[s + 1] = "#"
  BY DEF Req
<1>2. "^C" \in ToServer
  BY DEF ToServer
<1>3. /\ Len(Append(q, "^C")) = s + 2 /\ Append(q, "^C")[s + 2] = "^C"
      /\ Append(q, "^C")[s + 1] = "#" /\ Append(q, "^C")[s] = "c"
  <2>1. Len(q) + 1 = s + 2 /\ s \in 1 .. Len(q) /\ s + 1 \in 1 .. Len(q)
    BY <1>1
  <2> QED BY <1>1, <1>2, <2>1, Put1
<1> QED BY <1>3 DEF Req

\* What the server does to it.
LEMMA ReqTake ==
  ASSUME NEW q \in Seq(ToServer), NEW s \in 2 .. 3, NEW a, NEW h \in BOOLEAN, NEW x \in Nat, Len(q) >= s - 1,
         Req(q, s, a, h, x)
  PROVE  Req(Tail(q), s - 1, a, h, x)
<1>1. q # <<>>
  BY EmptyLen
<1> DEFINE t == Tail(q)
<1>2. Len(q) \in Nat /\ Len(t) = Len(q) - 1 /\ \A i \in 1 .. Len(q) - 1 : t[i] = q[i + 1]
  BY <1>1, Take1
<1> HIDE DEF t
<1>3. CASE a = "none"
  BY <1>2, <1>3 DEF Req, t
<1>4. CASE a # "none" /\ h
  <2>1. Len(q) = s /\ q[s] = a
    BY <1>4 DEF Req
  <2>2. t[s - 1] = a
    BY <1>2, <2>1
  <2> QED BY <1>2, <1>4, <2>1, <2>2 DEF Req, t
<1>5. CASE a # "none" /\ ~h
  <2>1. /\ Len(q) >= s + 1 /\ q[s] = a /\ q[s + 1] = "#"
        /\ Len(q) = s + 1 \/ (a = "c" /\ Len(q) = s + 2 /\ q[s + 2] = "^C" /\ x >= 1)
    BY <1>5 DEF Req
  <2>2. t[s - 1] = a /\ t[(s - 1) + 1] = "#"
    BY <1>2, <2>1
  <2>3. Len(q) = s + 2 => t[(s - 1) + 2] = q[s + 2]
    BY <1>2, <2>1
  <2> QED BY <1>2, <1>5, <2>1, <2>2, <2>3 DEF Req, t
<1> QED BY <1>3, <1>4, <1>5

LEMMA ReqStart ==
  ASSUME NEW q \in Seq(ToServer), NEW a, NEW h \in BOOLEAN, NEW x \in Nat, a # "none", Req(q, 1, a, h, x)
  PROVE  q # <<>> /\ Head(q) = a /\ Rest(Tail(q), a, h, x)
<1>0. Len(q) >= 1 /\ q[1] = a
  BY DEF Req
<1>1. q # <<>>
  BY <1>0, EmptyLen
<1> DEFINE t == Tail(q)
<1>2. Len(q) \in Nat /\ Len(t) = Len(q) - 1 /\ Head(q) = q[1] /\ \A i \in 1 .. Len(q) - 1 : t[i] = q[i + 1]
  BY <1>1, Take1
<1> HIDE DEF t
<1>3. ASSUME h PROVE Rest(t, a, h, x)
  BY <1>2, <1>3 DEF Req, Rest
<1>4. ASSUME ~h PROVE Rest(t, a, h, x)
  <2>1. /\ Len(q) >= 2 /\ q[2] = "#"
        /\ Len(q) = 2 \/ (a = "c" /\ Len(q) = 3 /\ q[3] = "^C" /\ x >= 1)
    BY <1>4 DEF Req
  <2>2. t[1] = "#"
    BY <1>2, <2>1
  <2>3. Len(q) = 3 => t[2] = q[3]
    BY <1>2
  <2> QED BY <1>2, <1>4, <2>1, <2>2, <2>3 DEF Rest
<1> QED BY <1>0, <1>1, <1>2, <1>3, <1>4 DEF t

LEMMA RestEnd ==
  ASSUME NEW q \in Seq(ToServer), NEW a, NEW h \in BOOLEAN, NEW x \in Nat, Rest(q, a, h, x), q # <<>>
  PROVE  ~h /\ Head(q) = "#" /\ Crossing(Tail(q), a, x)
<1>1. Len(q) # 0
  BY EmptyLen
<1> DEFINE t == Tail(q)
<1>2. Len(q) \in Nat /\ Len(t) = Len(q) - 1 /\ Head(q) = q[1] /\ \A i \in 1 .. Len(q) - 1 : t[i] = q[i + 1]
  BY Take1
<1> HIDE DEF t
<1>3. ~h /\ q[1] = "#" /\ (Len(q) = 1 \/ (a = "c" /\ Len(q) = 2 /\ q[2] = "^C" /\ x >= 1))
  BY <1>1 DEF Rest
<1>4. Len(q) = 2 => t[1] = q[2]
  BY <1>2
<1> QED BY <1>2, <1>3, <1>4 DEF Crossing, t
-----------------------------------------------------------------------------
\* The phases under what the client does.
Queues(q, t, a, h, x) ==
    /\ q \in Seq(ToServer) /\ t \in Seq(ToClient) /\ a \in {"none", "q", "c", "D", "k"}
    /\ h \in BOOLEAN /\ x \in Nat

\* Names that are not one another: the places of the thread.
LEMMA Places ==
  /\ \A thr \in Between : thr \notin Away /\ thr \notin Reading /\ thr \notin {"dispatch", "running", "ack", "close"}
  /\ \A thr \in Reading : thr \notin Away /\ thr \notin Between /\ thr \notin {"dispatch", "running", "ack", "close"}
  /\ \A thr \in {"dispatch", "running", "ack", "close"} : thr \notin Away /\ thr \notin Between /\ thr \notin Reading
BY DEF Away, Between, Reading

LEMMA PhaseSends ==
  ASSUME NEW thr, NEW q, NEW t, NEW h, NEW x, NEW y \in Nat, NEW p, NEW k \in Kinds, Queues(q, t, "none", h, x),
         Phase(thr, q, t, "none", h, x, p),
         NEW Q, Q = Append(q, k)
  PROVE  Phase(thr, Q, t, k, TRUE, y, p)
<1>0. q \in Seq(ToServer) /\ k \in ToServer /\ "none" # "c" /\ Answers("none") = {}
  BY DEF Queues, Kinds, ToServer, Answers
<1>1. ~Pending(t, "none")
  BY <1>0 DEF Pending
<1>2. /\ Len(q) \in Nat /\ Len(Q) = Len(q) + 1
      /\ \A i \in 1 .. Len(q) : Q[i] = q[i]
  BY <1>0, Put1
<1>3. /\ Req(q, 1, "none", h, x) => Req(Q, 1, k, TRUE, y)
      /\ Req(q, 2, "none", h, x) => Req(Q, 2, k, TRUE, y)
      /\ Req(q, 3, "none", h, x) => Req(Q, 3, k, TRUE, y)
  <2>1. 1 \in 1 .. 3 /\ 2 \in 1 .. 3 /\ 3 \in 1 .. 3
    OBVIOUS
  <2> QED BY <1>0, <2>1, ReqSend
<1>4. ASSUME IdlePhase(q, t, "none", h, x) PROVE IdlePhase(Q, t, k, TRUE, y)
  <2>1. Len(t) = 0 /\ (Req(q, 1, "none", h, x) \/ (Len(q) >= 1 /\ q[1] = "+" /\ Req(q, 2, "none", h, x)))
    BY <1>0, <1>4 DEF IdlePhase
  <2>2. Len(q) >= 1 => Q[1] = q[1] /\ Len(Q) >= 1
    BY <1>2
  <2> QED BY <1>3, <2>1, <2>2 DEF IdlePhase
<1>5. ASSUME AckPhase(q, t, "none", h, x, p) PROVE AckPhase(Q, t, k, TRUE, y, p)
  <2>1. /\ Len(t) = 0
        /\ \/ Len(q) >= 1 /\ q[1] = "+" /\ Req(q, 2, "none", h, x)
           \/ Len(q) >= 2 /\ q[1] = "^C" /\ q[2] = "+" /\ Req(q, 3, "none", h, x)
    BY <1>1, <1>5 DEF AckPhase
  <2>2. (Len(q) >= 1 => Q[1] = q[1] /\ Len(Q) >= 1) /\ (Len(q) >= 2 => Q[1] = q[1] /\ Q[2] = q[2] /\ Len(Q) >= 2)
    BY <1>2
  <2> QED BY <1>3, <2>1, <2>2 DEF AckPhase
<1> QED BY <1>4, <1>5 DEF Phase, ReadPhase, WorkPhase

LEMMA PhaseFinishes ==
  ASSUME NEW thr, NEW q, NEW t, NEW a, NEW x, NEW p, Queues(q, t, a, TRUE, x), Phase(thr, q, t, a, TRUE, x, p),
         NEW Q, Q = Append(q, "#")
  PROVE  Phase(thr, Q, t, a, FALSE, x, p)
<1>0. q \in Seq(ToServer) /\ "#" \in ToServer
  BY DEF Queues, ToServer
<1>2. /\ Len(q) \in Nat /\ Len(Q) = Len(q) + 1 /\ Q[Len(q) + 1] = "#"
      /\ \A i \in 1 .. Len(q) : Q[i] = q[i]
  BY <1>0, Put1
<1>3. /\ Req(q, 1, a, TRUE, x) => Req(Q, 1, a, FALSE, x)
      /\ Req(q, 2, a, TRUE, x) => Req(Q, 2, a, FALSE, x)
      /\ Req(q, 3, a, TRUE, x) => Req(Q, 3, a, FALSE, x)
  <2>1. 1 \in 1 .. 3 /\ 2 \in 1 .. 3 /\ 3 \in 1 .. 3
    OBVIOUS
  <2> QED BY <1>0, <2>1, ReqFinish
<1>4. ASSUME IdlePhase(q, t, a, TRUE, x) PROVE IdlePhase(Q, t, a, FALSE, x)
  <2>1. Len(t) = 0 /\ (Req(q, 1, a, TRUE, x) \/ (Len(q) >= 1 /\ q[1] = "+" /\ Req(q, 2, a, TRUE, x)))
    BY <1>4 DEF IdlePhase
  <2>2. Len(q) >= 1 => Q[1] = q[1] /\ Len(Q) >= 1
    BY <1>2
  <2> QED BY <1>3, <2>1, <2>2 DEF IdlePhase
<1>5. ASSUME AckPhase(q, t, a, TRUE, x, p) PROVE AckPhase(Q, t, a, FALSE, x, p)
  <2>1. /\ Len(t) = 0
        /\ \/ Len(q) >= 1 /\ q[1] = "+" /\ Req(q, 2, a, TRUE, x)
           \/ Len(q) >= 2 /\ q[1] = "^C" /\ q[2] = "+" /\ Req(q, 3, a, TRUE, x)
    BY <1>5 DEF AckPhase
  <2>2. (Len(q) >= 1 => Q[1] = q[1] /\ Len(Q) >= 1) /\ (Len(q) >= 2 => Q[1] = q[1] /\ Q[2] = q[2] /\ Len(Q) >= 2)
    BY <1>2
  <2> QED BY <1>3, <2>1, <2>2 DEF AckPhase
<1>6. ASSUME ReadPhase(q, t, a, TRUE, x, p) PROVE ReadPhase(Q, t, a, FALSE, x, p)
  <2>1. Len(q) = 0
    BY <1>6 DEF ReadPhase, Rest
  <2> QED BY <1>2, <1>6, <2>1 DEF ReadPhase, Rest
<1> QED BY <1>4, <1>5, <1>6 DEF Phase, WorkPhase

LEMMA PhaseInterrupts ==
  ASSUME NEW thr, NEW q, NEW t, NEW p, NEW x, x = 0, Queues(q, t, "c", FALSE, x), Phase(thr, q, t, "c", FALSE, x, p),
         NEW Q, Q = Append(q, "^C")
  PROVE  Phase(thr, Q, t, "c", FALSE, x + 1, p)
<1>0. q \in Seq(ToServer) /\ "^C" \in ToServer /\ x \in Nat /\ ~(x >= 1) /\ x + 1 >= 1
  BY DEF Queues, ToServer
<1>2. /\ Len(q) \in Nat /\ Len(Q) = Len(q) + 1 /\ Q[Len(q) + 1] = "^C"
      /\ \A i \in 1 .. Len(q) : Q[i] = q[i]
  BY <1>0, Put1
<1>3. /\ Req(q, 1, "c", FALSE, x) => Req(Q, 1, "c", FALSE, x + 1)
      /\ Req(q, 2, "c", FALSE, x) => Req(Q, 2, "c", FALSE, x + 1)
      /\ Req(q, 3, "c", FALSE, x) => Req(Q, 3, "c", FALSE, x + 1)
  <2>1. 1 \in 1 .. 3 /\ 2 \in 1 .. 3 /\ 3 \in 1 .. 3
    OBVIOUS
  <2> QED BY <1>0, <2>1, ReqInterrupt
<1>7. Crossing(q, "c", x) => Crossing(Q, "c", x + 1)
  BY <1>0, <1>2 DEF Crossing
<1>4. ASSUME IdlePhase(q, t, "c", FALSE, x) PROVE IdlePhase(Q, t, "c", FALSE, x + 1)
  <2>1. Len(t) = 0 /\ (Req(q, 1, "c", FALSE, x) \/ (Len(q) >= 1 /\ q[1] = "+" /\ Req(q, 2, "c", FALSE, x)))
    BY <1>0, <1>4 DEF IdlePhase
  <2>2. Len(q) >= 1 => Q[1] = q[1] /\ Len(Q) >= 1
    BY <1>2
  <2> QED BY <1>3, <2>1, <2>2 DEF IdlePhase
<1>5. ASSUME AckPhase(q, t, "c", FALSE, x, p) PROVE AckPhase(Q, t, "c", FALSE, x + 1, p)
  <2>1. \/ Pending(t, "c") /\ p = "c" /\ Crossing(q, "c", x)
        \/ /\ Len(t) = 0
           /\ \/ Len(q) >= 1 /\ q[1] = "+" /\ Req(q, 2, "c", FALSE, x)
              \/ Len(q) >= 2 /\ q[1] = "^C" /\ q[2] = "+" /\ Req(q, 3, "c", FALSE, x)
    BY <1>5 DEF AckPhase
  <2>2. (Len(q) >= 1 => Q[1] = q[1] /\ Len(Q) >= 1) /\ (Len(q) >= 2 => Q[1] = q[1] /\ Q[2] = q[2] /\ Len(Q) >= 2)
    BY <1>2
  <2> QED BY <1>3, <1>7, <2>1, <2>2 DEF AckPhase
<1>6. ASSUME ReadPhase(q, t, "c", FALSE, x, p) PROVE ReadPhase(Q, t, "c", FALSE, x + 1, p)
  <2>1. Len(q) = 1 /\ q[1] = "#"
    BY <1>0, <1>6 DEF ReadPhase, Rest
  <2>2. Q[1] = "#" /\ Q[2] = "^C" /\ Len(Q) = 2
    BY <1>2, <2>1
  <2> QED BY <1>0, <1>6, <2>2 DEF ReadPhase, Rest
<1> QED BY <1>4, <1>5, <1>6, <1>7 DEF Phase, WorkPhase

\* The client reads the acknowledgement, or the reply, which it acknowledges.
LEMMA ReplyRead ==
  ASSUME NEW t \in Seq(ToClient), t # <<>>, NEW a, InStep(t, a)
  PROVE  /\ Head(t) = "+" => InStep(Tail(t), a) /\ (Pending(t, a) => Pending(Tail(t), a)) /\ (Acked(t) => Len(Tail(t)) = 0)
         /\ Head(t) # "+" => Pending(t, a) /\ Len(Tail(t)) = 0
<1> DEFINE u == Tail(t)
<1>1. Len(t) \in Nat /\ Len(t) >= 1 /\ Len(u) = Len(t) - 1 /\ Head(t) = t[1] /\ \A i \in 1 .. Len(t) - 1 : u[i] = t[i + 1]
  BY Take1
<1> HIDE DEF u
<1>2. Len(t) = 2 => u[1] = t[2]
  BY <1>1
<1> QED BY <1>1, <1>2 DEF InStep, Acked, Pending, u

LEMMA PhaseReads ==
  ASSUME NEW thr, NEW q, NEW t, NEW a, NEW h, NEW x, NEW p, Queues(q, t, a, h, x), t # <<>>,
         InStep(t, a), Phase(thr, q, t, a, h, x, p)
  PROVE  /\ Head(t) = "+" => Phase(thr, q, Tail(t), a, h, x, p)
         /\ Head(t) # "+" => Phase(thr, Append(q, "+"), Tail(t), "none", h, x, p)
<1>0. q \in Seq(ToServer) /\ t \in Seq(ToClient) /\ "+" \in ToServer /\ h \in BOOLEAN /\ x \in Nat
  BY DEF Queues, ToServer
<1>1. Len(t) # 0
  BY <1>0, EmptyLen
<1>2. /\ Head(t) = "+" => InStep(Tail(t), a) /\ (Pending(t, a) => Pending(Tail(t), a)) /\ (Acked(t) => Len(Tail(t)) = 0)
      /\ Head(t) # "+" => Pending(t, a) /\ Len(Tail(t)) = 0
  BY <1>0, ReplyRead
<1>3. ASSUME Head(t) = "+" PROVE Phase(thr, q, Tail(t), a, h, x, p)
  BY <1>1, <1>2, <1>3 DEF Phase, IdlePhase, ReadPhase, WorkPhase, AckPhase, Acked
<1>4. ASSUME Head(t) # "+" PROVE Phase(thr, Append(q, "+"), Tail(t), "none", h, x, p)
  <2>1. Pending(t, a) /\ Len(Tail(t)) = 0 /\ ~Acked(t)
    BY <1>2, <1>4 DEF Pending, Acked
  <2>2. /\ Len(q) \in Nat /\ Len(Append(q, "+")) = Len(q) + 1 /\ Append(q, "+")[Len(q) + 1] = "+"
        /\ \A i \in 1 .. Len(q) : Append(q, "+")[i] = q[i]
    BY <1>0, Put1
  <2>3. ASSUME IdlePhase(q, t, a, h, x) PROVE IdlePhase(Append(q, "+"), Tail(t), "none", h, x)
    <3>1. ~h /\ Len(q) = 0
      BY <1>1, <2>3 DEF IdlePhase
    <3>2. Len(Append(q, "+")) = 1 /\ Append(q, "+")[1] = "+"
      BY <2>2, <3>1
    <3>3. Req(Append(q, "+"), 2, "none", h, x)
      BY <3>1, <3>2 DEF Req
    <3> QED BY <2>1, <3>2, <3>3 DEF IdlePhase
  <2>4. ASSUME AckPhase(q, t, a, h, x, p) PROVE AckPhase(Append(q, "+"), Tail(t), "none", h, x, p)
    <3>1. ~h /\ Crossing(q, a, x)
      BY <1>1, <2>4 DEF AckPhase
    <3>2. CASE Len(q) = 0
      <4>1. Len(Append(q, "+")) = 1 /\ Append(q, "+")[1] = "+"
        BY <2>2, <3>2
      <4>2. Req(Append(q, "+"), 2, "none", h, x)
        BY <3>1, <4>1 DEF Req
      <4> QED BY <2>1, <4>1, <4>2 DEF AckPhase
    <3>3. CASE Len(q) = 1 /\ q[1] = "^C"
      <4>1. Len(Append(q, "+")) = 2 /\ Append(q, "+")[1] = "^C" /\ Append(q, "+")[2] = "+"
        BY <2>2, <3>3
      <4>2. Req(Append(q, "+"), 3, "none", h, x)
        BY <3>1, <4>1 DEF Req
      <4> QED BY <2>1, <4>1, <4>2 DEF AckPhase
    <3> QED BY <3>1, <3>2, <3>3 DEF Crossing
  <2> QED BY <1>1, <2>1, <2>3, <2>4 DEF Phase, ReadPhase, WorkPhase
<1> QED BY <1>3, <1>4
-----------------------------------------------------------------------------
\* Types, and where the thread can go from where it is.
LEMMA TypesStep ==
  ASSUME GdbTypes, PktKnown, [GdbNext \/ Terminated]_gdbVars
  PROVE  GdbTypes' /\ PktKnown'
<1> DEFINE Thr == Away \cup Between \cup Reading \cup {"dispatch", "running", "ack", "close"}
<1>0. /\ c2s \in Seq(ToServer) /\ s2c \in Seq(ToClient) /\ gdbThr \in Thr
      /\ ToServer = Kinds \cup {"#", "^C", "+"}
  BY DEF GdbTypes, ToServer, Kinds
<1>1. /\ \A y \in ToServer : Append(c2s, y) \in Seq(ToServer)
      /\ \A y \in ToClient : Append(s2c, y) \in Seq(ToClient)
      /\ c2s # <<>> => Tail(c2s) \in Seq(ToServer) /\ Head(c2s) \in ToServer
      /\ s2c # <<>> => Tail(s2c) \in Seq(ToClient)
      /\ <<>> \in Seq(ToServer) /\ <<>> \in Seq(ToClient)
  BY <1>0, Put1, Take1
<1>2. "OK" \in ToClient /\ "S02" \in ToClient /\ "S05" \in ToClient /\ "+" \in ToClient
  BY DEF ToClient
<1>3. AfterReply \in {"close", "loop"}
  BY DEF AfterReply
<1>4. ASSUME NEW r \in ToClient, SendPacket(r)
      PROVE  s2c' \in Seq(ToClient) /\ gdbThr' \in {"ack", "close", "loop"}
  BY <1>0, <1>1, <1>3, <1>4 DEF SendPacket
<1>a. CASE StopRequest \/ UNCHANGED gdbVars \/ Terminated
  BY <1>a DEF GdbTypes, PktKnown, StopRequest, gdbVars, clientVars, Terminated
<1>b. CASE StopClient
  BY <1>b DEF GdbTypes, PktKnown, StopClient, clientVars
<1>c. CASE StopListen
  BY <1>c DEF GdbTypes, PktKnown, StopListen
<1>d. CASE GdbStopJoin \/ ServerTop \/ AcceptNothing \/ Register \/ ClientLoop
  <2>1. gdbThr' \in {"none", "exited", "poll", "top", "loop", "close", "skip"} /\ pkt' = pkt
    BY <1>d DEF GdbStopJoin, ServerTop, AcceptNothing, Register, ClientLoop
  <2>2. gdbThr' \in Thr /\ gdbThr' \notin Reading \cup {"dispatch"}
    BY <2>1 DEF Away, Between, Reading
  <2> QED BY <1>d, <2>2 DEF GdbTypes, PktKnown, GdbStopJoin, ServerTop, AcceptNothing, Register, ClientLoop,
          mainVars, clientVars
<1>e. CASE GdbAccept \/ Disconnect
  <2>1. gdbThr' \in {"register", "top"}
    BY <1>e DEF GdbAccept, Disconnect
  <2>2. gdbThr' \in Thr /\ gdbThr' \notin Reading \cup {"dispatch"}
    BY <2>1 DEF Away, Between, Reading
  <2>3. CASE GdbAccept
    BY <2>2, <2>3 DEF GdbTypes, PktKnown, GdbAccept, mainVars
  <2>4. CASE Disconnect
    BY <1>1, <2>2, <2>4 DEF GdbTypes, PktKnown, Disconnect, mainVars
  <2> QED BY <1>e, <2>3, <2>4
<1>f. CASE SkipEnds \/ PayloadCheck \/ ReadCall \/ ReadEnds
  BY <1>f DEF GdbTypes, PktKnown, SkipEnds, PayloadCheck, ReadCall, ReadEnds, mainVars, clientVars, Away,
     Between, Reading
<1>g. CASE SkipByte
  <2>1. c2s' \in Seq(ToServer)
    BY <1>1, <1>g DEF SkipByte
  <2>2. CASE Head(c2s) \in Kinds
    <3>1. gdbThr' = "payload" /\ pkt' = Head(c2s)
      BY <1>g, <2>2 DEF SkipByte, Kinds
    <3> QED BY <1>g, <2>1, <2>2, <3>1 DEF GdbTypes, PktKnown, SkipByte, mainVars, clientVars, Reading
  <2>3. CASE Head(c2s) = "^C"
    <3>1. gdbThr' = "dispatch" /\ pkt' = "^C"
      BY <1>g, <2>3 DEF SkipByte, Kinds
    <3> QED BY <1>g, <2>1, <3>1 DEF GdbTypes, PktKnown, SkipByte, mainVars, clientVars
  <2>4. CASE Head(c2s) \notin Kinds /\ Head(c2s) # "^C"
    <3>1. gdbThr' = "skip"
      BY <1>g, <2>4 DEF SkipByte
    <3>2. gdbThr' \in Between /\ gdbThr' \notin Reading \cup {"dispatch"}
      BY <3>1 DEF Between, Reading
    <3> QED BY <1>g, <2>1, <3>2 DEF GdbTypes, PktKnown, SkipByte, mainVars, clientVars
  <2> QED BY <2>2, <2>3, <2>4
<1>h. CASE ReadReturns
  <2>1. c2s' \in Seq(ToServer) /\ s2c' \in Seq(ToClient) /\ gdbThr' \in {"payload", "dispatch", "close"}
    BY <1>0, <1>1, <1>2, <1>h DEF ReadReturns
  <2>2. gdbThr \in Reading /\ pkt' = pkt /\ gdbThr' \in Thr
    BY <1>h, <2>1 DEF ReadReturns, Reading
  <2> QED BY <1>h, <2>1, <2>2 DEF GdbTypes, PktKnown, ReadReturns, mainVars, clientVars
<1>i. CASE Dispatch
  <2>1. pkt \in Kinds \cup {"^C"}
    BY <1>i DEF Dispatch, PktKnown
  <2>2. s2c' \in Seq(ToClient) /\ gdbThr' \in {"running", "close", "ack", "loop"}
    <3>1. CASE pkt = "c" \/ pkt = "k"
      BY <1>0, <1>i, <3>1 DEF Dispatch
    <3>2. CASE pkt = "^C"
      <4>1. SendPacket("S02")
        BY <1>i, <3>2 DEF Dispatch
      <4> QED BY <1>2, <1>4, <4>1
    <3>3. CASE pkt = "q" \/ pkt = "D"
      <4>1. SendPacket("OK")
        BY Zenon, <1>i, <3>3 DEF Dispatch
      <4> QED BY <1>2, <1>4, <4>1
    <3> QED BY <2>1, <3>1, <3>2, <3>3 DEF Kinds
  <2>3. gdbThr' \in Thr /\ gdbThr' \notin Reading \cup {"dispatch"}
    BY <2>2 DEF Between, Reading
  <2> QED BY <1>i, <2>2, <2>3 DEF GdbTypes, PktKnown, Dispatch, mainVars, clientVars
<1>j. CASE RunEnds
  <2>1. s2c' \in Seq(ToClient) /\ gdbThr' \in {"ack", "close", "loop"}
    BY <1>2, <1>4, <1>j DEF RunEnds
  <2>2. gdbThr' \in Thr /\ gdbThr' \notin Reading \cup {"dispatch"}
    BY <2>1 DEF Between, Reading
  <2> QED BY <1>j, <2>1, <2>2 DEF GdbTypes, PktKnown, RunEnds, mainVars, clientVars
<1>k. CASE RunPolls
  <2>1. c2s' \in Seq(ToServer) /\ s2c' \in Seq(ToClient) /\ gdbThr' \in {"running", "ack", "close", "loop"}
    <3>1. c2s' \in Seq(ToServer)
      BY <1>1, <1>k DEF RunPolls
    <3>2. CASE Head(c2s) = "^C"
      BY <1>2, <1>4, <1>k, <3>1, <3>2 DEF RunPolls
    <3>3. CASE Head(c2s) # "^C"
      BY <1>0, <1>k, <3>1, <3>3 DEF RunPolls
    <3> QED BY <3>2, <3>3
  <2>2. gdbThr' \in Thr /\ gdbThr' \notin Reading \cup {"dispatch"}
    BY <2>1 DEF Between, Reading
  <2> QED BY <1>k, <2>1, <2>2 DEF GdbTypes, PktKnown, RunPolls, mainVars, clientVars
<1>l. CASE TakeAck \/ AckTimeout
  <2>1. c2s' \in Seq(ToServer) /\ gdbThr' \in {"close", "loop"}
    BY <1>0, <1>1, <1>3, <1>l DEF TakeAck, AckTimeout, AckByte
  <2>2. gdbThr' \in Thr /\ gdbThr' \notin Reading \cup {"dispatch"}
    BY <2>1 DEF Between, Reading
  <2> QED BY <1>l, <2>1, <2>2 DEF GdbTypes, PktKnown, TakeAck, AckTimeout, mainVars, clientVars
<1>m. CASE GdbConnect \/ ClientHangsUp
  BY <1>1, <1>m DEF GdbTypes, PktKnown, GdbConnect, ClientHangsUp, mainVars
<1>n. ASSUME NEW k \in Kinds, ClientSends(k) PROVE GdbTypes' /\ PktKnown'
  <2>1. c2s' \in Seq(ToServer)
    BY <1>0, <1>1, <1>n DEF ClientSends
  <2>2. awaiting' \in {"none", "q", "c", "D", "k"} /\ interrupts' \in Nat
    BY <1>n DEF ClientSends, Kinds, GdbTypes
  <2> QED BY <1>n, <2>1, <2>2 DEF GdbTypes, PktKnown, ClientSends, mainVars
<1>o. CASE ClientFinishes \/ ClientInterrupts
  <2>1. c2s' \in Seq(ToServer)
    BY <1>0, <1>1, <1>o DEF ClientFinishes, ClientInterrupts
  <2>2. half' \in BOOLEAN
    BY <1>o, Zenon DEF GdbTypes, ClientFinishes, ClientInterrupts
  <2>3. interrupts' \in Nat
    BY <1>o DEF GdbTypes, ClientFinishes, ClientInterrupts
  <2> QED BY <1>o, <2>1, <2>2, <2>3 DEF GdbTypes, PktKnown, ClientFinishes, ClientInterrupts, mainVars
<1>p. CASE ClientReceives
  <2>1. c2s' \in Seq(ToServer) /\ s2c' \in Seq(ToClient) /\ awaiting' \in {"none", "q", "c", "D", "k"}
    BY <1>0, <1>1, <1>p DEF ClientReceives, GdbTypes
  <2> QED BY <1>p, <2>1 DEF GdbTypes, PktKnown, ClientReceives, mainVars
<1> QED BY <1>a, <1>b, <1>c, <1>d, <1>e, <1>f, <1>g, <1>h, <1>i, <1>j, <1>k, <1>l, <1>m, <1>n, <1>o, <1>p
        DEF GdbNext, GdbMainStep, ServerStep, ClientStep

\* Nobody is connected while the thread waits for a connection.
LEMMA QuietStep ==
  ASSUME GdbTypes, Quiet, PktKnown, [GdbNext \/ Terminated]_gdbVars
  PROVE  Quiet'
<1>1. CASE StopRequest \/ StopClient \/ UNCHANGED gdbVars \/ Terminated
  BY <1>1 DEF Quiet, StopRequest, StopClient, gdbVars, clientVars, Terminated
<1>2. CASE StopListen \/ GdbConnect
  BY <1>2 DEF Quiet, StopListen, GdbConnect, mainVars
<1>3. CASE GdbStopJoin \/ ServerTop \/ AcceptNothing
  <2>1. gdbThr \in Away
    BY <1>3 DEF Away, GdbStopJoin, ServerTop, AcceptNothing
  <2> QED BY <1>3, <2>1 DEF Quiet, GdbStopJoin, ServerTop, AcceptNothing, mainVars, clientVars
<1>4. CASE Disconnect
  <2>1. Len(c2s') = 0 /\ Len(s2c') = 0
    BY <1>4 DEF Disconnect
  <2> QED BY <1>4, <2>1 DEF Quiet, Disconnect
<1>5. CASE \/ GdbAccept \/ Register \/ ClientLoop \/ SkipEnds \/ SkipByte \/ PayloadCheck \/ ReadCall
           \/ ReadReturns \/ ReadEnds \/ Dispatch \/ RunEnds \/ RunPolls \/ TakeAck \/ AckTimeout
  <2>0. ASSUME NEW r, SendPacket(r) PROVE gdbThr' \in {"ack", "close", "loop"}
    BY <2>0 DEF SendPacket, AfterReply
  <2>1. CASE GdbAccept \/ Register \/ ClientLoop \/ SkipEnds \/ PayloadCheck \/ ReadCall \/ ReadEnds
    BY <2>1 DEF Quiet, Away, GdbAccept, Register, ClientLoop, SkipEnds, PayloadCheck, ReadCall, ReadEnds
  <2>2. CASE SkipByte \/ ReadReturns
    BY <2>2 DEF Quiet, Away, SkipByte, ReadReturns
  <2>3. CASE RunEnds \/ RunPolls
    <3>1. gdbThr' \in {"ack", "close", "loop", "running"}
      BY <2>0, <2>3 DEF RunEnds, RunPolls
    <3> QED BY <3>1 DEF Quiet, Away
  <2>4. CASE TakeAck \/ AckTimeout
    BY <2>4 DEF Quiet, Away, TakeAck, AckTimeout, AfterReply
  <2>5. CASE Dispatch
    <3>0. pkt \in Kinds \cup {"^C"}
      BY <2>5 DEF Dispatch, PktKnown
    <3>1. gdbThr' \in {"ack", "close", "loop", "running"}
      BY Zenon, <2>0, <2>5, <3>0 DEF Dispatch, Kinds
    <3> QED BY <3>1 DEF Quiet, Away
  <2> QED BY <1>5, <2>1, <2>2, <2>3, <2>4, <2>5
<1>6. CASE ClientFinishes \/ ClientInterrupts \/ ClientReceives \/ ClientHangsUp \/ \E k \in Kinds : ClientSends(k)
  <2>1. gdbConn = "open" /\ gdbThr' = gdbThr
    BY <1>6 DEF ClientFinishes, ClientInterrupts, ClientReceives, ClientHangsUp, ClientSends
  <2> QED BY <2>1 DEF Quiet
<1> QED BY <1>1, <1>2, <1>3, <1>4, <1>5, <1>6 DEF GdbNext, GdbMainStep, ServerStep, ClientStep
-----------------------------------------------------------------------------
\* The phases under what the server does.
LEMMA PhaseSkips ==
  ASSUME NEW q, NEW t, NEW a, NEW h, NEW x, NEW k, Queues(q, t, a, h, x), q # <<>>, IdlePhase(q, t, a, h, x)
  PROVE  \/ a # "none" /\ Head(q) = a /\ ReadPhase(Tail(q), t, a, h, x, a)
         \/ Head(q) = "+" /\ IdlePhase(Tail(q), t, a, h, x)
<1>1. q \in Seq(ToServer) /\ h \in BOOLEAN /\ x \in Nat /\ Len(q) \in Nat /\ Len(q) # 0 /\ Head(q) = q[1]
  BY EmptyLen, Take1 DEF Queues
<1>2. Len(t) = 0 /\ (Req(q, 1, a, h, x) \/ (Len(q) >= 1 /\ q[1] = "+" /\ Req(q, 2, a, h, x)))
  BY <1>1 DEF IdlePhase
<1>3. CASE Req(q, 1, a, h, x)
  <2>1. a # "none"
    BY <1>1, <1>3 DEF Req
  <2>2. Head(q) = a /\ Rest(Tail(q), a, h, x)
    BY <1>1, <1>3, <2>1, ReqStart
  <2> QED BY <1>2, <2>1, <2>2 DEF ReadPhase
<1>4. CASE Len(q) >= 1 /\ q[1] = "+" /\ Req(q, 2, a, h, x)
  <2>1. Req(Tail(q), 1, a, h, x)
    <3>1. 2 \in 2 .. 3 /\ Len(q) >= 2 - 1 /\ 2 - 1 = 1
      BY <1>4
    <3>2. Req(Tail(q), 2 - 1, a, h, x)
      BY <1>1, <1>4, <3>1, ReqTake
    <3> QED BY <3>1, <3>2
  <2> QED BY <1>1, <1>2, <1>4, <2>1 DEF IdlePhase
<1> QED BY <1>2, <1>3, <1>4

LEMMA PhaseAcks ==
  ASSUME NEW q, NEW t, NEW a, NEW h, NEW x, NEW k, Queues(q, t, a, h, x), q # <<>>, AckPhase(q, t, a, h, x, k)
  PROVE  IdlePhase(Tail(q), t, a, h, x)
<1>1. q \in Seq(ToServer) /\ h \in BOOLEAN /\ x \in Nat /\ Len(q) \in Nat /\ Len(q) >= 1 /\ Len(Tail(q)) = Len(q) - 1
      /\ \A i \in 1 .. Len(q) - 1 : Tail(q)[i] = q[i + 1]
  BY Take1 DEF Queues
<1>2. CASE Pending(t, a) /\ k = a /\ ~h /\ Crossing(q, a, x)
  <2>1. a = "c" /\ Len(q) = 1 /\ x >= 1
    BY <1>1, <1>2 DEF Crossing
  <2>2. Len(Tail(q)) = 0
    BY <1>1, <2>1
  <2> QED BY <1>2, <2>1, <2>2 DEF IdlePhase
<1>3. CASE Len(t) = 0 /\ Len(q) >= 1 /\ q[1] = "+" /\ Req(q, 2, a, h, x)
  <2>1. 2 \in 2 .. 3 /\ Len(q) >= 2 - 1 /\ 2 - 1 = 1
    BY <1>3
  <2>2. Req(Tail(q), 2 - 1, a, h, x)
    BY <1>1, <1>3, <2>1, ReqTake
  <2>3. Req(Tail(q), 1, a, h, x)
    BY <2>1, <2>2
  <2> QED BY <1>3, <2>3 DEF IdlePhase
<1>4. CASE Len(t) = 0 /\ Len(q) >= 2 /\ q[1] = "^C" /\ q[2] = "+" /\ Req(q, 3, a, h, x)
  <2>1. 3 \in 2 .. 3 /\ Len(q) >= 3 - 1 /\ 3 - 1 = 2
    BY <1>4
  <2>2. Req(Tail(q), 3 - 1, a, h, x)
    BY <1>1, <1>4, <2>1, ReqTake
  <2>3. Req(Tail(q), 2, a, h, x)
    BY <2>1, <2>2
  <2>4. Len(Tail(q)) >= 1 /\ Tail(q)[1] = "+"
    BY <1>1, <1>4
  <2> QED BY <1>4, <2>3, <2>4 DEF IdlePhase
<1> QED BY <1>2, <1>3, <1>4 DEF AckPhase

LEMMA ReplySent ==
  ASSUME NEW t \in Seq(ToClient), NEW r \in ToClient, r # "+", NEW a, r \in Answers(a), Acked(t)
  PROVE  Pending(Append(t, r), a)
<1>1. /\ Len(t) \in Nat /\ Len(Append(t, r)) = Len(t) + 1 /\ Append(t, r)[Len(t) + 1] = r
      /\ \A i \in 1 .. Len(t) : Append(t, r)[i] = t[i]
  BY Put1
<1>2. CASE Len(t) = 0
  BY <1>1, <1>2 DEF Pending
<1>3. CASE Len(t) = 1 /\ t[1] = "+"
  <2>1. Len(Append(t, r)) = 2 /\ Append(t, r)[2] = r /\ Append(t, r)[1] = "+"
    BY <1>1, <1>3
  <2> QED BY <2>1 DEF Pending
<1> QED BY <1>2, <1>3 DEF Acked

\* sendPacket() puts a reply that answers the request behind its acknowledgement.
LEMMA SendStep ==
  ASSUME GdbTypes, NEW r \in ToClient, r # "+", SendPacket(r), Steady, UNCHANGED <<prompt, gdbConn, fdOpen, awaiting, half, interrupts, pkt>>,
         prompt /\ gdbConn = "open" /\ fdOpen =>
            /\ Acked(s2c) /\ r \in Answers(awaiting) /\ pkt = awaiting /\ ~half /\ Crossing(c2s', awaiting, interrupts)
  PROVE  Steady'
<1>1. CASE prompt /\ gdbConn = "open" /\ fdOpen
  <2>1. s2c' = Append(s2c, r) /\ gdbThr' = "ack" /\ s2c \in Seq(ToClient)
    BY <1>1 DEF SendPacket, GdbTypes
  <2>2. Pending(s2c', awaiting')
    BY <1>1, <2>1, ReplySent
  <2>3. AckPhase(c2s', s2c', awaiting', half', interrupts', pkt')
    BY <1>1, <2>2 DEF AckPhase
  <2>4. Phase(gdbThr', c2s', s2c', awaiting', half', interrupts', pkt')
    BY <2>1, <2>3, Places DEF Phase
  <2> QED BY <2>2, <2>4 DEF Steady, InStep
<1>2. CASE ~fdOpen
  BY <1>2 DEF Steady, SendPacket
<1>3. CASE ~(prompt /\ gdbConn = "open")
  BY <1>3 DEF Steady
<1> QED BY <1>1, <1>2, <1>3

LEMMA SteadyStep ==
  ASSUME MaxInterrupts \in 0 .. 1, GdbInv, [GdbNext \/ Terminated]_gdbVars
  PROVE  Steady'
<1> USE DEF GdbInv
<1>0. Queues(c2s, s2c, awaiting, half, interrupts)
  BY DEF GdbTypes, Queues
<1>a. CASE StopRequest \/ UNCHANGED gdbVars \/ Terminated
  BY <1>a DEF Steady, StopRequest, gdbVars, clientVars, Terminated
<1>b. CASE StopClient
  BY <1>b DEF Steady, StopClient, clientVars
<1>c. CASE StopListen
  BY <1>c DEF Steady, StopListen
<1>d. CASE GdbStopJoin \/ ServerTop \/ AcceptNothing
  <2>1. gdbThr \in Away /\ gdbConn' = gdbConn
    BY <1>d DEF Away, GdbStopJoin, ServerTop, AcceptNothing, clientVars
  <2> QED BY <2>1 DEF Quiet, Steady
<1>e. CASE GdbAccept
  <2>1. /\ Len(c2s') = 0 /\ Len(s2c') = 0 /\ awaiting' = "none" /\ half' = FALSE /\ gdbThr' = "register"
    BY <1>e DEF GdbAccept, Quiet, Away
  <2>2. IdlePhase(c2s', s2c', awaiting', half', interrupts')
    BY <2>1 DEF IdlePhase, Req
  <2>3. gdbThr' \in Between
    BY <2>1 DEF Between
  <2> QED BY <2>1, <2>2, <2>3, Places DEF Steady, Phase, InStep, Acked
<1>f. CASE Disconnect
  BY <1>f DEF Disconnect, Steady
<1>g. CASE Register \/ ClientLoop \/ SkipEnds
  <2>1. gdbThr \in Between /\ gdbThr' \in Between \cup {"close"}
    BY <1>g DEF Register, ClientLoop, SkipEnds, Between
  <2>2. UNCHANGED <<prompt, gdbConn, fdOpen, c2s, s2c, awaiting, half, interrupts, pkt>>
    BY <1>g DEF Register, ClientLoop, SkipEnds, mainVars, clientVars
  <2> QED BY <2>1, <2>2, Places DEF Steady, Phase
<1>h. CASE PayloadCheck \/ ReadCall \/ ReadEnds
  <2>1. gdbThr \in Reading /\ gdbThr' \in Reading \cup {"close"}
    BY <1>h DEF PayloadCheck, ReadCall, ReadEnds, Reading
  <2>2. UNCHANGED <<prompt, gdbConn, fdOpen, c2s, s2c, awaiting, half, interrupts, pkt>>
    BY <1>h DEF PayloadCheck, ReadCall, ReadEnds, mainVars, clientVars
  <2> QED BY <2>1, <2>2, Places DEF Steady, Phase
<1>i. CASE SkipByte
  <2>1. /\ UNCHANGED <<prompt, gdbConn, fdOpen, s2c, awaiting, half, interrupts>> /\ c2s # <<>>
        /\ c2s' = Tail(c2s) /\ gdbThr = "skip" /\ gdbThr \in Between
    BY <1>i DEF SkipByte, mainVars, clientVars, Between
  <2>2. SUFFICES ASSUME prompt, gdbConn = "open", fdOpen
                 PROVE  Phase(gdbThr', c2s', s2c', awaiting', half', interrupts', pkt')
    BY <2>1 DEF Steady
  <2>3. IdlePhase(c2s, s2c, awaiting, half, interrupts)
    BY <2>1, <2>2 DEF Steady, Phase
  <2>4. CASE /\ awaiting # "none" /\ Head(c2s) = awaiting
             /\ ReadPhase(Tail(c2s), s2c, awaiting, half, interrupts, awaiting)
    <3>1. awaiting \in Kinds
      BY <2>4 DEF GdbTypes, Kinds
    <3>2. gdbThr' = "payload" /\ pkt' = awaiting
      BY <1>i, <2>4, <3>1 DEF SkipByte, Kinds
    <3>3. gdbThr' \in Reading
      BY <3>2 DEF Reading
    <3> QED BY <2>1, <2>4, <3>2, <3>3, Places DEF Phase
  <2>5. CASE Head(c2s) = "+" /\ IdlePhase(Tail(c2s), s2c, awaiting, half, interrupts)
    <3>1. gdbThr' = "skip"
      BY <1>i, <2>5 DEF SkipByte, Kinds
    <3> QED BY <2>1, <2>5, <3>1, Places DEF Phase
  <2> QED BY <1>0, <2>1, <2>3, <2>4, <2>5, PhaseSkips
<1>j. CASE ReadReturns
  <2>1. /\ UNCHANGED <<prompt, gdbConn, fdOpen, awaiting, half, interrupts, pkt>> /\ c2s # <<>>
        /\ c2s' = Tail(c2s) /\ gdbThr = "blocked" /\ gdbThr \in Reading
    BY <1>j DEF ReadReturns, mainVars, clientVars, Reading
  <2>2. CASE prompt /\ gdbConn = "open" /\ fdOpen
    <3>1. ReadPhase(c2s, s2c, awaiting, half, interrupts, pkt)
      BY <2>1, <2>2 DEF Steady, Phase
    <3>2. /\ awaiting # "none" /\ pkt = awaiting /\ Len(s2c) = 0 /\ Rest(c2s, awaiting, half, interrupts)
          /\ c2s \in Seq(ToServer) /\ half \in BOOLEAN /\ interrupts \in Nat /\ s2c \in Seq(ToClient)
      BY <3>1 DEF ReadPhase, GdbTypes
    <3>3. ~half /\ Head(c2s) = "#" /\ Crossing(Tail(c2s), awaiting, interrupts)
      BY <2>1, <3>2, RestEnd
    <3>4. gdbThr' = "dispatch" /\ s2c' = Append(s2c, "+")
      BY <1>j, <2>2, <3>3 DEF ReadReturns
    <3>5. Acked(s2c')
      <4>1. "+" \in ToClient
        BY DEF ToClient
      <4>2. Len(s2c') = 1 /\ s2c'[1] = "+"
        BY <3>2, <3>4, <4>1, Put1
      <4> QED BY <4>2 DEF Acked
    <3>6. WorkPhase(c2s', s2c', awaiting', half', interrupts', pkt')
      BY <2>1, <3>2, <3>3, <3>5 DEF WorkPhase
    <3> QED BY <3>4, <3>5, <3>6, Places DEF Steady, Phase, InStep
  <2>3. CASE ~fdOpen
    <3>1. s2c' = s2c
      BY <1>j, <2>3 DEF ReadReturns
    <3> QED BY <2>1, <2>3, <3>1 DEF Steady
  <2>4. CASE ~(prompt /\ gdbConn = "open")
    BY <2>1, <2>4 DEF Steady
  <2> QED BY <2>2, <2>3, <2>4
<1>k. CASE Dispatch
  <2>1. /\ UNCHANGED <<prompt, gdbConn, fdOpen, awaiting, half, interrupts, pkt, c2s>>
        /\ gdbThr = "dispatch" /\ pkt \in Kinds \cup {"^C"}
    BY <1>k DEF Dispatch, mainVars, clientVars, PktKnown
  <2>2. prompt /\ gdbConn = "open" /\ fdOpen => WorkPhase(c2s, s2c, awaiting, half, interrupts, pkt)
    BY <2>1 DEF Steady, Phase
  <2>3. CASE pkt = "c"
    <3>1. gdbThr' = "running" /\ s2c' = s2c
      BY <1>k, <2>3 DEF Dispatch
    <3> QED BY <2>1, <2>2, <2>3, <3>1, Places DEF Steady, Phase
  <2>4. CASE pkt = "k"
    <3>1. gdbThr' = "close" /\ s2c' = s2c
      BY <1>k, <2>4 DEF Dispatch
    <3> QED BY <2>1, <3>1, Places DEF Steady, Phase
  <2>5. CASE pkt = "^C"
    <3>1. SendPacket("S02") /\ "S02" \in ToClient
      BY <1>k, <2>5 DEF Dispatch, ToClient
    <3>2. ~(prompt /\ gdbConn = "open" /\ fdOpen)
      BY <2>2, <2>5 DEF WorkPhase, GdbTypes
    <3> QED BY <2>1, <3>1, <3>2, SendStep
  <2>6. CASE pkt = "q" \/ pkt = "D"
    <3>1. SendPacket("OK") /\ "OK" \in ToClient
      BY <1>k, <2>6 DEF Dispatch, ToClient
    <3>2. "OK" \in Answers(pkt)
      BY <2>6 DEF Answers
    <3> QED BY <2>1, <2>2, <3>1, <3>2, SendStep DEF WorkPhase
  <2> QED BY <2>1, <2>3, <2>4, <2>5, <2>6 DEF Kinds
<1>l. CASE RunEnds
  <2>1. /\ UNCHANGED <<prompt, gdbConn, fdOpen, awaiting, half, interrupts, pkt, c2s>>
        /\ gdbThr = "running" /\ SendPacket("S05") /\ "S05" \in ToClient
    BY <1>l DEF RunEnds, mainVars, clientVars, ToClient
  <2>2. prompt /\ gdbConn = "open" /\ fdOpen => WorkPhase(c2s, s2c, awaiting, half, interrupts, pkt) /\ pkt = "c"
    BY <2>1 DEF Steady, Phase
  <2>3. "S05" \in Answers("c")
    BY DEF Answers
  <2> QED BY <2>1, <2>2, <2>3, SendStep DEF WorkPhase
<1>m. CASE RunPolls
  <2>1. /\ UNCHANGED <<prompt, gdbConn, fdOpen, awaiting, half, interrupts, pkt>>
        /\ gdbThr = "running" /\ c2s # <<>> /\ c2s' = Tail(c2s)
    BY <1>m DEF RunPolls, mainVars, clientVars
  <2>2. ASSUME prompt, gdbConn = "open", fdOpen
        PROVE  /\ Acked(s2c) /\ pkt = awaiting /\ awaiting = "c" /\ ~half
               /\ Head(c2s) = "^C" /\ Crossing(c2s', awaiting, interrupts)
    <3>1. WorkPhase(c2s, s2c, awaiting, half, interrupts, pkt) /\ pkt = "c"
      BY <2>1, <2>2 DEF Steady, Phase
    <3>2. c2s \in Seq(ToServer) /\ Len(c2s) # 0
      BY <2>1, EmptyLen DEF GdbTypes
    <3>3. Len(c2s) = 1 /\ c2s[1] = "^C"
      BY <3>1, <3>2 DEF WorkPhase, Crossing
    <3>4. Len(Tail(c2s)) = 0 /\ Head(c2s) = "^C"
      BY <2>1, <3>2, <3>3, Take1
    <3> QED BY <2>1, <3>1, <3>4 DEF WorkPhase, Crossing
  <2>3. CASE Head(c2s) = "^C"
    <3>1. SendPacket("S02") /\ "S02" \in ToClient /\ "S02" \in Answers("c")
      BY <1>m, <2>3 DEF RunPolls, ToClient, Answers
    <3> QED BY <2>1, <2>2, <3>1, SendStep
  <2>4. CASE Head(c2s) # "^C"
    <3>1. s2c' = s2c
      BY <1>m, <2>4 DEF RunPolls
    <3> QED BY <2>1, <2>2, <2>4, <3>1 DEF Steady
  <2> QED BY <2>3, <2>4
<1>n. CASE TakeAck \/ AckTimeout
  <2>1. /\ UNCHANGED <<prompt, gdbConn, fdOpen, s2c, awaiting, half, interrupts, pkt>>
        /\ gdbThr = "ack" /\ gdbThr' \in {"loop", "close"}
    BY <1>n DEF TakeAck, AckTimeout, AfterReply, mainVars, clientVars
  <2>2. SUFFICES ASSUME prompt, gdbConn = "open", fdOpen
                 PROVE  Phase(gdbThr', c2s', s2c', awaiting', half', interrupts', pkt')
    BY <2>1 DEF Steady
  <2>3. AckPhase(c2s, s2c, awaiting, half, interrupts, pkt)
    BY <2>1, <2>2 DEF Steady, Phase
  <2>4. c2s # <<>> /\ c2s' = Tail(c2s)
    BY <1>n, <2>2 DEF TakeAck, AckTimeout, AckByte, ReadFails
  <2>5. IdlePhase(c2s', s2c', awaiting', half', interrupts')
    BY <1>0, <2>1, <2>3, <2>4, PhaseAcks
  <2>6. gdbThr' \notin Reading /\ gdbThr' \notin {"dispatch", "running", "ack"}
    BY <2>1 DEF Reading
  <2> QED BY <2>5, <2>6 DEF Phase
<1>o. CASE GdbConnect \/ ClientHangsUp
  BY <1>o DEF GdbConnect, ClientHangsUp, Steady
<1>p. ASSUME NEW k \in Kinds, ClientSends(k) PROVE Steady'
  <2>1. /\ UNCHANGED <<prompt, gdbConn, fdOpen, gdbThr, s2c, pkt>> /\ awaiting = "none" /\ awaiting' = k
        /\ half' = TRUE /\ c2s' = Append(c2s, k) /\ interrupts' \in Nat
    BY <1>p DEF ClientSends, mainVars, GdbTypes
  <2>2. SUFFICES ASSUME prompt, gdbConn = "open"
                 PROVE  /\ InStep(s2c, k)
                        /\ fdOpen => Phase(gdbThr, c2s', s2c, k, TRUE, interrupts', pkt)
    BY <2>1 DEF Steady
  <2>3. InStep(s2c, k)
    <3>1. InStep(s2c, "none") /\ Answers("none") = {}
      BY <2>1, <2>2 DEF Steady, Answers
    <3> QED BY <3>1 DEF InStep, Pending
  <2>4. ASSUME fdOpen PROVE Phase(gdbThr, c2s', s2c, k, TRUE, interrupts', pkt)
    <3>1. Phase(gdbThr, c2s, s2c, "none", half, interrupts, pkt) /\ Queues(c2s, s2c, "none", half, interrupts)
      BY <1>0, <2>1, <2>2, <2>4 DEF Steady
    <3> QED BY <2>1, <3>1, PhaseSends
  <2> QED BY <2>3, <2>4
<1>q. CASE ClientFinishes
  <2>1. /\ UNCHANGED <<prompt, gdbConn, fdOpen, gdbThr, s2c, pkt, awaiting, interrupts>> /\ half /\ half' = FALSE
        /\ c2s' = Append(c2s, "#")
    BY <1>q DEF ClientFinishes, mainVars
  <2>2. half = TRUE
    BY <2>1 DEF GdbTypes
  <2>3. SUFFICES ASSUME prompt, gdbConn = "open", fdOpen
                 PROVE  Phase(gdbThr, c2s', s2c, awaiting, FALSE, interrupts, pkt)
    BY <2>1 DEF Steady
  <2>4. Phase(gdbThr, c2s, s2c, awaiting, TRUE, interrupts, pkt) /\ Queues(c2s, s2c, awaiting, TRUE, interrupts)
    BY <1>0, <2>2, <2>3 DEF Steady
  <2> QED BY <2>1, <2>4, PhaseFinishes
<1>r. CASE ClientInterrupts
  <2>1. /\ UNCHANGED <<prompt, gdbConn, fdOpen, gdbThr, s2c, pkt, awaiting, half>> /\ awaiting = "c" /\ ~half
        /\ c2s' = Append(c2s, "^C") /\ interrupts' = interrupts + 1
    BY <1>r DEF ClientInterrupts, mainVars
  <2>2. half = FALSE
    BY <2>1 DEF GdbTypes
  <2>3. interrupts = 0
    BY <1>r DEF ClientInterrupts, GdbTypes
  <2>4. SUFFICES ASSUME prompt, gdbConn = "open", fdOpen
                 PROVE  Phase(gdbThr, c2s', s2c, "c", FALSE, interrupts + 1, pkt)
    BY <2>1, <2>2 DEF Steady
  <2>5. Phase(gdbThr, c2s, s2c, "c", FALSE, interrupts, pkt) /\ Queues(c2s, s2c, "c", FALSE, interrupts)
    BY <1>0, <2>1, <2>2, <2>4 DEF Steady
  <2> QED BY <2>1, <2>3, <2>5, PhaseInterrupts
<1>s. CASE ClientReceives
  <2>1. /\ UNCHANGED <<prompt, gdbConn, fdOpen, gdbThr, pkt, half, interrupts>> /\ s2c # <<>> /\ s2c' = Tail(s2c)
        /\ s2c \in Seq(ToClient)
    BY <1>s DEF ClientReceives, mainVars, GdbTypes
  <2>2. SUFFICES ASSUME prompt, gdbConn = "open"
                 PROVE  /\ InStep(s2c', awaiting')
                        /\ fdOpen => Phase(gdbThr, c2s', s2c', awaiting', half, interrupts, pkt)
    BY <2>1 DEF Steady
  <2>3. InStep(s2c, awaiting)
    BY <2>2 DEF Steady
  <2>4. CASE Head(s2c) = "+"
    <3>1. c2s' = c2s /\ awaiting' = awaiting
      BY <1>s, <2>4 DEF ClientReceives
    <3>2. InStep(s2c', awaiting')
      BY <2>1, <2>3, <2>4, <3>1, ReplyRead
    <3>3. ASSUME fdOpen PROVE Phase(gdbThr, c2s', s2c', awaiting', half, interrupts, pkt)
      <4>1. Phase(gdbThr, c2s, s2c, awaiting, half, interrupts, pkt)
        BY <2>2, <3>3 DEF Steady
      <4> QED BY <1>0, <2>1, <2>3, <2>4, <3>1, <4>1, PhaseReads
    <3> QED BY <3>2, <3>3
  <2>5. CASE Head(s2c) # "+"
    <3>1. c2s' = Append(c2s, "+") /\ awaiting' = "none"
      BY <1>s, <2>5 DEF ClientReceives
    <3>2. InStep(s2c', awaiting')
      BY <2>1, <2>3, <2>5, ReplyRead DEF InStep, Acked
    <3>3. ASSUME fdOpen PROVE Phase(gdbThr, c2s', s2c', awaiting', half, interrupts, pkt)
      <4>1. Phase(gdbThr, c2s, s2c, awaiting, half, interrupts, pkt)
        BY <2>2, <3>3 DEF Steady
      <4> QED BY <1>0, <2>1, <2>3, <2>5, <3>1, <4>1, PhaseReads
    <3> QED BY <3>2, <3>3
  <2> QED BY <2>4, <2>5
<1> QED BY <1>a, <1>b, <1>c, <1>d, <1>e, <1>f, <1>g, <1>h, <1>i, <1>j, <1>k, <1>l, <1>m, <1>n, <1>o, <1>p, <1>q,
           <1>r, <1>s DEF GdbNext, GdbMainStep, ServerStep, ClientStep

(***************************************************************************)
(* Requests and replies stay in step, whatever the two ends, the emulated  *)
(* program and stop() do and in whatever order: sendPacket() reads one     *)
(* byte for the acknowledgement, which is the ^C if one crossed the reply. *)
(* It holds for a client that reads in time and sends at most one ^C for a *)
(* continue; with two, the second one is answered as a request of its own. *)
(***************************************************************************)
THEOREM RepliesInStep ==
  ASSUME MaxInterrupts \in 0 .. 1
  PROVE  GdbSpec => []ReplyAnswersRequest
<1>1. GdbInit => GdbInv
  <2> SUFFICES ASSUME GdbInit PROVE GdbInv
    OBVIOUS
  <2>1. Len(c2s) = 0 /\ Len(s2c) = 0 /\ c2s \in Seq(ToServer) /\ s2c \in Seq(ToClient) /\ gdbThr \in Away
    BY DEF GdbInit, Away
  <2>2. GdbTypes
    BY <2>1 DEF GdbInit, GdbTypes
  <2>3. gdbThr \notin Reading \cup {"dispatch"}
    BY DEF GdbInit, Reading
  <2> QED BY <2>1, <2>2, <2>3 DEF GdbInit, GdbInv, Quiet, PktKnown, Steady
<1>2. GdbInv /\ [GdbNext \/ Terminated]_gdbVars => GdbInv'
  <2> SUFFICES ASSUME GdbInv, [GdbNext \/ Terminated]_gdbVars PROVE GdbInv'
    OBVIOUS
  <2>1. GdbTypes /\ Quiet /\ PktKnown
    BY DEF GdbInv
  <2>2. GdbTypes' /\ PktKnown'
    BY <2>1, TypesStep
  <2>3. Quiet'
    BY <2>1, QuietStep
  <2>4. Steady'
    BY SteadyStep
  <2> QED BY <2>2, <2>3, <2>4 DEF GdbInv
<1>3. GdbInv => ReplyAnswersRequest
  <2> SUFFICES ASSUME GdbInv, prompt, gdbConn = "open", NEW i \in DOMAIN s2c, s2c[i] # "+"
               PROVE  s2c[i] \in Answers(awaiting) /\ \A j \in DOMAIN s2c : s2c[j] # "+" => j = i
    BY DEF ReplyAnswersRequest
  <2>1. InStep(s2c, awaiting) /\ s2c \in Seq(ToClient)
    BY DEF GdbInv, Steady, GdbTypes
  <2>2. Len(s2c) \in Nat /\ DOMAIN s2c = 1 .. Len(s2c)
    BY <2>1
  <2> QED BY <2>1, <2>2 DEF InStep, Acked, Pending
<1> QED BY <1>1, <1>2, <1>3, PTL DEF GdbSpec
-----------------------------------------------------------------------------
(***************************************************************************)
(* The command line.  Each command's outcomes are of a context about one   *)
(* machine; one that runs the machine begins without the pause that an     *)
(* earlier command may have left, so that no stop it reports is stale.     *)
(***************************************************************************)
\* A machine and one of its CPUs, and the breakpoints by number.
CliPairs == Nat \X Nat
CliBps == UNION {[S -> [kind : {"exec", "watch"}, on : BOOLEAN]] : S \in SUBSET Nat}

CliTypes ==
  [made : Nat, cpu : CliPairs, bus : CliPairs, dbg : CliPairs, disasm : CliPairs, assem : CliPairs,
   loaded : BOOLEAN, asmMode : BOOLEAN, paused : BOOLEAN, brkTrap : BOOLEAN,
   bps : CliBps, next : Nat, intr : BOOLEAN, changed : SUBSET {"machine", "debugger"}, quit : BOOLEAN]

\* A context that is about one machine.
CliSound(c) ==
  /\ c \in CliTypes
  /\ c.bus = c.cpu /\ c.disasm = c.cpu /\ c.assem[1] = c.cpu[1]
  /\ c.dbg = IF c.cpu = CliNone THEN CliNone ELSE <<c.cpu[1], 1>>
  /\ c.asmMode => c.cpu # CliNone

\* What a command may leave: such a context, no stale stop, and no interrupt that it reported.
CliStops == {"none", "end", "point", "trap", "interrupted", "condition"}
CliFine(o) ==
  /\ o \in [c : CliTypes, stop : CliStops, fresh : BOOLEAN]
  /\ CliSound(o.c)
  /\ o.stop = "interrupted" => ~o.c.intr
CliAllFine(S) == \A o \in S : CliFine(o)

LEMMA CliSmall ==
  ASSUME NEW c, CliSound(c)
  PROVE  /\ \A b \in BOOLEAN : /\ CliSound([c EXCEPT !.paused = b]) /\ CliSound([c EXCEPT !.intr = b])
                               /\ CliSound([c EXCEPT !.brkTrap = b]) /\ CliSound([c EXCEPT !.quit = b])
                               /\ CliSound([c EXCEPT !.loaded = b])
         /\ \A p \in {"machine", "debugger"} : CliSound(CliChanges(c, p)) /\ CliSound(CliForgets(c, p))
         /\ CliSound(CliBegin(c)) /\ CliSound(CliResume(c)) /\ ~CliResume(c).paused
         /\ CliSound([c EXCEPT !.asmMode = FALSE])
         /\ c.cpu # CliNone => CliSound([c EXCEPT !.asmMode = TRUE])
         /\ \A f \in CliBps, n \in Nat : CliSound([c EXCEPT !.bps = f]) /\ CliSound([c EXCEPT !.bps = f, !.next = n])
<1> USE DEF CliSound, CliTypes
<1>1. \A b \in BOOLEAN : /\ CliSound([c EXCEPT !.paused = b]) /\ CliSound([c EXCEPT !.intr = b])
                         /\ CliSound([c EXCEPT !.brkTrap = b]) /\ CliSound([c EXCEPT !.quit = b])
                         /\ CliSound([c EXCEPT !.loaded = b])
  OBVIOUS
<1>2. ASSUME NEW p \in {"machine", "debugger"} PROVE CliSound(CliChanges(c, p)) /\ CliSound(CliForgets(c, p))
  <2>1. c.changed \cup {p} \in SUBSET {"machine", "debugger"} /\ c.changed \ {p} \in SUBSET {"machine", "debugger"}
    OBVIOUS
  <2> QED BY <2>1 DEF CliChanges, CliForgets
<1>3. CliSound(CliBegin(c)) /\ CliSound(CliResume(c)) /\ ~CliResume(c).paused
  BY DEF CliBegin, CliResume
<1>4. CliSound([c EXCEPT !.asmMode = FALSE])
  OBVIOUS
<1>5. c.cpu # CliNone => CliSound([c EXCEPT !.asmMode = TRUE])
  OBVIOUS
<1>7. \A f \in CliBps, n \in Nat : CliSound([c EXCEPT !.bps = f]) /\ CliSound([c EXCEPT !.bps = f, !.next = n])
  OBVIOUS
<1> QED BY Zenon, <1>1, <1>2, <1>3, <1>4, <1>5, <1>7

LEMMA CliDoneFine == ASSUME NEW c, CliSound(c) PROVE CliFine(CliDone(c))
BY DEF CliFine, CliDone, CliSound, CliStops

LEMMA CliStopFine ==
  ASSUME NEW c, CliSound(c), NEW w \in CliStops, w = "interrupted" => ~c.intr
  PROVE  CliFine(CliStop(c, w))
BY DEF CliFine, CliStop, CliSound, CliStops

LEMMA CliWithFine ==
  ASSUME NEW c, CliSound(c), NEW S, c.cpu # CliNone => CliAllFine(S) PROVE CliAllFine(CliWith(c, S))
BY CliDoneFine DEF CliAllFine, CliWith

LEMMA CliMayFine ==
  ASSUME NEW c, CliSound(c), NEW p \in {"machine", "debugger"} PROVE CliAllFine(CliMay(c, p))
<1>1. CliSound(CliChanges(c, p)) BY Zenon, CliSmall
<1> QED BY <1>1, CliDoneFine DEF CliAllFine, CliMay

LEMMA CliAccessSound == ASSUME NEW c, CliSound(c), NEW s \in CliAccess(c) PROVE CliSound(s)
<1>1. CliSound([c EXCEPT !.paused = TRUE]) BY Zenon, CliSmall
<1> QED BY <1>1 DEF CliAccess

\* A run that does not begin paused reports no stale stop.
LEMMA CliStepsFine ==
  ASSUME NEW c, CliSound(c), ~c.paused
  PROVE  CliAllFine(CliSteps(c)) /\ CliAllFine(CliInterruptible(c)) /\ CliAllFine(CliSourceStep(c))
<1> DEFINE p == [c EXCEPT !.paused = TRUE]
           q == [c EXCEPT !.intr = FALSE]
<1>1. CliSound(p) /\ CliSound(q) BY Zenon, CliSmall
<1>2. ~q.intr /\ q \in CliTypes BY <1>1 DEF CliSound, CliTypes
<1> HIDE DEF p, q
<1>3. CliPauses(c) \subseteq {"point", "trap"} BY DEF CliPauses
<1>4. \A w \in {"point", "trap"} : CliFine(CliStop(p, w)) BY <1>1, CliStopFine DEF CliStops
<1>5. CliFine(CliStop(c, "end")) /\ (~c.intr => CliFine(CliStop(c, "interrupted"))) BY CliStopFine DEF CliStops
<1>6. CliAllFine(CliSteps(c)) BY <1>3, <1>4, <1>5 DEF CliAllFine, CliSteps, p
<1>7. \A b \in BOOLEAN : CliFine([c |-> q, stop |-> "interrupted", fresh |-> b])
  BY <1>1, <1>2 DEF CliFine, CliStops
<1>8. CliAllFine(CliInterruptible(c))
  BY <1>5, <1>6, <1>7 DEF CliAllFine, CliInterruptible, q
<1>9. ASSUME NEW o \in CliSteps(c), NEW i \in BOOLEAN PROVE CliFine(CliStop([o.c EXCEPT !.intr = i], o.stop))
  <2>1. o.stop \in {"end", "point", "trap"} BY <1>3 DEF CliSteps, CliStop
  <2>2. CliSound(o.c) BY <1>6 DEF CliAllFine, CliFine
  <2>3. CliSound([o.c EXCEPT !.intr = i]) BY Zenon, <2>2, CliSmall
  <2> QED BY <2>1, <2>3, CliStopFine DEF CliStops
<1>10. c.intr \in BOOLEAN BY DEF CliSound, CliTypes
<1>11. CliAllFine(CliSourceStep(c))
  <2> DEFINE n == ~c.intr
             I == {c.intr, TRUE}
  <2>1. n \in BOOLEAN BY Zenon
  <2>2. \A i \in I : i \in BOOLEAN BY <1>10
  <2>3. CliSourceStep(c) = {CliStop([o.c EXCEPT !.intr = i], o.stop) : o \in CliSteps(c), i \in I}
                           \cup {[c |-> q, stop |-> "interrupted", fresh |-> n]}
    BY DEF CliSourceStep, q
  <2> HIDE DEF n, I
  <2>4. CliFine([c |-> q, stop |-> "interrupted", fresh |-> n]) BY <2>1, <1>7
  <2>5. \A o \in CliSteps(c), i \in I : CliFine(CliStop([o.c EXCEPT !.intr = i], o.stop)) BY <2>2, <1>9
  <2>6. ASSUME NEW s \in CliSourceStep(c) PROVE CliFine(s)
    <3>1. \/ \E o \in CliSteps(c), i \in I : s = CliStop([o.c EXCEPT !.intr = i], o.stop)
          \/ s = [c |-> q, stop |-> "interrupted", fresh |-> n]
      BY <2>3
    <3> QED BY Zenon, <3>1, <2>4, <2>5
  <2> QED BY Zenon, <2>6 DEF CliAllFine
<1> QED BY <1>6, <1>8, <1>11

\* However they began, commands that report no stop are fine.
LEMMA CliSilentFine ==
  ASSUME NEW c, CliSound(c)
  PROVE  /\ \A o \in CliSteps(c) \cup CliInterruptible(c) : CliSound(o.c)
         /\ CliAllFine(CliSilently(CliSteps(c))) /\ CliAllFine(CliSilently(CliInterruptible(c)))
<1>1. CliSound([c EXCEPT !.paused = TRUE]) /\ CliSound([c EXCEPT !.intr = FALSE])
  BY Zenon, CliSmall
<1>2. \A o \in CliSteps(c) : o.c \in {c, [c EXCEPT !.paused = TRUE]}
  BY DEF CliSteps, CliStop
<1>3. \A o \in CliInterruptible(c) : o.c \in {c, [c EXCEPT !.paused = TRUE], [c EXCEPT !.intr = FALSE]}
  BY <1>2 DEF CliInterruptible, CliStop
<1>4. \A o \in CliSteps(c) \cup CliInterruptible(c) : CliSound(o.c)
  BY <1>1, <1>2, <1>3
<1> QED BY <1>4, CliDoneFine DEF CliAllFine, CliSilently

\* No breakpoint is set in a new machine.
LEMMA CliNoBps == <<>> \in CliBps
<1>1. <<>> \in [{} -> [kind : {"exec", "watch"}, on : BOOLEAN]]
  OBVIOUS
<1> QED BY <1>1 DEF CliBps

\* Commands that change nothing, write memory, drive a device, or keep records.
LEMMA CliPlainFine ==
  ASSUME NEW c, CliSound(c)
  PROVE  /\ CliAllFine({CliDone(c)}) /\ CliAllFine(CliWrites(c)) /\ CliAllFine(CliDevice(c))
         /\ \A p \in {"machine", "debugger"} : CliAllFine(CliWith(c, CliMay(c, p)))
         /\ CliAllFine(CliWith(c, {CliDone(s) : s \in CliAccess(c)}))
         /\ CliAllFine(CliWith(c, CliMay(c, "debugger") \cup {CliDone(CliForgets(c, "debugger"))}))
<1>1. CliAllFine({CliDone(c)})
  BY CliDoneFine DEF CliAllFine
<1>2. ASSUME NEW s \in CliAccess(c) PROVE CliFine(CliDone(s)) /\ CliFine(CliDone(CliChanges(s, "machine")))
  <2>1. CliSound(s) BY CliAccessSound
  <2>2. CliSound(CliChanges(s, "machine")) BY Zenon, <2>1, CliSmall
  <2> QED BY <2>1, <2>2, CliDoneFine
<1>3. CliAllFine({CliDone(c)} \cup {CliDone(CliChanges(s, "machine")) : s \in CliAccess(c)})
  BY <1>1, <1>2 DEF CliAllFine
<1>4. CliAllFine({CliDone(s) : s \in CliAccess(c)})
  BY <1>2 DEF CliAllFine
<1>5. \A p \in {"machine", "debugger"} : CliAllFine(CliMay(c, p))
  BY CliMayFine
<1>6. CliSound(CliForgets(c, "debugger"))
  BY Zenon, CliSmall
<1>7. CliAllFine(CliMay(c, "debugger") \cup {CliDone(CliForgets(c, "debugger"))})
  BY <1>5, <1>6, CliDoneFine DEF CliAllFine
<1>8. CliAllFine(CliWrites(c)) BY <1>3, CliWithFine DEF CliWrites
<1>9. \A p \in {"machine", "debugger"} : CliAllFine(CliWith(c, CliMay(c, p))) BY <1>5, CliWithFine
<1>10. CliAllFine(CliDevice(c)) BY <1>9 DEF CliDevice
<1>11. CliAllFine(CliWith(c, {CliDone(s) : s \in CliAccess(c)})) BY <1>4, CliWithFine
<1>12. CliAllFine(CliWith(c, CliMay(c, "debugger") \cup {CliDone(CliForgets(c, "debugger"))})) BY <1>7, CliWithFine
<1> QED BY <1>1, <1>8, <1>9, <1>10, <1>11, <1>12

\* Commands that replace the machine, choose its CPU or reset it.
LEMMA CliCreateFine == ASSUME NEW c, CliSound(c) PROVE CliAllFine(cli_create(c))
<1>1. CASE c.made = MaxCliMachines
  BY <1>1, CliDoneFine DEF CliAllFine, cli_create
<1>2. CASE c.made # MaxCliMachines
  <2> DEFINE m == <<c.made + 1, 1>>
             d == [c EXCEPT !.made = @ + 1, !.cpu = m, !.bus = m, !.dbg = m, !.disasm = m, !.assem = m,
                            !.paused = FALSE, !.brkTrap = TRUE, !.bps = <<>>, !.next = 1, !.changed = {}]
  <2>1. m \in CliPairs /\ m[1] \in Nat /\ m[1] # 0 /\ m = <<m[1], 1>>
    BY DEF CliSound, CliTypes, CliPairs
  <2>2. m # CliNone
    BY <2>1 DEF CliNone
  <2>3. CliSound(d)
    <3> DEFINE n == c.made + 1
    <3>1. n \in Nat /\ d = [c EXCEPT !.made = n, !.cpu = m, !.bus = m, !.dbg = m, !.disasm = m, !.assem = m,
                            !.paused = FALSE, !.brkTrap = TRUE, !.bps = <<>>, !.next = 1, !.changed = {}]
      BY DEF CliSound, CliTypes
    <3> HIDE DEF m, n, d
    <3>2. /\ d \in CliTypes
          /\ d.cpu = m /\ d.bus = m /\ d.dbg = m /\ d.disasm = m /\ d.assem = m
      BY Zenon, <2>1, <3>1, CliNoBps DEF CliSound, CliTypes
    <3> QED BY <2>1, <2>2, <3>2 DEF CliSound
  <2>4. cli_create(c) = {CliDone(c), CliDone(d)}
    BY <1>2 DEF cli_create
  <2> HIDE DEF d
  <2> QED BY <2>3, <2>4, CliDoneFine DEF CliAllFine
<1> QED BY <1>1, <1>2

LEMMA CliResetFine == ASSUME NEW c, CliSound(c) PROVE CliAllFine(cli_reset(c))
<1>0. CliSound(CliForgets(c, "machine"))
  BY Zenon, CliSmall
<1>1. CliSound(CliForgets(c, "machine")) /\ CliForgets(c, "machine").cpu = c.cpu
  BY <1>0 DEF CliForgets, CliSound, CliTypes
<1>2. CliSound([CliForgets(c, "machine") EXCEPT !.bus = c.cpu])
  BY <1>1 DEF CliSound, CliTypes
<1> QED BY <1>2, CliDoneFine, CliWithFine DEF CliAllFine, cli_reset

LEMMA CliCpuFine == ASSUME NEW c, CliSound(c) PROVE CliAllFine(cli_cpu(c)) /\ CliAllFine(cli_config(c)) /\ CliAllFine(cli_quit(c))
<1>1. ASSUME NEW k \in 1 .. 2, c.cpu # CliNone
      PROVE  CliSound([c EXCEPT !.cpu = <<c.cpu[1], k>>, !.bus = <<c.cpu[1], k>>, !.disasm = <<c.cpu[1], k>>])
  <2> DEFINE q == <<c.cpu[1], k>>
  <2>1. q \in CliPairs /\ q[1] = c.cpu[1] /\ q # CliNone
    BY DEF CliSound, CliTypes, CliPairs, CliNone
  <2> HIDE DEF q
  <2>2. CliSound([c EXCEPT !.cpu = q, !.bus = q, !.disasm = q])
    BY <1>1, <2>1 DEF CliSound, CliTypes
  <2> QED BY <2>2 DEF q
<1>2. CliAllFine(cli_cpu(c))
  BY <1>1, CliDoneFine, CliWithFine DEF CliAllFine, cli_cpu
<1>3. CliSound([c EXCEPT !.assem = <<c.cpu[1], c.cpu[2]>>])
  BY DEF CliSound, CliTypes, CliPairs
<1>4. CliAllFine(cli_config(c))
  BY <1>3, CliDoneFine, CliWithFine DEF CliAllFine, cli_config
<1>5. CliSound([c EXCEPT !.quit = TRUE])
  BY Zenon, CliSmall
<1> QED BY <1>2, <1>4, <1>5, CliDoneFine DEF CliAllFine, cli_quit

LEMMA CliProjectFine == ASSUME NEW c, CliSound(c) PROVE CliAllFine(cli_project(c))
<1>1. ASSUME NEW o \in cli_create(c)
      PROVE  CliFine(CliDone(o.c)) /\ \A a \in CliAccess(o.c) : CliFine(CliDone(CliChanges(a, "machine")))
  <2>1. CliSound(o.c) BY CliCreateFine DEF CliAllFine, CliFine
  <2>2. ASSUME NEW a \in CliAccess(o.c) PROVE CliFine(CliDone(CliChanges(a, "machine")))
    <3>1. CliSound(a) BY <2>1, CliAccessSound
    <3>2. CliSound(CliChanges(a, "machine")) BY Zenon, <3>1, CliSmall
    <3> QED BY <3>2, CliDoneFine
  <2> QED BY <2>1, <2>2, CliDoneFine
<1> QED BY <1>1, CliDoneFine DEF CliAllFine, cli_project

LEMMA CliFitsFine ==
  ASSUME NEW c, CliSound(c) PROVE CliAllFine({CliDone(c)} \cup UNION {cli_reset(o.c) : o \in CliDevice(c)})
<1>1. ASSUME NEW o \in CliDevice(c) PROVE CliAllFine(cli_reset(o.c))
  <2>1. CliSound(o.c) BY CliPlainFine DEF CliAllFine, CliFine
  <2> QED BY <2>1, CliResetFine
<1> QED BY <1>1, CliDoneFine DEF CliAllFine

\* Commands that change the breakpoints.
LEMMA CliBpsFine ==
  ASSUME NEW c, CliSound(c)
  PROVE  /\ CliAllFine(cli_break(c)) /\ CliAllFine(cli_watch(c)) /\ CliAllFine(cli_delete(c)) /\ CliAllFine(cli_clear(c))
         /\ CliAllFine(cli_enable(c)) /\ CliAllFine(cli_disable(c)) /\ CliAllFine(cli_brktrap(c))
<1>1. c.bps \in CliBps /\ c.next \in Nat
  BY DEF CliSound, CliTypes
<1>2. PICK S \in SUBSET Nat : c.bps \in [S -> [kind : {"exec", "watch"}, on : BOOLEAN]]
  BY <1>1 DEF CliBps
<1>3. ASSUME NEW kind \in {"exec", "watch"} PROVE CliFine(CliDone(CliAdd(c, kind)))
  <2> DEFINE f == [b \in DOMAIN c.bps \cup {c.next} |-> IF b = c.next THEN [kind |-> kind, on |-> TRUE] ELSE c.bps[b]]
  <2>1. f \in [S \cup {c.next} -> [kind : {"exec", "watch"}, on : BOOLEAN]]
    BY <1>2
  <2>a. S \cup {c.next} \in SUBSET Nat
    BY <1>1
  <2> HIDE DEF f
  <2>2. f \in CliBps
    BY <2>a, <2>1 DEF CliBps
  <2>3. CliSound([c EXCEPT !.bps = f, !.next = c.next + 1])
    <3>1. c.next + 1 \in Nat
      BY <1>1
    <3>2. \A n \in Nat : CliSound([c EXCEPT !.bps = f, !.next = n])
      BY Zenon, <2>2, CliSmall
    <3> QED BY Zenon, <3>1, <3>2
  <2> QED BY <2>3, CliDoneFine DEF CliAdd, f
<1>4. ASSUME NEW T PROVE CliFine(CliDone([c EXCEPT !.bps = [b \in DOMAIN c.bps \ T |-> c.bps[b]]]))
  <2> DEFINE f == [b \in DOMAIN c.bps \ T |-> c.bps[b]]
  <2>1. f \in [S \ T -> [kind : {"exec", "watch"}, on : BOOLEAN]]
    BY <1>2
  <2>2. f \in CliBps
    BY <2>1 DEF CliBps
  <2> HIDE DEF f
  <2>3. CliSound([c EXCEPT !.bps = f])
    BY Zenon, <1>1, <2>2, CliSmall
  <2> QED BY <2>3, CliDoneFine DEF f
<1>5. ASSUME NEW on \in BOOLEAN PROVE CliAllFine(CliSetEnabled(c, on))
  <2>1. ASSUME NEW id \in DOMAIN c.bps PROVE CliFine(CliDone([c EXCEPT !.bps[id].on = on]))
    <3> DEFINE f == [c.bps EXCEPT ![id] = [c.bps[id] EXCEPT !.on = on]]
    <3>1. f \in [S -> [kind : {"exec", "watch"}, on : BOOLEAN]]
      BY <1>2
    <3>2. f \in CliBps
      BY <3>1 DEF CliBps
    <3>3. [c EXCEPT !.bps[id].on = on] = [c EXCEPT !.bps = f]
      OBVIOUS
    <3> HIDE DEF f
    <3>4. CliSound([c EXCEPT !.bps = f])
      BY Zenon, <1>1, <3>2, CliSmall
    <3> QED BY <3>3, <3>4, CliDoneFine
  <2> QED BY <2>1, CliDoneFine DEF CliAllFine, CliSetEnabled
<1>6. \A b \in BOOLEAN : CliFine(CliDone([c EXCEPT !.brkTrap = b]))
  BY Zenon, CliSmall, CliDoneFine
<1>a. CliAllFine(cli_break(c)) BY <1>3, CliDoneFine, CliWithFine DEF CliAllFine, cli_break
<1>b. CliAllFine(cli_watch(c)) BY <1>3, CliDoneFine, CliWithFine DEF CliAllFine, cli_watch
<1>c. CliAllFine(cli_delete(c)) BY <1>4, CliWithFine DEF CliAllFine, cli_delete
<1>d. CliAllFine(cli_clear(c)) BY <1>4, CliWithFine DEF CliAllFine, cli_clear
<1>e. CliAllFine(cli_enable(c)) /\ CliAllFine(cli_disable(c)) BY <1>5, CliWithFine DEF cli_enable, cli_disable
<1>f. CliAllFine(cli_brktrap(c)) BY <1>6, CliWithFine DEF CliAllFine, cli_brktrap
<1> QED BY <1>a, <1>b, <1>c, <1>d, <1>e, <1>f

\* Commands that run the machine; run and runto end with no interrupt of before.
LEMMA CliRunsFine ==
  ASSUME NEW c, CliSound(c)
  PROVE  /\ CliAllFine(cli_run(c)) /\ CliAllFine(cli_runto(c)) /\ CliAllFine(cli_until(c)) /\ CliAllFine(cli_step(c))
         /\ CliAllFine(cli_next(c)) /\ CliAllFine(cli_finish(c))
         /\ \A o \in cli_run(c) \cup cli_runto(c) : o.fresh
<1> DEFINE l == IF c.loaded THEN CliChanges(c, "machine") ELSE c
           r == CliResume(CliBegin(l))
           t == CliBegin(CliResume(c))
           u == CliResume(c)
<1>1. CliSound(l) BY Zenon, CliSmall
<1> HIDE DEF l
<1>2. CliSound(CliBegin(l)) /\ CliSound(u) /\ ~u.paused BY Zenon, <1>1, CliSmall
<1>3. CliSound(r) /\ ~r.paused /\ CliSound(t) BY Zenon, <1>2, CliSmall
<1>4. ~t.paused /\ ~t.intr /\ ~r.intr
  BY <1>1, <1>2 DEF CliBegin, CliResume, CliSound, CliTypes
<1> HIDE DEF r, t, u
<1>5. /\ CliAllFine(CliInterruptible(r)) /\ CliAllFine(CliInterruptible(t)) /\ CliAllFine(CliInterruptible(u))
      /\ CliAllFine(CliSteps(u)) /\ CliAllFine(CliSourceStep(u))
  BY <1>2, <1>3, <1>4, CliStepsFine
<1>6. CliFine(CliStop(t, "condition"))
  BY <1>3, CliStopFine DEF CliStops
<1>a. CliAllFine(cli_run(c)) BY <1>5, CliDoneFine, CliWithFine DEF CliAllFine, cli_run, r, l
<1>b. CliAllFine(cli_runto(c)) BY <1>5, <1>6, CliDoneFine, CliWithFine DEF CliAllFine, cli_runto, t
<1>c. CliAllFine(cli_until(c)) BY <1>5, CliDoneFine, CliWithFine DEF CliAllFine, cli_until, u
<1>d. CliAllFine(cli_step(c)) BY <1>5, CliWithFine DEF CliAllFine, cli_step, u
<1>e. CliAllFine(cli_next(c)) BY <1>5, CliDoneFine, CliWithFine DEF CliAllFine, cli_next, u
<1>f. CliAllFine(cli_finish(c)) BY <1>5, CliDoneFine, CliWithFine DEF CliAllFine, cli_finish, u
<1>7. \A o \in CliInterruptible(r) \cup CliInterruptible(t) : o.fresh
  BY <1>4 DEF CliInterruptible, CliSteps, CliStop
<1>8. CliDone(c).fresh /\ CliStop(t, "condition").fresh
  BY DEF CliDone, CliStop
<1>g. \A o \in cli_run(c) : o.fresh
  BY <1>7, <1>8 DEF cli_run, CliWith, r, l
<1>h. \A o \in cli_runto(c) : o.fresh
  BY <1>7, <1>8 DEF cli_runto, CliWith, t
<1> QED BY <1>a, <1>b, <1>c, <1>d, <1>e, <1>f, <1>g, <1>h

\* Tools that step the machine themselves and report no stop.
LEMMA CliToolsFine ==
  ASSUME NEW c, CliSound(c)
  PROVE  /\ CliAllFine(cli_profile(c)) /\ CliAllFine(cli_measure(c)) /\ CliAllFine(cli_sid(c)) /\ CliAllFine(cli_direct(c))
         /\ CliAllFine(cli_asm(c)) /\ CliAllFine(cli_load(c)) /\ CliAllFine(cli_load_vice(c)) /\ CliAllFine(cli_script(c))
         /\ CliAllFine(cli_log_show(c)) /\ CliAllFine(cli_recordaudio(c))
<1>1. CliSound(CliBegin(c)) /\ CliSound(CliChanges(c, "machine")) /\ CliSound(CliResume(c)) /\ CliSound(CliForgets(c, "debugger"))
  BY Zenon, CliSmall
<1>2. CliAllFine(cli_profile(c))
  BY <1>1, CliSilentFine, CliWithFine DEF cli_profile
<1>3. CliAllFine(cli_measure(c))
  <2>1. CliAllFine(CliSilently(CliSteps(CliChanges(c, "machine"))))
    BY <1>1, CliSilentFine
  <2>2. CliAllFine({CliDone(c)} \cup CliSilently(CliSteps(CliChanges(c, "machine"))))
    BY <2>1, CliDoneFine DEF CliAllFine
  <2> QED BY <2>2, CliWithFine DEF cli_measure
<1>4. ASSUME NEW s \in CliAccess(c)
      PROVE  CliFine(CliDone(CliChanges(s, "machine"))) /\ CliFine(CliDone([CliChanges(s, "machine") EXCEPT !.loaded = TRUE]))
  <2>1. CliSound(CliChanges(s, "machine")) BY Zenon, CliAccessSound, CliSmall
  <2>2. CliSound([CliChanges(s, "machine") EXCEPT !.loaded = TRUE]) BY Zenon, <2>1, CliSmall
  <2> QED BY <2>1, <2>2, CliDoneFine
<1>5. CliAllFine(cli_sid(c))
  <2>1. ASSUME NEW o \in CliSteps(CliResume(c)) PROVE CliFine(CliDone(CliBegin(o.c)))
    <3>1. CliSound(o.c) BY <1>1, CliSilentFine
    <3>2. CliSound(CliBegin(o.c)) BY Zenon, <3>1, CliSmall
    <3> QED BY <3>2, CliDoneFine
  <2>2. CliAllFine({CliDone(CliChanges(s, "machine")) : s \in CliAccess(c)} \cup {CliDone(c)}
                   \cup {CliDone(CliBegin(o.c)) : o \in CliSteps(CliResume(c))})
    BY <1>4, <2>1, CliDoneFine DEF CliAllFine
  <2> QED BY <2>2, CliWithFine DEF cli_sid
<1>6. CliAllFine(cli_direct(c))
  <2>1. ASSUME NEW s \in CliAccess(c), NEW o \in CliSteps(CliChanges(s, "machine")) PROVE CliFine(CliDone(o.c))
    <3>1. CliSound(CliChanges(s, "machine")) BY Zenon, CliAccessSound, CliSmall
    <3>2. CliSound(o.c) BY <3>1, CliSilentFine
    <3> QED BY <3>2, CliDoneFine
  <2>2. CliAllFine(CliSilently(UNION {CliSteps(CliChanges(s, "machine")) : s \in CliAccess(c)}))
    BY <2>1 DEF CliAllFine, CliSilently
  <2>3. CliAllFine({CliDone(c)} \cup CliSilently(UNION {CliSteps(CliChanges(s, "machine")) : s \in CliAccess(c)}))
    BY <2>2, CliDoneFine DEF CliAllFine
  <2> QED BY <2>3, CliWithFine DEF cli_direct
<1>7. c.cpu # CliNone => CliFine(CliDone([c EXCEPT !.asmMode = TRUE]))
  BY Zenon, CliSmall, CliDoneFine
<1>8. CliAllFine(CliWith(c, {CliDone([c EXCEPT !.asmMode = TRUE])}))
  BY <1>7, CliWithFine DEF CliAllFine
<1>9. CliAllFine(CliWrites(c)) /\ CliAllFine(CliWith(c, CliMay(c, "machine")))
  BY CliPlainFine
<1>10. CliAllFine(cli_asm(c))
  BY <1>8, <1>9 DEF CliAllFine, cli_asm
<1>11. CliAllFine(cli_load(c))
  BY <1>4, CliDoneFine, CliWithFine DEF CliAllFine, cli_load
<1>12. CliAllFine(cli_load_vice(c))
  BY <1>9 DEF CliAllFine, cli_load_vice
<1>13. CliAllFine(cli_script(c))
  BY <1>9, CliBpsFine DEF CliAllFine, cli_script
<1>14. CliAllFine(cli_log_show(c))
  BY <1>1, CliDoneFine, CliWithFine DEF CliAllFine, cli_log_show
<1>15. CliAllFine(cli_recordaudio(c))
  BY CliSilentFine, CliWithFine DEF cli_recordaudio
<1> QED BY <1>2, <1>3, <1>5, <1>6, <1>10, <1>11, <1>12, <1>13, <1>14, <1>15

\* Every other command is one of the plain ones.
LEMMA CliOthersFine ==
  ASSUME NEW c, CliSound(c)
  PROVE
    /\ CliAllFine(cli_help(c)) /\ CliAllFine(cli_list(c)) /\ CliAllFine(cli_log(c))
    /\ CliAllFine(cli_undoinfo(c)) /\ CliAllFine(cli_save_vice(c)) /\ CliAllFine(cli_info(c))
    /\ CliAllFine(cli_list_source(c)) /\ CliAllFine(cli_stack(c)) /\ CliAllFine(cli_frame(c))
    /\ CliAllFine(cli_gfx(c)) /\ CliAllFine(cli_screenshot(c)) /\ CliAllFine(cli_regs(c))
    /\ CliAllFine(cli_m(c)) /\ CliAllFine(cli_findnext(c)) /\ CliAllFine(cli_findprior(c))
    /\ CliAllFine(cli_disasm(c)) /\ CliAllFine(cli_dot_info(c)) /\ CliAllFine(cli_analyze(c))
    /\ CliAllFine(cli_map(c)) /\ CliAllFine(cli_iomap(c)) /\ CliAllFine(cli_raster(c))
    /\ CliAllFine(cli_devinfo(c)) /\ CliAllFine(cli_vars(c)) /\ CliAllFine(cli_devices(c))
    /\ CliAllFine(cli_serial(c)) /\ CliAllFine(cli_tape(c)) /\ CliAllFine(cli_disk(c))
    /\ CliAllFine(cli_type(c)) /\ CliAllFine(cli_key(c)) /\ CliAllFine(cli_joy(c)) /\ CliAllFine(cli_mouse(c))
    /\ CliAllFine(cli_intercept(c)) /\ CliAllFine(cli_hle(c)) /\ CliAllFine(cli_speed(c))
    /\ CliAllFine(cli_warp(c)) /\ CliAllFine(cli_personality(c)) /\ CliAllFine(cli_maplog(c))
    /\ CliAllFine(cli_dot_operation(c))
    /\ CliAllFine(cli_f(c)) /\ CliAllFine(cli_copy(c)) /\ CliAllFine(cli_swap(c))
    /\ CliAllFine(cli_save(c)) /\ CliAllFine(cli_backstep(c)) /\ CliAllFine(cli_print(c))
    /\ CliAllFine(cli_sym(c)) /\ CliAllFine(cli_setpc(c)) /\ CliAllFine(cli_search(c))
    /\ CliAllFine(cli_searcha(c)) /\ CliAllFine(cli_regwrite(c)) /\ CliAllFine(cli_trace(c))
    /\ CliAllFine(cli_snapshot(c)) /\ CliAllFine(cli_srcmap(c)) /\ CliAllFine(cli_heatmap(c))
    /\ CliAllFine(cli_load_debug_metadata(c))
    /\ CliAllFine(cli_cart(c)) /\ CliAllFine(cli_rom(c)) /\ CliAllFine(cli_eject(c))
<1>1. /\ CliAllFine(cli_help(c)) /\ CliAllFine(cli_list(c)) /\ CliAllFine(cli_log(c))
      /\ CliAllFine(cli_undoinfo(c)) /\ CliAllFine(cli_save_vice(c)) /\ CliAllFine(cli_info(c))
      /\ CliAllFine(cli_list_source(c)) /\ CliAllFine(cli_stack(c)) /\ CliAllFine(cli_frame(c))
      /\ CliAllFine(cli_gfx(c)) /\ CliAllFine(cli_screenshot(c)) /\ CliAllFine(cli_regs(c))
      /\ CliAllFine(cli_m(c)) /\ CliAllFine(cli_findnext(c)) /\ CliAllFine(cli_findprior(c))
      /\ CliAllFine(cli_disasm(c)) /\ CliAllFine(cli_dot_info(c)) /\ CliAllFine(cli_analyze(c))
      /\ CliAllFine(cli_map(c)) /\ CliAllFine(cli_iomap(c)) /\ CliAllFine(cli_raster(c))
      /\ CliAllFine(cli_devinfo(c)) /\ CliAllFine(cli_vars(c)) /\ CliAllFine(cli_devices(c))
  BY CliPlainFine DEF cli_help, cli_list, cli_log, cli_undoinfo, cli_save_vice, cli_info, cli_list_source,
         cli_stack, cli_frame, cli_gfx, cli_screenshot, cli_regs, cli_m, cli_findnext, cli_findprior,
         cli_disasm, cli_dot_info, cli_analyze, cli_map, cli_iomap, cli_raster, cli_devinfo, cli_vars,
         cli_devices
<1>2. /\ CliAllFine(cli_serial(c)) /\ CliAllFine(cli_tape(c)) /\ CliAllFine(cli_disk(c))
      /\ CliAllFine(cli_type(c)) /\ CliAllFine(cli_key(c)) /\ CliAllFine(cli_joy(c)) /\ CliAllFine(cli_mouse(c))
      /\ CliAllFine(cli_intercept(c)) /\ CliAllFine(cli_hle(c)) /\ CliAllFine(cli_speed(c))
      /\ CliAllFine(cli_warp(c)) /\ CliAllFine(cli_personality(c)) /\ CliAllFine(cli_maplog(c))
      /\ CliAllFine(cli_dot_operation(c))
  BY CliPlainFine DEF cli_serial, cli_tape, cli_disk, cli_type, cli_key, cli_joy, cli_mouse, cli_intercept,
         cli_hle, cli_speed, cli_warp, cli_personality, cli_maplog, cli_dot_operation
<1>3. /\ CliAllFine(cli_f(c)) /\ CliAllFine(cli_copy(c)) /\ CliAllFine(cli_swap(c))
  BY CliPlainFine DEF cli_f, cli_copy, cli_swap
<1>4. /\ CliAllFine(cli_save(c)) /\ CliAllFine(cli_backstep(c)) /\ CliAllFine(cli_print(c))
      /\ CliAllFine(cli_sym(c)) /\ CliAllFine(cli_setpc(c)) /\ CliAllFine(cli_search(c))
      /\ CliAllFine(cli_searcha(c)) /\ CliAllFine(cli_regwrite(c)) /\ CliAllFine(cli_trace(c))
      /\ CliAllFine(cli_snapshot(c)) /\ CliAllFine(cli_srcmap(c)) /\ CliAllFine(cli_heatmap(c))
      /\ CliAllFine(cli_load_debug_metadata(c))
  BY CliPlainFine DEF cli_save, cli_backstep, cli_print, cli_sym, cli_setpc, cli_search, cli_searcha,
         cli_regwrite, cli_trace, cli_snapshot, cli_srcmap, cli_heatmap, cli_load_debug_metadata, CliWrites
<1>5. /\ CliAllFine(cli_cart(c)) /\ CliAllFine(cli_rom(c)) /\ CliAllFine(cli_eject(c))
  BY CliFitsFine DEF cli_cart, cli_rom, cli_eject
<1> QED BY <1>1, <1>2, <1>3, <1>4, <1>5

LEMMA CliBranchesFine ==
  ASSUME NEW c, CliSound(c) PROVE \A i \in 1 .. 85 : CliAllFine(CliBranches(c)[i])
BY CliOthersFine, CliCreateFine, CliResetFine, CliProjectFine, CliCpuFine, CliBpsFine, CliRunsFine, CliToolsFine
   DEF CliBranches

LEMMA CliRunnersClear ==
  /\ CliServed \subseteq 1 .. 85
  /\ \A i \in CliServed : CliRunner(CliWords[i]) = "clears" => i \in {13, 14}
BY DEF CliServed, CliWords, CliRunner

CliInv ==
  /\ CliSound(cli)
  /\ CliInterruptIsFresh
  /\ cliRan.stop # "stale"

(***************************************************************************)
(* Whatever the commands in whatever order, the context is about one       *)
(* machine and CPU, run and runto are interrupted only by a Ctrl-C of      *)
(* their own time, no Ctrl-C ends two commands, and no stop is stale.      *)
(***************************************************************************)
THEOREM CliCorrect == CliSpec => []CliRight
<1>1. CliInit => CliInv
  <2>1. CliNone \in CliPairs /\ CliNone[1] = 0
    BY DEF CliNone, CliPairs
  <2> SUFFICES ASSUME CliInit PROVE CliInv
    OBVIOUS
  <2>2. CliSound(CliFresh)
    <3> HIDE DEF CliNone
    <3> QED BY <2>1, CliNoBps DEF CliSound, CliTypes, CliFresh
  <2> QED BY <2>2 DEF CliInit, CliInv, CliInterruptIsFresh
<1>2. CliInv /\ [CliNext]_cliVars => CliInv'
  <2> SUFFICES ASSUME CliInv, [CliNext]_cliVars PROVE CliInv'
    OBVIOUS
  <2>0. CliSound(cli)
    BY DEF CliInv
  <2>1. ASSUME NEW o, NEW runner, CliFine(o), runner = "clears" => o.fresh, CliReply(runner, o) PROVE CliInv'
    BY <2>1 DEF CliInv, CliFine, CliReply, CliInterruptIsFresh, CliStops
  <2>2. CASE handleNormalCommand
    <3>1. PICK runner \in {"clears", "keeps", "none"}, i \in CliServed :
            \E o \in CliBranches(cli)[i] : CliRunner(CliWords[i]) = runner /\ CliReply(runner, o)
      BY <2>2 DEF handleNormalCommand
    <3>2. PICK o \in CliBranches(cli)[i] : CliRunner(CliWords[i]) = runner /\ CliReply(runner, o)
      BY <3>1
    <3>3. CliFine(o)
      BY <2>0, CliBranchesFine, CliRunnersClear DEF CliAllFine
    <3>4. CliBranches(cli)[13] = cli_runto(cli) /\ CliBranches(cli)[14] = cli_run(cli)
      BY DEF CliBranches
    <3>5. runner = "clears" => o.fresh
      BY <2>0, <3>2, <3>4, CliRunnersClear, CliRunsFine
    <3> QED BY <2>1, <3>2, <3>3, <3>5
  <2>3. CASE CliDirect
    BY <2>0, <2>1, <2>3, CliToolsFine DEF CliDirect, CliAllFine
  <2>4. CASE handleAssemblyLine
    <3>1. CliFine(CliDone([cli EXCEPT !.asmMode = FALSE]))
      BY Zenon, <2>0, CliSmall, CliDoneFine
    <3> QED BY <2>0, <2>1, <2>4, <3>1, CliPlainFine DEF handleAssemblyLine, CliAllFine
  <2>5. CASE CliInterrupt
    <3>1. CliSound([cli EXCEPT !.intr = TRUE])
      BY Zenon, <2>0, CliSmall
    <3> QED BY <2>5, <3>1 DEF CliInterrupt, CliInv, CliInterruptIsFresh
  <2>6. CASE UNCHANGED cliVars
    BY <2>6 DEF CliInv, cliVars, CliInterruptIsFresh
  <2> QED BY <2>2, <2>3, <2>4, <2>5, <2>6 DEF CliNext
<1>3. CliInv => CliRight
  BY DEF CliInv, CliRight, CliContextAgrees, CliStopsAreReal, CliSound
<1> QED BY <1>1, <1>2, <1>3, PTL DEF CliSpec
-----------------------------------------------------------------------------
(***************************************************************************)
(* The window's machine: every outcome of a handler keeps the pointers on  *)
(* one machine, and a pause is one that a breakpoint, a watch or a BRK     *)
(* made.                                                                   *)
(***************************************************************************)
FrameTypes ==
  [machine : Nat, cpu : Nat, dbg : Nat, panes : Nat, audio : Nat, running : BOOLEAN,
   by : {"none", "run", "autostart"}, paused : BOOLEAN, hit : BOOLEAN, bps : BOOLEAN, brkTrap : BOOLEAN,
   altered : BOOLEAN]

FrameSound(f) ==
  /\ f \in FrameTypes
  /\ f.cpu = f.machine /\ f.dbg = f.machine /\ f.panes = f.machine /\ f.audio \in {0, f.machine}
  /\ f.paused => f.hit

FrameFine(o) == FrameSound(o.f) /\ (o.why = "breakpoint" => o.f.hit)
FrameAllFine(S) == \A o \in S : FrameFine(o)

LEMMA FrameSmall ==
  ASSUME NEW f, FrameSound(f)
  PROVE  /\ FrameSound([f EXCEPT !.paused = FALSE])
         /\ FrameSound(FramePause(f)) /\ FramePause(f).hit /\ FrameSound(FrameAlters(f)) /\ FrameSound(FrameRefresh(f))
         /\ \A b \in BOOLEAN : FrameSound([f EXCEPT !.running = b]) /\ FrameSound([f EXCEPT !.bps = b])
                               /\ FrameSound([f EXCEPT !.brkTrap = b])
         /\ FrameSound([f EXCEPT !.running = FALSE, !.paused = FALSE])
         /\ FrameSound([f EXCEPT !.running = FALSE, !.altered = TRUE])
         /\ FrameSound([f EXCEPT !.running = TRUE, !.by = "autostart"])
         /\ FrameSound([f EXCEPT !.running = TRUE, !.by = "run", !.hit = FALSE, !.paused = FALSE])
BY Zenon DEF FrameSound, FrameTypes, FramePause, FrameAlters, FrameRefresh

LEMMA FrameDoneFine == ASSUME NEW f, FrameSound(f) PROVE FrameFine(FrameDone(f))
BY DEF FrameFine, FrameDone

LEMMA FrameWithFine ==
  ASSUME NEW f, FrameSound(f), NEW S, FrameAllFine(S) PROVE FrameAllFine(FrameWith(f, S))
BY FrameDoneFine DEF FrameAllFine, FrameWith

LEMMA FrameAccessFine ==
  ASSUME NEW f, FrameSound(f), NEW a \in FrameAccess(f) PROVE FrameSound(a) /\ FrameSound(FrameAlters(a))
<1>1. FrameSound(a) BY Zenon, FrameSmall DEF FrameAccess
<1> QED BY Zenon, <1>1, FrameSmall

LEMMA FrameStepsFine == ASSUME NEW f, FrameSound(f) PROVE FrameAllFine(FrameSteps(f))
<1>1. CASE f.paused
  <2>1. FrameFine(FrameStopped(f, "breakpoint"))
    BY <1>1 DEF FrameFine, FrameStopped, FrameSound
  <2> QED BY <1>1, <2>1 DEF FrameSteps, FrameAllFine
<1>2. CASE ~f.paused
  <2>1. FrameFine(FrameStopped(FramePause(f), "breakpoint"))
    BY Zenon, FrameSmall DEF FrameFine, FrameStopped
  <2> QED BY <1>2, <2>1, FrameDoneFine DEF FrameSteps, FrameAllFine
<1> QED BY <1>1, <1>2

\* Several steps by a tool, which reports nothing.
LEMMA FrameToolFine ==
  ASSUME NEW f, FrameSound(f) PROVE FrameAllFine({FrameDone(o.f) : o \in FrameSteps(f)})
<1>1. \A o \in FrameSteps(f) : FrameSound(o.f) BY FrameStepsFine DEF FrameAllFine, FrameFine
<1> QED BY <1>1, FrameDoneFine DEF FrameAllFine

LEMMA FramePlainFine ==
  ASSUME NEW f, FrameSound(f)
  PROVE  /\ FrameAllFine({FrameDone(f)}) /\ FrameAllFine(FrameWrites(f)) /\ FrameAllFine(FrameFits(f))
         /\ FrameAllFine(FrameWith(f, {FrameDone(FrameAlters(f))}))
         /\ FrameAllFine(FrameWith(f, {FrameDone(f), FrameDone(FrameAlters(f))}))
         /\ FrameAllFine(OnSearchMem(f))
<1>1. FrameFine(FrameDone(f)) /\ FrameFine(FrameDone(FrameAlters(f)))
  BY Zenon, FrameSmall, FrameDoneFine
<1>2. \A a \in FrameAccess(f) : FrameFine(FrameDone(a)) /\ FrameFine(FrameDone(FrameAlters(a)))
  BY FrameAccessFine, FrameDoneFine
<1>3. FrameAllFine({FrameDone(f)} \cup {FrameDone(FrameAlters(a)) : a \in FrameAccess(f)})
  BY <1>1, <1>2 DEF FrameAllFine
<1>4. FrameAllFine({FrameDone(f), FrameDone(FrameAlters(f))}) /\ FrameAllFine({FrameDone(FrameAlters(f))})
  BY <1>1 DEF FrameAllFine
<1>5. FrameAllFine({FrameDone(a) : a \in FrameAccess(f)})
  BY <1>2 DEF FrameAllFine
<1>6. FrameAllFine({FrameDone(f)})
  BY <1>1 DEF FrameAllFine
<1> QED BY <1>3, <1>4, <1>5, <1>6, FrameWithFine DEF FrameWrites, FrameFits, OnSearchMem

LEMMA FrameLoadFine == ASSUME NEW f, FrameSound(f) PROVE FrameAllFine(Frame_loadMachineById(f))
<1>1. CASE f.machine = MaxFrameMachines
  BY <1>1, FrameDoneFine DEF FrameAllFine, Frame_loadMachineById
<1>2. CASE f.machine # MaxFrameMachines
  <2> DEFINE m == f.machine + 1
             n(a) == [f EXCEPT !.machine = m, !.cpu = m, !.dbg = m, !.panes = m, !.audio = a,
                               !.paused = FALSE, !.bps = FALSE, !.brkTrap = TRUE, !.altered = FALSE]
  <2>1. m \in Nat /\ 0 \in Nat
    BY DEF FrameSound, FrameTypes
  <2> HIDE DEF m
  <2>2. \A a \in {0, m} : FrameFine(FrameDone(n(a)))
    <3>1. ASSUME NEW a \in {0, m} PROVE FrameSound(n(a))
      <4>1. a \in Nat
        BY <2>1
      <4>2. /\ n(a) \in FrameTypes /\ n(a).machine = m /\ n(a).cpu = m /\ n(a).dbg = m /\ n(a).panes = m
            /\ n(a).audio = a /\ ~n(a).paused
        BY <2>1, <4>1 DEF FrameSound, FrameTypes
      <4> HIDE DEF n
      <4> QED BY <4>2 DEF FrameSound
    <3> HIDE DEF n
    <3> QED BY <3>1, FrameDoneFine
  <2> QED BY <1>2, <2>2 DEF FrameAllFine, Frame_loadMachineById, m
<1> QED BY <1>1, <1>2

\* What runs the machine, and what stops it.
LEMMA FrameRunsFine ==
  ASSUME NEW f, FrameSound(f)
  PROVE  /\ FrameAllFine(OnRun(f)) /\ FrameAllFine(OnPause(f)) /\ FrameAllFine(OnReset(f)) /\ FrameAllFine(OnResetToMonitor(f))
         /\ FrameAllFine(FrameLaunch(f)) /\ FrameAllFine(OnLoadImage(f)) /\ FrameAllFine(FrameDoStep(f))
<1>1. FrameFine(FrameDone([f EXCEPT !.running = TRUE, !.by = "run", !.hit = FALSE, !.paused = FALSE]))
      /\ FrameFine(FrameDone([f EXCEPT !.running = FALSE]))
      /\ FrameFine(FrameDone([f EXCEPT !.running = FALSE, !.paused = FALSE]))
  BY Zenon, FrameSmall, FrameDoneFine
<1>2. FrameAllFine(OnRun(f))
  BY <1>1 DEF FrameAllFine, OnRun
<1>3. FrameAllFine(OnPause(f))
  BY <1>1 DEF FrameAllFine, OnPause, FrameRefreshAfterStop, FrameRefresh
<1>4. FrameAllFine(OnReset(f))
  BY <1>1, FrameWithFine DEF FrameAllFine, OnReset
<1>5. FrameAllFine(OnResetToMonitor(f))
  <2>1. FrameSound([f EXCEPT !.running = FALSE, !.paused = FALSE])
    BY Zenon, FrameSmall
  <2>2. \A o \in FrameSteps([f EXCEPT !.running = FALSE, !.paused = FALSE]) : FrameFine(FrameDone(FrameAlters(o.f)))
    BY Zenon, <2>1, FrameStepsFine, FrameSmall, FrameDoneFine DEF FrameAllFine, FrameFine
  <2> QED BY <2>2, FrameWithFine DEF FrameAllFine, OnResetToMonitor
<1>6. FrameAllFine(FrameLaunch(f))
  <2>1. ASSUME NEW g, FrameSound(g)
        PROVE  FrameAllFine(FrameWith(g, {FrameDone([a EXCEPT !.running = FALSE]) :
                                             a \in FrameAccess(g) \cup FrameAccess(FrameAlters([g EXCEPT !.paused = FALSE]))}
                               \cup {FrameDone([FrameAlters(g) EXCEPT !.running = TRUE, !.by = "run", !.hit = FALSE,
                                                                     !.paused = FALSE])}))
    <3>1. FrameSound([FrameAlters(g) EXCEPT !.running = TRUE, !.by = "run", !.hit = FALSE, !.paused = FALSE])
      BY Zenon, <2>1, FrameSmall
    <3>2. FrameSound(FrameAlters([g EXCEPT !.paused = FALSE])) BY Zenon, <2>1, FrameSmall
    <3>3. \A a \in FrameAccess(g) \cup FrameAccess(FrameAlters([g EXCEPT !.paused = FALSE])) :
             FrameFine(FrameDone([a EXCEPT !.running = FALSE]))
      BY Zenon, <2>1, <3>2, FrameAccessFine, FrameSmall, FrameDoneFine
    <3>4. FrameFine(FrameDone([FrameAlters(g) EXCEPT !.running = TRUE, !.by = "run", !.hit = FALSE, !.paused = FALSE]))
      BY Zenon, <3>1, FrameDoneFine
    <3> QED BY Zenon, <2>1, <3>3, <3>4, FrameWithFine DEF FrameAllFine
  <2>2. \A g \in {f} \cup {o.f : o \in Frame_loadMachineById(f)} : FrameSound(g)
    BY Zenon, FrameLoadFine DEF FrameAllFine, FrameFine
  <2> QED BY Zenon, <2>1, <2>2, FrameDoneFine DEF FrameAllFine, FrameLaunch
<1>7. FrameAllFine(OnLoadImage(f))
  <2>1. ASSUME NEW a \in FrameAccess(f)
        PROVE  FrameFine(FrameDone([FrameAlters(a) EXCEPT !.running = TRUE, !.by = "autostart"]))
    BY Zenon, FrameAccessFine, FrameSmall, FrameDoneFine
  <2>2. FrameAllFine(FrameWith(f, {FrameDone([FrameAlters(a) EXCEPT !.running = TRUE, !.by = "autostart"]) : a \in FrameAccess(f)}))
    BY Zenon, <2>1, FrameWithFine DEF FrameAllFine
  <2> QED BY Zenon, <2>2, FramePlainFine DEF FrameAllFine, OnLoadImage
<1>8. FrameAllFine(FrameDoStep(f))
  <2>1. FrameSound(FrameAlters([f EXCEPT !.paused = FALSE]))
    BY Zenon, FrameSmall
  <2>2. FrameAllFine(FrameWith(f, {FrameDone(o.f) : o \in FrameSteps(FrameAlters([f EXCEPT !.paused = FALSE]))}))
    BY Zenon, <2>1, FrameToolFine, FrameWithFine
  <2> QED BY Zenon, <2>2, FrameDoneFine DEF FrameAllFine, FrameDoStep
<1> QED BY <1>2, <1>3, <1>4, <1>5, <1>6, <1>7, <1>8

LEMMA FrameToolsFine ==
  ASSUME NEW f, FrameSound(f)
  PROVE  FrameAllFine(FrameToolProfile(f)) /\ FrameAllFine(FrameToolMeasure(f)) /\ FrameAllFine(FrameToolRunto(f))
<1>1. FrameSound(FrameAlters(f)) /\ FrameSound([f EXCEPT !.paused = FALSE])
  BY Zenon, FrameSmall
<1> QED BY Zenon, <1>1, FrameToolFine, FrameWithFine DEF FrameToolProfile, FrameToolMeasure, FrameToolRunto

LEMMA FrameHandlersFine == ASSUME NEW f, FrameSound(f) PROVE FrameAllFine(FrameHandlers(f))
<1>1. /\ FrameAllFine(OnLoadMachine(f)) /\ FrameAllFine(OnLoadMachineDirect(f))
  BY FrameLoadFine, FrameDoneFine DEF FrameAllFine, OnLoadMachine, OnLoadMachineDirect
<1>2. /\ FrameAllFine(OnBackStep(f)) /\ FrameAllFine(OnSpeed(f)) /\ FrameAllFine(OnSpeedUpdateUI(f))
      /\ FrameAllFine(OnFillMem(f)) /\ FrameAllFine(OnCopyMem(f)) /\ FrameAllFine(OnSwapMem(f))
      /\ FrameAllFine(OnAssemble(f)) /\ FrameAllFine(OnGotoAddr(f))
  BY FramePlainFine DEF OnBackStep, OnSpeed, OnSpeedUpdateUI, OnFillMem, OnCopyMem, OnSwapMem, OnAssemble, OnGotoAddr
<1>3. /\ FrameAllFine(OnSearchMem(f)) /\ FrameAllFine(OnFindNext(f)) /\ FrameAllFine(OnFindPrior(f))
      /\ FrameAllFine(OnLoadImageDirect(f)) /\ FrameAllFine(OnTypeTextDirect(f))
      /\ FrameAllFine(OnAttachCart(f)) /\ FrameAllFine(OnEjectCart(f)) /\ FrameAllFine(OnRomSockets(f))
  BY FramePlainFine DEF OnSearchMem, OnFindNext, OnFindPrior, OnLoadImageDirect, OnTypeTextDirect, OnAttachCart, OnEjectCart, OnRomSockets
<1>4. /\ FrameAllFine(OnLoadSourceMap(f)) /\ FrameAllFine(OnOpenSource(f)) /\ FrameAllFine(FrameToolDevinfo(f))
      /\ FrameAllFine(FrameToolHeatmap(f)) /\ FrameAllFine(FrameToolRaster(f))
  BY FramePlainFine DEF OnLoadSourceMap, OnOpenSource, FrameToolDevinfo, FrameToolHeatmap, FrameToolRaster, updateSourceView, FrameRefresh
<1>z. QED BY <1>1, <1>2, <1>3, <1>4, FrameRunsFine, FrameToolsFine DEF FrameAllFine, FrameHandlers

LEMMA FrameTimerFine == ASSUME NEW f, FrameSound(f) PROVE FrameAllFine(OnTimer(f))
<1>1. FrameFine(FrameDone(FrameRefresh(f)))
  BY Zenon, FrameSmall, FrameDoneFine
<1>2. ASSUME NEW o \in FrameSteps(f)
      PROVE  FrameFine(IF o.why = "breakpoint" THEN FrameStopped([o.f EXCEPT !.running = FALSE, !.altered = TRUE], "breakpoint")
                       ELSE FrameDone(FrameAlters(o.f)))
  <2>1. FrameFine(o)
    BY FrameStepsFine DEF FrameAllFine
  <2>2. FrameSound(o.f) /\ FrameSound([o.f EXCEPT !.running = FALSE, !.altered = TRUE]) /\ FrameSound(FrameAlters(o.f))
    BY Zenon, <2>1, FrameSmall DEF FrameFine
  <2>3. [o.f EXCEPT !.running = FALSE, !.altered = TRUE].hit = o.f.hit
    BY <2>2 DEF FrameSound, FrameTypes
  <2>4. CASE o.why = "breakpoint"
    BY Zenon, <2>1, <2>2, <2>3, <2>4 DEF FrameFine, FrameStopped
  <2>5. CASE o.why # "breakpoint"
    BY <2>2, <2>5, FrameDoneFine
  <2> QED BY <2>4, <2>5
<1>3. FrameFine(FrameStopped([FrameAlters(f) EXCEPT !.running = FALSE], "program ended"))
  <2>1. FrameSound([FrameAlters(f) EXCEPT !.running = FALSE])
    BY Zenon, FrameSmall
  <2> QED BY <2>1 DEF FrameFine, FrameStopped
<1> QED BY Zenon, <1>1, <1>2, <1>3 DEF FrameAllFine, OnTimer

FrameInv == FrameSound(frame) /\ FrameStopsAreReal

LEMMA FrameCorrect == FrameSpec => [](FramePanesAgree /\ FrameStopsAreReal)
<1>1. FrameInit => FrameInv
  BY DEF FrameInit, FrameInv, FrameSound, FrameTypes, FrameStopsAreReal
<1>2. FrameInv /\ [FrameNext]_frameVars => FrameInv'
  <2> SUFFICES ASSUME FrameInv, [FrameNext]_frameVars PROVE FrameInv'
    OBVIOUS
  <2>0. FrameSound(frame)
    BY DEF FrameInv
  <2>1. ASSUME NEW o, FrameFine(o), FrameReply(o) PROVE FrameInv'
    BY <2>1 DEF FrameInv, FrameFine, FrameReply, FrameStopsAreReal
  <2>2. CASE FrameCommand
    BY <2>0, <2>1, <2>2, FrameHandlersFine DEF FrameCommand, FrameAllFine
  <2>3. CASE FrameTimer
    BY <2>0, <2>1, <2>3, FrameTimerFine DEF FrameTimer, FrameAllFine
  <2>4. CASE FrameBreakpoints
    <3>1. frame.bps \in BOOLEAN
      BY <2>0 DEF FrameSound, FrameTypes
    <3>2. frame' = [frame EXCEPT !.bps = ~frame.bps]
      BY <2>4 DEF FrameBreakpoints
    <3>3. FrameSound(frame')
      BY Zenon, <2>0, <3>1, <3>2, FrameSmall
    <3> QED BY <2>4, <3>3 DEF FrameInv, FrameStopsAreReal, FrameBreakpoints
  <2>6. CASE FrameBreakOnBrk
    <3>1. frame.brkTrap \in BOOLEAN
      BY <2>0 DEF FrameSound, FrameTypes
    <3>2. frame' = [frame EXCEPT !.brkTrap = ~frame.brkTrap]
      BY <2>6 DEF FrameBreakOnBrk
    <3>3. FrameSound(frame')
      BY Zenon, <2>0, <3>1, <3>2, FrameSmall
    <3> QED BY <2>6, <3>3 DEF FrameInv, FrameStopsAreReal, FrameBreakOnBrk
  <2>5. CASE UNCHANGED frameVars
    BY <2>5 DEF FrameInv, FrameStopsAreReal, frameVars
  <2> QED BY <2>2, <2>3, <2>4, <2>5, <2>6 DEF FrameNext
<1>3. FrameInv => FramePanesAgree /\ FrameStopsAreReal
  BY DEF FrameInv, FrameSound, FramePanesAgree
<1> QED BY <1>1, <1>2, <1>3, PTL DEF FrameSpec
-----------------------------------------------------------------------------
(***************************************************************************)
(* The window's keyboard and controllers.  What was sent to a port is what *)
(* the port shows, so that a port which is no longer assigned is up.       *)
(***************************************************************************)
GuiKeyTypes ==
  [handler : Nat, captured : BOOLEAN, pending : BOOLEAN, host : SUBSET GuiHostKeys,
   seen : SUBSET (GuiModifiers \cup GuiHostKeys \cup {"dedicated"})]
GuiMachineTypes == [id : Nat, positional : BOOLEAN]

GuiKeysSound(k, id) ==
  /\ k \in GuiKeyTypes
  /\ k.handler \in {0, id}
  /\ ~k.captured => k.handler = 0 /\ k.seen \cap GuiModifiers = {}

LEMMA GuiCaptureSound ==
  ASSUME guiMachine \in GuiMachineTypes, NEW k, GuiKeysSound(k, guiMachine.id), NEW active \in BOOLEAN
  PROVE  GuiKeysSound(GuiCapture(k, active), guiMachine.id)
BY DEF GuiKeysSound, GuiKeyTypes, GuiMachineTypes, GuiCapture

\* Only with a handler, and so in a capture, does the machine see a key.
LEMMA FilterSound ==
  ASSUME guiMachine \in GuiMachineTypes, NEW k, GuiKeysSound(k, guiMachine.id),
         NEW key \in GuiHostKeys, NEW down \in BOOLEAN
  PROVE  GuiKeysSound(FilterEvent(k, key, down), guiMachine.id)
<1> DEFINE names == GuiModifiers \cup GuiHostKeys \cup {"dedicated"}
<1>1. ASSUME NEW e, NEW p \in BOOLEAN, NEW x \in SUBSET names, k.handler # 0, e = [k EXCEPT !.pending = p, !.seen = x]
      PROVE  GuiKeysSound(e, guiMachine.id)
  <2> HIDE DEF names
  <2> QED BY <1>1 DEF GuiKeysSound, GuiKeyTypes, names
<1>2. ASSUME NEW x \in SUBSET names, NEW n \in names, NEW d \in BOOLEAN PROVE GuiSend(x, n, d) \in SUBSET names
  BY DEF GuiSend
<1>3. k.seen \in SUBSET names /\ k.pending \in BOOLEAN /\ key \in names /\ "left_shift" \in names /\ "dedicated" \in names
  BY DEF GuiKeysSound, GuiKeyTypes, GuiHostKeys, GuiModifiers
<1>4. ASSUME NEW x \in SUBSET names PROVE [k EXCEPT !.seen = x] = [k EXCEPT !.pending = k.pending, !.seen = x]
  BY DEF GuiKeysSound, GuiKeyTypes
<1>5. [k EXCEPT !.pending = TRUE] = [k EXCEPT !.pending = TRUE, !.seen = k.seen]
  BY DEF GuiKeysSound, GuiKeyTypes
<1> HIDE DEF names
<1>a. k.handler # 0 => GuiKeysSound(FilterPositional(k, key, down), guiMachine.id)
  BY Zenon, <1>1, <1>2, <1>3, <1>4 DEF FilterPositional
<1>b. k.handler # 0 => GuiKeysSound(FilterShift(k, down), guiMachine.id)
  BY Zenon, <1>1, <1>2, <1>3, <1>5 DEF FilterShift
<1>c. k.handler # 0 => GuiKeysSound(FilterDedicated(k, key, down), guiMachine.id)
  BY Zenon, <1>1, <1>2, <1>3 DEF FilterDedicated
<1>d. k.handler # 0 => GuiKeysSound(FilterKey(k, key, down), guiMachine.id)
  BY Zenon, <1>1, <1>2, <1>3 DEF FilterKey
<1> QED BY <1>a, <1>b, <1>c, <1>d DEF FilterEvent

\* What is sent: a set of ports with the button of each.
GuiSentTypes == UNION {[S -> {0, 1}] : S \in SUBSET GuiPorts}
GuiHeldTypes == UNION {[S -> {0, 1}] : S \in SUBSET GuiPadSlots}
GuiPadTypes ==
  [sent : GuiSentTypes, held : GuiHeldTypes, port : [GuiPorts -> {0, 1}], swap : BOOLEAN, polled : BOOLEAN]

GuiShown(sent) == [p \in GuiPorts |-> IF p \in DOMAIN sent THEN sent[p] ELSE 0]

GuiPadsSound(pads, id) ==
  /\ pads \in GuiPadTypes
  /\ pads.port = GuiShown(pads.sent)
  /\ pads.polled => pads.port = GuiShown(GuiWanted(pads))
  /\ id = 0 => pads.sent = GuiNoPads

LEMMA GuiNoPadsShown == GuiNoPads \in GuiSentTypes /\ GuiShown(GuiNoPads) = [p \in GuiPorts |-> 0]
<1>1. GuiNoPads \in [{} -> {0, 1}]
  BY DEF GuiNoPads
<1> QED BY <1>1 DEF GuiSentTypes, GuiShown, GuiNoPads

LEMMA GuiWantedTypes ==
  ASSUME NEW pads
  PROVE  GuiWanted(pads) \in GuiSentTypes /\ GuiShown(GuiWanted(pads)) \in [GuiPorts -> {0, 1}]
<1> DEFINE assigned == {p \in GuiPorts : \E s \in DOMAIN pads.held : p \in hostPadPort(s, pads.swap)}
<1>1. assigned \in SUBSET GuiPorts /\ GuiWanted(pads) \in [assigned -> {0, 1}]
  BY DEF GuiWanted
<1> HIDE DEF assigned
<1> QED BY <1>1 DEF GuiSentTypes, GuiShown

LEMMA GuiPollSound ==
  ASSUME NEW pads, NEW id, id # 0, GuiPadsSound(pads, id) PROVE GuiPadsSound(pollHostPads(pads), id)
<1> DEFINE w == GuiWanted(pads)
           lost == {p \in DOMAIN pads.sent \ DOMAIN w : pads.sent[p] = 1}
           q == [p \in GuiPorts |-> IF p \in DOMAIN w THEN w[p] ELSE IF p \in lost THEN 0 ELSE pads.port[p]]
           e == [pads EXCEPT !.polled = TRUE, !.sent = w, !.port = q]
<1>1. w \in GuiSentTypes /\ GuiShown(w) \in [GuiPorts -> {0, 1}]
  BY GuiWantedTypes
<1>2. PICK S \in SUBSET GuiPorts : pads.sent \in [S -> {0, 1}]
  BY DEF GuiPadsSound, GuiPadTypes, GuiSentTypes
<1>3. ASSUME NEW p \in GuiPorts, p \notin DOMAIN w, p \notin lost PROVE pads.port[p] = 0
  BY <1>2, <1>3 DEF GuiPadsSound, GuiShown
<1> HIDE DEF w
<1>4. q = GuiShown(w)
  BY <1>3 DEF GuiShown
<1> HIDE DEF q, lost
<1>5. e \in GuiPadTypes /\ e.sent = w /\ e.port = q /\ e.held = pads.held /\ e.swap = pads.swap
  BY <1>1, <1>4 DEF GuiPadsSound, GuiPadTypes
<1>6. GuiWanted(e) = w
  BY <1>5 DEF GuiWanted, w
<1>7. e = pollHostPads(pads)
  BY DEF pollHostPads, w, lost, q
<1> HIDE DEF e
<1> QED BY <1>4, <1>5, <1>6, <1>7 DEF GuiPadsSound

LEMMA GuiReleaseSound ==
  ASSUME NEW pads, NEW id, GuiPadsSound(pads, id), NEW swap \in BOOLEAN, NEW r,
         r = IF id = 0 THEN [pads EXCEPT !.sent = GuiNoPads] ELSE releaseHostPads(pads)
  PROVE  GuiPadsSound([r EXCEPT !.swap = swap, !.polled = FALSE], id)
<1> DEFINE q == [p \in GuiPorts |-> IF p \in DOMAIN pads.sent /\ pads.sent[p] = 1 THEN 0 ELSE pads.port[p]]
<1>1. PICK S \in SUBSET GuiPorts : pads.sent \in [S -> {0, 1}]
  BY DEF GuiPadsSound, GuiPadTypes, GuiSentTypes
<1>2. q = [p \in GuiPorts |-> 0]
  BY <1>1 DEF GuiPadsSound, GuiShown
<1>3. id = 0 => pads.port = [p \in GuiPorts |-> 0]
  BY GuiNoPadsShown DEF GuiPadsSound
<1>4. r = [pads EXCEPT !.sent = GuiNoPads, !.port = q] \/ (id = 0 /\ r = [pads EXCEPT !.sent = GuiNoPads])
  BY DEF releaseHostPads
<1> HIDE DEF q
<1> DEFINE up == [p \in GuiPorts |-> 0]
<1>u. up \in [GuiPorts -> {0, 1}] /\ q = up /\ (id = 0 => pads.port = up)
  BY <1>2, <1>3
<1> HIDE DEF up
<1>5. r \in GuiPadTypes /\ r.sent = GuiNoPads /\ r.port = up
  <2>1. CASE r = [pads EXCEPT !.sent = GuiNoPads, !.port = q]
    BY <1>u, <2>1, GuiNoPadsShown DEF GuiPadsSound, GuiPadTypes
  <2>2. CASE id = 0 /\ r = [pads EXCEPT !.sent = GuiNoPads]
    BY <1>u, <2>2, GuiNoPadsShown DEF GuiPadsSound, GuiPadTypes
  <2> QED BY <1>4, <2>1, <2>2
<1>6. GuiShown(GuiNoPads) = up
  BY GuiNoPadsShown DEF up
<1> QED BY <1>5, <1>6 DEF GuiPadsSound, GuiPadTypes

LEMMA GuiChangeSound ==
  ASSUME NEW pads, NEW id, GuiPadsSound(pads, id), NEW h \in GuiHeldTypes
  PROVE  GuiPadsSound([pads EXCEPT !.polled = FALSE, !.held = h], id)
BY DEF GuiPadsSound, GuiPadTypes

GuiInputInv ==
  /\ guiMachine \in GuiMachineTypes
  /\ GuiKeysSound(guiKeys, guiMachine.id)
  /\ GuiPadsSound(guiPads, guiMachine.id)

LEMMA GuiInputCorrect == GuiInputSpec => [](GuiKeysReachMachine /\ GuiModifiersLetGo /\ GuiPadsFollow)
<1>1. GuiInputInit => GuiInputInv
  <2> SUFFICES ASSUME GuiInputInit PROVE GuiInputInv
    OBVIOUS
  <2>1. GuiKeysSound(guiKeys, guiMachine.id) /\ guiMachine \in GuiMachineTypes
    BY DEF GuiInputInit, GuiKeysSound, GuiKeyTypes, GuiMachineTypes
  <2>2. [s \in {} |-> 0] \in GuiHeldTypes
    <3>1. [s \in {} |-> 0] \in [{} -> {0, 1}]
      OBVIOUS
    <3> QED BY <3>1 DEF GuiHeldTypes
  <2> DEFINE none == [s \in {} |-> 0]
             up == [p \in GuiPorts |-> 0]
  <2>3. none \in GuiHeldTypes /\ up \in [GuiPorts -> {0, 1}] /\ GuiShown(GuiNoPads) = up
    BY <2>2, GuiNoPadsShown
  <2>4. guiPads = [sent |-> GuiNoPads, held |-> none, port |-> up, swap |-> FALSE, polled |-> FALSE]
    BY DEF GuiInputInit
  <2> HIDE DEF none, up
  <2>5. GuiPadsSound(guiPads, guiMachine.id)
    BY <2>3, <2>4, GuiNoPadsShown DEF GuiPadsSound, GuiPadTypes
  <2> QED BY <2>1, <2>5 DEF GuiInputInv
<1>2. GuiInputInv /\ [GuiInputNext]_guiInputVars => GuiInputInv'
  <2> SUFFICES ASSUME GuiInputInv, [GuiInputNext]_guiInputVars PROVE GuiInputInv'
    OBVIOUS
  <2>0. guiMachine \in GuiMachineTypes /\ GuiKeysSound(guiKeys, guiMachine.id) /\ GuiPadsSound(guiPads, guiMachine.id)
    BY DEF GuiInputInv
  <2>1. ASSUME NEW host \in SUBSET GuiHostKeys PROVE GuiKeysSound([guiKeys EXCEPT !.host = host], guiMachine.id)
    BY <2>0 DEF GuiKeysSound, GuiKeyTypes
  <2>2. guiKeys.host \in SUBSET GuiHostKeys
    BY <2>0 DEF GuiKeysSound, GuiKeyTypes
  <2>3. CASE (GuiKeyPress \/ GuiKeyRelease \/ OnKbdFocus) /\ UNCHANGED <<guiMachine, guiPads>>
    <3>1. ASSUME NEW key \in GuiHostKeys, NEW down \in BOOLEAN, NEW host \in SUBSET GuiHostKeys,
                 guiKeys' = FilterEvent([guiKeys EXCEPT !.host = host], key, down)
          PROVE  GuiKeysSound(guiKeys', guiMachine.id)
      BY <2>0, <2>1, <3>1, FilterSound
    <3>2. CASE GuiKeyPress
      <4>1. PICK key \in GuiHostKeys : guiKeys' = FilterEvent([guiKeys EXCEPT !.host = guiKeys.host \cup {key}], key, TRUE)
        BY <3>2 DEF GuiKeyPress
      <4>2. guiKeys.host \cup {key} \in SUBSET GuiHostKeys
        BY <2>2
      <4>3. GuiKeysSound(guiKeys', guiMachine.id)
        BY <3>1, <4>1, <4>2
      <4> QED BY <2>0, <2>3, <4>3 DEF GuiInputInv
    <3>3. CASE GuiKeyRelease
      <4>1. PICK key \in guiKeys.host : guiKeys' = FilterEvent([guiKeys EXCEPT !.host = guiKeys.host \ {key}], key, FALSE)
        BY <3>3 DEF GuiKeyRelease
      <4>2. guiKeys.host \ {key} \in SUBSET GuiHostKeys /\ key \in GuiHostKeys
        BY <2>2
      <4>3. GuiKeysSound(guiKeys', guiMachine.id)
        BY <3>1, <4>1, <4>2
      <4> QED BY <2>0, <2>3, <4>3 DEF GuiInputInv
    <3>4. CASE OnKbdFocus
      <4>1. GuiKeysSound(guiKeys', guiMachine.id)
        BY <2>0, <3>4, GuiCaptureSound DEF OnKbdFocus
      <4> QED BY <2>0, <2>3, <4>1 DEF GuiInputInv
    <3> QED BY <2>3, <3>2, <3>3, <3>4
  <2>4. CASE (GuiPoll \/ GuiPadChange \/ GuiPadButton \/ GuiSwapJoysticks) /\ UNCHANGED <<guiMachine, guiKeys>>
    <3>0. SUFFICES GuiPadsSound(guiPads', guiMachine.id)
      BY <2>0, <2>4 DEF GuiInputInv
    <3>1. CASE GuiPoll
      BY <2>0, <3>1, GuiPollSound DEF GuiPoll
    <3>2. PICK S \in SUBSET GuiPadSlots : guiPads.held \in [S -> {0, 1}]
      BY <2>0 DEF GuiPadsSound, GuiPadTypes, GuiHeldTypes
    <3>3. CASE GuiPadChange
      <4>1. PICK s \in GuiPadSlots :
              guiPads' = [guiPads EXCEPT !.polled = FALSE,
                            !.held = IF s \in DOMAIN guiPads.held THEN Restrict(guiPads.held, DOMAIN guiPads.held \ {s})
                                     ELSE [t \in DOMAIN guiPads.held \cup {s} |-> IF t = s THEN 0 ELSE guiPads.held[t]]]
        BY Zenon, <3>3 DEF GuiPadChange
      <4>2. Restrict(guiPads.held, DOMAIN guiPads.held \ {s}) \in [S \ {s} -> {0, 1}]
        BY <3>2 DEF Restrict
      <4>3. [t \in DOMAIN guiPads.held \cup {s} |-> IF t = s THEN 0 ELSE guiPads.held[t]] \in [S \cup {s} -> {0, 1}]
        BY <3>2
      <4>4. S \ {s} \in SUBSET GuiPadSlots /\ S \cup {s} \in SUBSET GuiPadSlots
        OBVIOUS
      <4>5. /\ Restrict(guiPads.held, DOMAIN guiPads.held \ {s}) \in GuiHeldTypes
            /\ [t \in DOMAIN guiPads.held \cup {s} |-> IF t = s THEN 0 ELSE guiPads.held[t]] \in GuiHeldTypes
        BY <4>2, <4>3, <4>4 DEF GuiHeldTypes
      <4> QED BY Zenon, <2>0, <4>1, <4>5, GuiChangeSound
    <3>4. CASE GuiPadButton
      <4>1. PICK s \in DOMAIN guiPads.held : guiPads' = [guiPads EXCEPT !.polled = FALSE, !.held[s] = 1 - guiPads.held[s]]
        BY Zenon, <3>4 DEF GuiPadButton
      <4> DEFINE h == [guiPads.held EXCEPT ![s] = 1 - guiPads.held[s]]
      <4>2. h \in [S -> {0, 1}]
        BY <3>2
      <4>3. h \in GuiHeldTypes
        BY <4>2 DEF GuiHeldTypes
      <4>4. guiPads' = [guiPads EXCEPT !.polled = FALSE, !.held = h]
        BY <4>1
      <4> HIDE DEF h
      <4> QED BY Zenon, <2>0, <4>3, <4>4, GuiChangeSound
    <3>5. CASE GuiSwapJoysticks
      <4> DEFINE r == IF guiMachine.id = 0 THEN [guiPads EXCEPT !.sent = GuiNoPads] ELSE releaseHostPads(guiPads)
      <4>1. guiPads' = [r EXCEPT !.swap = ~r.swap, !.polled = FALSE]
        BY <3>5 DEF GuiSwapJoysticks
      <4>2. r.swap = guiPads.swap /\ guiPads.swap \in BOOLEAN
        BY <2>0 DEF GuiPadsSound, GuiPadTypes, releaseHostPads
      <4> HIDE DEF r
      <4>3. guiPads' = [r EXCEPT !.swap = ~guiPads.swap, !.polled = FALSE] /\ (~guiPads.swap) \in BOOLEAN
        BY <4>1, <4>2
      <4> QED BY Zenon, <2>0, <4>3, GuiReleaseSound DEF r
    <3> QED BY <2>4, <3>1, <3>3, <3>4, <3>5
  <2>5. CASE loadMachineById
    <3>1. guiMachine' \in GuiMachineTypes
      BY <2>0, <2>5 DEF loadMachineById, GuiMachineTypes
    <3>2. GuiKeysSound(guiKeys', guiMachine'.id)
      <4>1. GuiCapture(guiKeys, FALSE) \in GuiKeyTypes /\ ~GuiCapture(guiKeys, FALSE).captured /\ GuiCapture(guiKeys, FALSE).handler = 0
        BY <2>0 DEF GuiCapture, GuiKeysSound, GuiKeyTypes
      <4> QED BY <2>5, <4>1 DEF loadMachineById, GuiSwitchInput, GuiKeysSound, GuiKeyTypes
    <3>3. GuiPadsSound(guiPads', guiMachine'.id)
      <4> DEFINE up == [p \in GuiPorts |-> 0]
      <4>1. up \in [GuiPorts -> {0, 1}] /\ GuiShown(GuiNoPads) = up
        BY GuiNoPadsShown
      <4>2. guiPads' = [guiPads EXCEPT !.sent = GuiNoPads, !.port = up, !.polled = FALSE]
        BY <2>5 DEF loadMachineById
      <4> HIDE DEF up
      <4> QED BY <2>0, <4>1, <4>2, GuiNoPadsShown DEF GuiPadsSound, GuiPadTypes
    <3> QED BY <3>1, <3>2, <3>3 DEF GuiInputInv
  <2>6. CASE UNCHANGED guiInputVars
    BY <2>0, <2>6 DEF GuiInputInv, guiInputVars
  <2> QED BY <2>3, <2>4, <2>5, <2>6 DEF GuiInputNext
<1>3. GuiInputInv => GuiKeysReachMachine /\ GuiModifiersLetGo /\ GuiPadsFollow
  BY DEF GuiInputInv, GuiKeysSound, GuiPadsSound, GuiKeysReachMachine, GuiModifiersLetGo, GuiPadsFollow, GuiShown
<1> QED BY <1>1, <1>2, <1>3, PTL DEF GuiInputSpec
-----------------------------------------------------------------------------
(***************************************************************************)
(* Builds.  A build is over when its result is served, and until then all  *)
(* that is posted is of that build, the result last.                       *)
(***************************************************************************)
GuiResultNames == {"none", "ok", "failed", "error", "cancelled"}
GuiEventTypes == [kind : {"line", "done"}, build : Nat, run : BOOLEAN, result : GuiResultNames]
GuiThreadTypes == [on : BOOLEAN, lines : Nat, build : Nat, run : BOOLEAN]
GuiProjectRecs ==
  [dir : GuiProjects \cup {"none"}, building : BOOLEAN, builds : Nat, cancel : BOOLEAN, problems : SUBSET Nat,
   open : BOOLEAN, lost : BOOLEAN]

GuiProjectTypes ==
  /\ guiProject \in GuiProjectRecs
  /\ guiThread \in GuiThreadTypes
  /\ guiEvents \in Seq(GuiEventTypes)

GuiProjectInv ==
  /\ GuiProjectTypes
  /\ GuiProblemsOfOneBuild
  /\ guiThread.on => guiThread.build = guiProject.builds
  /\ \A i \in 1 .. Len(guiEvents) :
        /\ guiEvents[i].build = guiProject.builds
        /\ guiEvents[i].kind = "done" => i = Len(guiEvents) /\ ~guiThread.on
  /\ ~guiProject.building => guiEvents = <<>> /\ ~guiThread.on

LEMMA GuiPosted ==
  ASSUME GuiProjectInv, guiThread.on, NEW e \in GuiEventTypes, e.build = guiThread.build,
         guiEvents' = Append(guiEvents, e), NEW on, e.kind = "done" => ~on
  PROVE  /\ guiEvents' \in Seq(GuiEventTypes)
         /\ \A i \in 1 .. Len(guiEvents') :
              /\ guiEvents'[i].build = guiProject.builds
              /\ guiEvents'[i].kind = "done" => i = Len(guiEvents') /\ ~on
<1>1. guiEvents \in Seq(GuiEventTypes)
  BY DEF GuiProjectInv, GuiProjectTypes
<1>2. /\ guiEvents' \in Seq(GuiEventTypes) /\ Len(guiEvents') = Len(guiEvents) + 1 /\ Len(guiEvents) \in Nat
      /\ \A i \in 1 .. Len(guiEvents) : guiEvents'[i] = guiEvents[i]
      /\ guiEvents'[Len(guiEvents) + 1] = e
  BY <1>1
<1>3. \A i \in 1 .. Len(guiEvents) : guiEvents[i].build = guiProject.builds /\ guiEvents[i].kind # "done"
  BY DEF GuiProjectInv
<1>4. e.build = guiProject.builds
  BY DEF GuiProjectInv
<1>5. ASSUME NEW i \in 1 .. Len(guiEvents')
      PROVE  guiEvents'[i].build = guiProject.builds /\ (guiEvents'[i].kind = "done" => i = Len(guiEvents') /\ ~on)
  <2>1. CASE i \in 1 .. Len(guiEvents)
    BY <1>2, <1>3, <2>1
  <2>2. CASE i = Len(guiEvents) + 1
    BY <1>2, <1>4, <2>2
  <2> QED BY <1>2, <1>5, <2>1, <2>2
<1> QED BY <1>2, <1>5

LEMMA GuiDoneTypes ==
  ASSUME GuiProjectTypes, NEW c \in BOOLEAN, NEW r \in GuiResults(c)
  PROVE  GuiDone(r) \in GuiEventTypes /\ GuiDone(r).build = guiThread.build /\ GuiDone(r).kind = "done"
BY DEF GuiProjectTypes, GuiThreadTypes, GuiResults, GuiDone, GuiEventTypes, GuiResultNames

LEMMA GuiIdleTypes == GuiIdle \in GuiThreadTypes /\ ~GuiIdle.on
BY DEF GuiIdle, GuiThreadTypes

\* make ends on its own or is waited for.
LEMMA GuiThreadEnds ==
  ASSUME GuiProjectInv, guiThread' = GuiIdle, guiProject'.builds = guiProject.builds,
         guiProject'.building = guiProject.building, guiProject'.problems = guiProject.problems,
         guiProject' \in GuiProjectRecs,
         \/ guiThread.on /\ \E c \in BOOLEAN : \E r \in GuiResults(c) : guiEvents' = Append(guiEvents, GuiDone(r))
         \/ ~guiThread.on /\ guiEvents' = guiEvents
  PROVE  GuiProjectInv'
<1>1. guiThread' \in GuiThreadTypes /\ ~guiThread'.on
  BY GuiIdleTypes
<1>2. GuiProblemsOfOneBuild'
  BY DEF GuiProjectInv, GuiProblemsOfOneBuild
<1>3. CASE guiThread.on
  <2>1. PICK c \in BOOLEAN : \E r \in GuiResults(c) : guiEvents' = Append(guiEvents, GuiDone(r))
    BY <1>3
  <2>2. PICK r \in GuiResults(c) : guiEvents' = Append(guiEvents, GuiDone(r))
    BY <2>1
  <2>3. GuiDone(r) \in GuiEventTypes /\ GuiDone(r).build = guiThread.build
    BY GuiDoneTypes DEF GuiProjectInv
  <2>4. /\ guiEvents' \in Seq(GuiEventTypes)
        /\ \A i \in 1 .. Len(guiEvents') :
              /\ guiEvents'[i].build = guiProject.builds
              /\ guiEvents'[i].kind = "done" => i = Len(guiEvents') /\ ~FALSE
    BY <1>3, <2>2, <2>3, GuiPosted
  <2> QED BY <1>1, <1>2, <1>3, <2>4 DEF GuiProjectInv, GuiProjectTypes
<1>4. CASE ~guiThread.on
  BY <1>1, <1>2, <1>4 DEF GuiProjectInv, GuiProjectTypes
<1> QED BY <1>3, <1>4

LEMMA GuiServed ==
  ASSUME GuiProjectInv, guiEvents # <<>>, guiEvents' = Tail(guiEvents)
  PROVE  /\ Head(guiEvents) \in GuiEventTypes /\ Head(guiEvents).build = guiProject.builds /\ guiProject.building
         /\ Head(guiEvents).kind = "done" => guiEvents' = <<>> /\ ~guiThread.on
         /\ guiEvents' \in Seq(GuiEventTypes)
         /\ \A i \in 1 .. Len(guiEvents') :
              /\ guiEvents'[i].build = guiProject.builds
              /\ guiEvents'[i].kind = "done" => i = Len(guiEvents') /\ ~guiThread.on
<1> DEFINE t == Tail(guiEvents)
           n == Len(guiEvents)
           m == Len(t)
<1>1. guiEvents \in Seq(GuiEventTypes)
  BY DEF GuiProjectInv, GuiProjectTypes
<1>2. /\ n \in Nat /\ n > 0 /\ Head(guiEvents) = guiEvents[1] /\ guiEvents[1] \in GuiEventTypes
      /\ t \in Seq(GuiEventTypes) /\ m = n - 1
      /\ \A i \in 1 .. m : t[i] = guiEvents[i + 1]
  BY <1>1
<1>3. \A i \in 1 .. n :
        /\ guiEvents[i].build = guiProject.builds
        /\ guiEvents[i].kind = "done" => i = n /\ ~guiThread.on
  BY DEF GuiProjectInv
<1>4. m = 0 => t = <<>>
  BY <1>2
<1>5. guiProject.building
  BY DEF GuiProjectInv, GuiProjectTypes
<1> HIDE DEF n, m, t
<1>6. 1 \in 1 .. n
  BY <1>2
<1>7. ASSUME NEW i \in 1 .. m
      PROVE  t[i].build = guiProject.builds /\ (t[i].kind = "done" => i = m /\ ~guiThread.on)
  <2>1. i + 1 \in 1 .. n /\ (i + 1 = n => i = m)
    BY <1>2
  <2> QED BY <1>2, <1>3, <2>1
<1>8. Head(guiEvents).kind = "done" => t = <<>> /\ ~guiThread.on
  <2>1. Head(guiEvents).kind = "done" => n = 1 /\ ~guiThread.on
    BY <1>2, <1>3, <1>6
  <2> QED BY <1>2, <1>4, <2>1
<1>9. guiEvents' = t
  BY DEF t
<1>10. Head(guiEvents) \in GuiEventTypes /\ Head(guiEvents).build = guiProject.builds
  BY <1>2, <1>3, <1>6
<1>11. \A i \in 1 .. Len(t) : t[i].build = guiProject.builds /\ (t[i].kind = "done" => i = Len(t) /\ ~guiThread.on)
  BY <1>7 DEF m
<1> QED BY <1>2, <1>5, <1>8, <1>9, <1>10, <1>11

LEMMA GuiProjectCorrect == GuiProjectSpec => []GuiProblemsOfOneBuild
<1>1. GuiProjectInit => GuiProjectInv
  BY GuiIdleTypes DEF GuiProjectInit, GuiProjectInv, GuiProjectTypes, GuiProjectRecs, GuiProblemsOfOneBuild
<1>2. GuiProjectInv /\ [GuiProjectNext]_guiProjectVars => GuiProjectInv'
  <2> SUFFICES ASSUME GuiProjectInv, [GuiProjectNext]_guiProjectVars PROVE GuiProjectInv'
    OBVIOUS
  <2>0. guiProject \in GuiProjectRecs /\ guiThread \in GuiThreadTypes /\ guiEvents \in Seq(GuiEventTypes)
    BY DEF GuiProjectInv, GuiProjectTypes
  <2>1. CASE runMake_line
    <3> DEFINE e == [kind |-> "line", build |-> guiThread.build, run |-> guiThread.run, result |-> "none"]
    <3>1. e \in GuiEventTypes /\ e.build = guiThread.build /\ e.kind # "done"
      BY <2>0 DEF GuiEventTypes, GuiResultNames, GuiThreadTypes
    <3>2. guiThread.on /\ guiEvents' = Append(guiEvents, e) /\ guiProject' = guiProject
          /\ guiThread' = [guiThread EXCEPT !.lines = guiThread.lines + 1]
      BY <2>1 DEF runMake_line
    <3> HIDE DEF e
    <3>3. /\ guiEvents' \in Seq(GuiEventTypes)
          /\ \A i \in 1 .. Len(guiEvents') :
                /\ guiEvents'[i].build = guiProject.builds
                /\ guiEvents'[i].kind = "done" => i = Len(guiEvents') /\ ~TRUE
      BY <3>1, <3>2, GuiPosted
    <3>4. guiThread' \in GuiThreadTypes /\ guiThread'.build = guiThread.build /\ guiThread'.on
      BY <2>0, <3>2 DEF GuiThreadTypes
    <3> QED BY <3>2, <3>3, <3>4 DEF GuiProjectInv, GuiProjectTypes, GuiProblemsOfOneBuild
  <2>2. CASE runMake_end
    <3>1. guiProject.cancel \in BOOLEAN
      BY <2>0 DEF GuiProjectRecs
    <3> QED BY <2>0, <2>2, <3>1, GuiThreadEnds DEF runMake_end
  <2>3. CASE openProject \/ GuiCloseProject
    <3>1. /\ guiProject' \in GuiProjectRecs /\ guiProject'.builds = guiProject.builds
          /\ guiProject'.building = guiProject.building /\ guiProject'.problems = guiProject.problems
      BY Zenon, <2>0, <2>3 DEF openProject, GuiCloseProject, GuiProjectRecs
    <3>2. stopBuildAndWait
      BY Zenon, <2>3 DEF openProject, GuiCloseProject
    <3>3. \/ guiThread.on /\ \E c \in BOOLEAN : \E r \in GuiResults(c) : guiEvents' = Append(guiEvents, GuiDone(r))
          \/ ~guiThread.on /\ guiEvents' = guiEvents
      BY <2>0, <3>2 DEF stopBuildAndWait
    <3>4. guiThread' = GuiIdle
      BY <3>2 DEF stopBuildAndWait
    <3> QED BY <3>1, <3>3, <3>4, GuiThreadEnds
  <2>4. CASE GuiStopBuild
    <3>1. /\ guiProject' \in GuiProjectRecs /\ guiProject'.builds = guiProject.builds
          /\ guiProject'.building = guiProject.building /\ guiProject'.problems = guiProject.problems
      BY <2>0, <2>4 DEF GuiStopBuild, GuiProjectRecs
    <3>2. guiThread' = guiThread /\ guiEvents' = guiEvents
      BY <2>4 DEF GuiStopBuild
    <3> QED BY <3>1, <3>2 DEF GuiProjectInv, GuiProjectTypes, GuiProblemsOfOneBuild
  <2>5. CASE startBuild
    <3> DEFINE n == guiProject.builds + 1
    <3>0. n \in Nat /\ guiProject' = [guiProject EXCEPT !.building = TRUE, !.builds = n, !.cancel = FALSE, !.problems = {}]
      BY <2>0, <2>5 DEF startBuild, GuiProjectRecs
    <3>1. guiEvents' = <<>>
      BY <2>5 DEF startBuild, GuiProjectInv
    <3>2. PICK run \in BOOLEAN : guiThread' = [on |-> TRUE, lines |-> 0, build |-> n, run |-> run]
      BY <2>5 DEF startBuild
    <3> HIDE DEF n
    <3>3. guiProject' \in GuiProjectRecs /\ guiProject'.builds = n /\ guiProject'.building /\ guiProject'.problems = {}
      BY <2>0, <3>0 DEF GuiProjectRecs
    <3>4. guiThread' \in GuiThreadTypes /\ guiThread'.build = n
      BY <3>0, <3>2 DEF GuiThreadTypes
    <3> QED BY <3>0, <3>1, <3>3, <3>4 DEF GuiProjectInv, GuiProjectTypes, GuiProblemsOfOneBuild
  <2>6. CASE onBuildLine
    <3> DEFINE h == Head(guiEvents).build
    <3>1. guiEvents # <<>> /\ guiEvents' = Tail(guiEvents) /\ guiThread' = guiThread
          /\ guiProject' = [guiProject EXCEPT !.problems = guiProject.problems \cup {h}]
      BY <2>6 DEF onBuildLine, GuiNextIs
    <3>2. h = guiProject.builds /\ guiProject.building
      BY <3>1, GuiServed
    <3> HIDE DEF h
    <3>3. /\ guiProject' \in GuiProjectRecs /\ guiProject'.builds = guiProject.builds /\ guiProject'.building
          /\ guiProject'.problems = guiProject.problems \cup {guiProject.builds}
      BY <2>0, <3>1, <3>2 DEF GuiProjectRecs
    <3>4. GuiProblemsOfOneBuild'
      BY <3>3 DEF GuiProjectInv, GuiProblemsOfOneBuild
    <3> QED BY <2>0, <3>1, <3>3, <3>4, GuiServed DEF GuiProjectInv, GuiProjectTypes
  <2>7. CASE onBuildDone
    <3>1. guiEvents # <<>> /\ guiEvents' = Tail(guiEvents) /\ guiThread' = guiThread /\ Head(guiEvents).kind = "done"
      BY <2>7 DEF onBuildDone, GuiNextIs
    <3>2. /\ guiProject' \in GuiProjectRecs /\ guiProject'.builds = guiProject.builds /\ guiProject'.problems = guiProject.problems
      BY <2>0, <2>7 DEF onBuildDone, GuiProjectRecs
    <3>3. guiEvents' = <<>> /\ ~guiThread.on
      BY <3>1, GuiServed
    <3> QED BY <2>0, <3>1, <3>2, <3>3 DEF GuiProjectInv, GuiProjectTypes, GuiProblemsOfOneBuild
  <2>8. CASE GuiCloseWindow
    <3>1. guiThread' = GuiIdle /\ guiEvents' = <<>>
      BY <2>8 DEF GuiCloseWindow
    <3>2. /\ guiProject' \in GuiProjectRecs /\ guiProject'.builds = guiProject.builds /\ guiProject'.problems = guiProject.problems
      BY <2>0, <2>8 DEF GuiCloseWindow, GuiProjectRecs
    <3> QED BY <3>1, <3>2, GuiIdleTypes DEF GuiProjectInv, GuiProjectTypes, GuiProblemsOfOneBuild
  <2>9. CASE UNCHANGED guiProjectVars
    BY <2>9 DEF guiProjectVars, GuiProjectInv, GuiProjectTypes, GuiProblemsOfOneBuild
  <2> QED BY <2>1, <2>2, <2>3, <2>4, <2>5, <2>6, <2>7, <2>8, <2>9 DEF GuiProjectNext
<1>3. GuiProjectInv => GuiProblemsOfOneBuild
  BY DEF GuiProjectInv
<1> QED BY <1>1, <1>2, <1>3, PTL DEF GuiProjectSpec
-----------------------------------------------------------------------------
(***************************************************************************)
(* The panes.  While the Debug layout is shown the Edit layout is kept as  *)
(* it was left, and a pane that went with its machine is saved as open.    *)
(***************************************************************************)
DockWhere == [DockPanes -> {"none"} \cup DockBooks]
DockStates == [set : BOOLEAN, where : DockWhere]
DockTypes ==
  [where : DockWhere, known : SUBSET DockPanes, available : SUBSET DockPanes, saved : DockWhere, last : DockWhere,
   debug : BOOLEAN, editState : DockStates, debugState : DockStates]

DockSound(d) == d \in DockTypes /\ \A p \in DockPanes : d.where[p] # "none" => DockUsable(d, p)

DockBack(d, back) == \A p \in back : p \notin d.available /\ d.saved[p] # "none"

DockInv ==
  /\ DockSound(dock)
  /\ dockOwed \in [back : SUBSET DockMachine, edit : DockWhere, switched : BOOLEAN]
  /\ dock.debug => dock.editState.set /\ dock.editState.where = dockOwed.edit
  /\ DockBack(dock, dockOwed.back)
  /\ DockEditReturns

\* Layouts are kept from one pane's change to the next.
DockSame(d, e) == e.debug = d.debug /\ e.editState = d.editState

LEMMA DockConst == DockNowhere \in DockWhere /\ DockDefault \in DockWhere /\ DockDebugFirst \in DockWhere
BY DEF DockNowhere, DockDefault, DockDebugFirst, DockWhere, DockBooks

LEMMA DockOpenSound ==
  ASSUME NEW d, DockSound(d), NEW p \in DockPanes
  PROVE  DockSound(DockOpen(d, p)) /\ DockSame(d, DockOpen(d, p))
         /\ DockOpen(d, p).saved = d.saved /\ DockOpen(d, p).available = d.available
<1> DEFINE b == IF d.last[p] # "none" THEN d.last[p]
                ELSE IF d.saved[p] # "none" THEN d.saved[p] ELSE IF p \in DockMachine THEN "side" ELSE "bottom"
           w == [d.where EXCEPT ![p] = b]
<1>1. CASE ~DockUsable(d, p) \/ d.where[p] # "none"
  BY <1>1 DEF DockOpen, DockSame
<1>2. CASE DockUsable(d, p) /\ d.where[p] = "none"
  <2>1. d.last[p] \in {"none"} \cup DockBooks /\ d.saved[p] \in {"none"} \cup DockBooks
    BY DEF DockSound, DockTypes, DockWhere
  <2>2. b \in DockBooks
    BY <2>1 DEF DockBooks
  <2>3. DockOpen(d, p) = [d EXCEPT !.where = w]
    BY <1>2 DEF DockOpen
  <2> HIDE DEF b
  <2>4. w \in DockWhere /\ \A q \in DockPanes : w[q] # "none" => DockUsable(d, q)
    BY <1>2, <2>2 DEF DockSound, DockTypes, DockWhere
  <2> HIDE DEF w
  <2>5. [d EXCEPT !.where = w] \in DockTypes /\ DockSame(d, [d EXCEPT !.where = w])
        /\ [d EXCEPT !.where = w].where = w /\ [d EXCEPT !.where = w].saved = d.saved
        /\ [d EXCEPT !.where = w].known = d.known /\ [d EXCEPT !.where = w].available = d.available
    BY <2>4 DEF DockSound, DockTypes, DockSame
  <2> QED BY <2>3, <2>4, <2>5 DEF DockSound, DockUsable
<1> QED BY <1>1, <1>2

\* Closing a pane that is a tab.
LEMMA DockCloseSound ==
  ASSUME NEW d, DockSound(d), NEW p \in DockPanes
  PROVE  /\ DockSound(DockClose(d, p)) /\ DockSame(d, DockClose(d, p))
         /\ DockClose(d, p).available = d.available /\ DockClose(d, p).known = d.known
         /\ DockClose(d, p).where[p] = "none"
         /\ \A q \in DockPanes \ {p} : DockClose(d, p).saved[q] = d.saved[q]
         /\ p \notin d.available => DockClose(d, p) = d
<1>1. CASE d.where[p] = "none"
  BY <1>1 DEF DockClose, DockSame
<1>2. CASE d.where[p] # "none"
  <2> DEFINE l == [d.last EXCEPT ![p] = d.where[p]]
             s == [d.saved EXCEPT ![p] = "none"]
             w == [d.where EXCEPT ![p] = "none"]
             e == [d EXCEPT !.last = l, !.saved = s, !.where = w]
  <2>1. DockClose(d, p) = e
    BY <1>2 DEF DockClose
  <2>2. l \in DockWhere /\ s \in DockWhere /\ w \in DockWhere /\ w[p] = "none"
        /\ (\A q \in DockPanes \ {p} : s[q] = d.saved[q])
        /\ (\A q \in DockPanes : w[q] # "none" => d.where[q] # "none")
    BY DEF DockSound, DockTypes, DockWhere
  <2> HIDE DEF l, s, w
  <2>3. e \in DockTypes /\ DockSame(d, e) /\ e.where = w /\ e.saved = s /\ e.known = d.known /\ e.available = d.available
    BY <2>2 DEF DockSound, DockTypes, DockSame
  <2> HIDE DEF e
  <2>4. DockSound(e)
    BY <2>2, <2>3 DEF DockSound, DockUsable
  <2>5. p \in d.available
    BY <1>2 DEF DockSound, DockUsable
  <2> QED BY <2>1, <2>2, <2>3, <2>4, <2>5
<1> QED BY <1>1, <1>2

LEMMA DockAvailableSound ==
  ASSUME NEW d, DockSound(d), NEW p \in DockPanes, NEW yes \in BOOLEAN, NEW back \in SUBSET DockPanes, DockBack(d, back)
  PROVE  LET e == setAvailable(d, p, yes)
         IN  /\ DockSound(e) /\ DockSame(d, e)
             /\ ~yes => DockBack(e, IF d.where[p] # "none" THEN back \cup {p} ELSE back)
             /\ yes => DockBack(e, IF e.where[p] # "none" THEN back \ {p} ELSE back)
<1> DEFINE e == setAvailable(d, p, yes)
<1>1. CASE p \notin d.known \/ (p \in d.available) = yes
  <2>1. e = d
    BY <1>1 DEF setAvailable
  <2>2. ~yes => d.where[p] = "none"
    BY <1>1 DEF DockSound, DockUsable
  <2> QED BY <2>1, <2>2 DEF DockSame, DockBack
<1>2. CASE p \in d.known /\ p \notin d.available /\ yes
  <2> DEFINE w == [d.where EXCEPT ![p] = d.saved[p]]
             f == [d EXCEPT !.available = d.available \cup {p}, !.where = w]
  <2>1. e = f
    BY <1>2 DEF setAvailable
  <2>2. w \in DockWhere /\ w[p] = d.saved[p] /\ \A q \in DockPanes \ {p} : w[q] = d.where[q]
    BY DEF DockSound, DockTypes, DockWhere
  <2> HIDE DEF w
  <2>3. f \in DockTypes /\ DockSame(d, f) /\ f.where = w /\ f.saved = d.saved /\ f.known = d.known
        /\ f.available = d.available \cup {p}
    BY <2>2 DEF DockSound, DockTypes, DockSame
  <2> HIDE DEF f
  <2>4. DockSound(f)
    BY <1>2, <2>2, <2>3 DEF DockSound, DockUsable
  <2>5. DockBack(f, IF f.where[p] # "none" THEN back \ {p} ELSE back)
    BY <1>2, <2>2, <2>3 DEF DockBack
  <2> QED BY <1>2, <2>1, <2>3, <2>4, <2>5
<1>3. CASE p \in d.known /\ p \in d.available /\ ~yes
  <2> DEFINE c == DockClose(d, p)
             s == [c.saved EXCEPT ![p] = IF d.where[p] # "none" THEN d.where[p] ELSE d.saved[p]]
             f == [c EXCEPT !.available = c.available \ {p}, !.saved = s]
  <2>1. e = f
    BY <1>3 DEF setAvailable
  <2>2. /\ DockSound(c) /\ DockSame(d, c) /\ c.available = d.available /\ c.where[p] = "none"
        /\ \A q \in DockPanes \ {p} : c.saved[q] = d.saved[q]
    BY DockCloseSound
  <2> HIDE DEF c
  <2>3. /\ s \in DockWhere /\ (\A q \in DockPanes \ {p} : s[q] = d.saved[q])
        /\ d.where[p] # "none" => s[p] # "none"
    BY <2>2 DEF DockSound, DockTypes, DockWhere
  <2> HIDE DEF s
  <2>4. f \in DockTypes /\ DockSame(c, f) /\ f.where = c.where /\ f.saved = s /\ f.known = c.known
        /\ f.available = d.available \ {p}
    BY <2>2, <2>3 DEF DockSound, DockTypes, DockSame
  <2> HIDE DEF f
  <2>5. DockSound(f) /\ DockSame(d, f)
    BY <2>2, <2>4 DEF DockSound, DockUsable, DockSame
  <2>6. p \notin back
    BY <1>3 DEF DockBack
  <2>7. DockBack(f, IF d.where[p] # "none" THEN back \cup {p} ELSE back)
    BY <2>3, <2>4, <2>6 DEF DockBack
  <2> QED BY <1>3, <2>1, <2>5, <2>7
<1> QED BY <1>1, <1>2, <1>3

\* A plugin's pane comes and goes; it is none of those that have to return.
LEMMA DockPluginSound ==
  ASSUME NEW d, DockSound(d), NEW p \in DockPanes, NEW back \in SUBSET DockPanes, p \notin back, DockBack(d, back)
  PROVE  /\ DockSound(addPane(d, p)) /\ DockSame(d, addPane(d, p)) /\ DockBack(addPane(d, p), back)
         /\ DockSound(removePane(d, p)) /\ DockSame(d, removePane(d, p)) /\ DockBack(removePane(d, p), back)
<1> DEFINE w == [d.where EXCEPT ![p] = d.saved[p]]
           v == [d.where EXCEPT ![p] = "none"]
           f == [d EXCEPT !.known = d.known \cup {p}, !.available = d.available \cup {p}, !.where = w]
           g == [d EXCEPT !.known = d.known \ {p}, !.available = d.available \ {p}, !.where = v]
<1>1. addPane(d, p) = IF p \in d.known THEN d ELSE f
  BY DEF addPane
<1>2. removePane(d, p) = g
  BY DEF removePane
<1>3. /\ w \in DockWhere /\ (\A q \in DockPanes \ {p} : w[q] = d.where[q])
      /\ v \in DockWhere /\ (\A q \in DockPanes \ {p} : v[q] = d.where[q]) /\ v[p] = "none"
  BY DEF DockSound, DockTypes, DockWhere
<1> HIDE DEF w, v
<1>4. f \in DockTypes /\ DockSame(d, f) /\ f.where = w /\ f.saved = d.saved /\ f.known = d.known \cup {p}
      /\ f.available = d.available \cup {p}
  BY <1>3 DEF DockSound, DockTypes, DockSame
<1>5. g \in DockTypes /\ DockSame(d, g) /\ g.where = v /\ g.saved = d.saved /\ g.known = d.known \ {p}
      /\ g.available = d.available \ {p}
  BY <1>3 DEF DockSound, DockTypes, DockSame
<1> HIDE DEF f, g
<1>6. DockSound(f) /\ DockBack(f, back)
  BY <1>3, <1>4 DEF DockSound, DockUsable, DockBack
<1>7. DockSound(g) /\ DockBack(g, back)
  BY <1>3, <1>5 DEF DockSound, DockUsable, DockBack
<1> QED BY <1>1, <1>2, <1>4, <1>5, <1>6, <1>7 DEF DockSame

LEMMA DockShowSound ==
  ASSUME NEW d, DockSound(d), NEW where \in DockWhere
  PROVE  LET e == showOnly(d, where)
         IN  /\ DockSound(e) /\ DockSame(d, e) /\ e.known = d.known /\ e.available = d.available /\ e.saved = d.saved
             /\ \A p \in DockPanes : DockUsable(d, p) => e.where[p] = where[p]
<1> DEFINE w == [p \in DockPanes |-> IF DockUsable(d, p) THEN where[p] ELSE "none"]
           e == [d EXCEPT !.where = w]
<1>1. e = showOnly(d, where)
  BY DEF showOnly
<1>2. w \in DockWhere /\ (\A p \in DockPanes : DockUsable(d, p) => w[p] = where[p])
      /\ (\A p \in DockPanes : w[p] # "none" => DockUsable(d, p))
  BY DEF DockWhere
<1> HIDE DEF w
<1>3. e \in DockTypes /\ DockSame(d, e) /\ e.where = w /\ e.saved = d.saved /\ e.known = d.known /\ e.available = d.available
  BY <1>2 DEF DockSound, DockTypes, DockSame
<1> HIDE DEF e
<1> QED BY <1>1, <1>2, <1>3 DEF DockSound, DockUsable

\* A change of panes that is no switch of layouts.
LEMMA DockStep ==
  ASSUME DockInv, DockSound(dock'), DockSame(dock, dock'), NEW back \in SUBSET DockMachine, DockBack(dock', back),
         dockOwed' = [dockOwed EXCEPT !.switched = FALSE, !.back = back]
  PROVE  DockInv'
<1>1. dockOwed' \in [back : SUBSET DockMachine, edit : DockWhere, switched : BOOLEAN]
      /\ dockOwed'.back = back /\ dockOwed'.edit = dockOwed.edit /\ ~dockOwed'.switched
  BY DEF DockInv
<1> QED BY <1>1 DEF DockInv, DockSame, DockEditReturns

LEMMA DockCorrect == DockSpec => [](DockPanesReturn /\ DockEditReturns /\ DockOnlyUsable)
<1>0. DockMachine \subseteq DockPanes /\ DockFixed \subseteq DockPanes
  BY DEF DockPanes
<1>1. DockInit => DockInv
  <2> SUFFICES ASSUME DockInit PROVE DockInv
    OBVIOUS
  <2> DEFINE n == DockNowhere
             w == DockDefault
  <2>1. n \in DockWhere /\ w \in DockWhere /\ \A p \in DockPanes : w[p] # "none" => p \in DockFixed
    BY DockConst DEF DockDefault
  <2>2. /\ dock = [where |-> w, known |-> DockFixed \cup DockMachine, available |-> DockFixed,
                   saved |-> n, last |-> n, debug |-> FALSE,
                   editState |-> [set |-> FALSE, where |-> n], debugState |-> [set |-> FALSE, where |-> n]]
        /\ dockOwed = [back |-> {}, edit |-> w, switched |-> FALSE]
    BY DEF DockInit
  <2> HIDE DEF n, w
  <2>3. dock \in DockTypes
    BY <1>0, <2>1, <2>2 DEF DockTypes, DockStates
  <2> QED BY <1>0, <2>1, <2>2, <2>3 DEF DockInv, DockSound, DockUsable, DockBack, DockEditReturns
<1>2. DockInv /\ [DockNext]_dockVars => DockInv'
  <2> SUFFICES ASSUME DockInv, [DockNext]_dockVars PROVE DockInv'
    OBVIOUS
  <2>0. /\ DockSound(dock) /\ dock \in DockTypes /\ DockBack(dock, dockOwed.back) /\ dockOwed.back \in SUBSET DockMachine
        /\ dockOwed \in [back : SUBSET DockMachine, edit : DockWhere, switched : BOOLEAN]
    BY DEF DockInv, DockSound
  <2>1. ASSUME dockOwed' = [dockOwed EXCEPT !.switched = FALSE]
        PROVE  dockOwed' = [dockOwed EXCEPT !.switched = FALSE, !.back = dockOwed.back]
    BY <2>0, <2>1
  <2>2. CASE DockToggle
    <3>1. PICK p \in dock.known \cap dock.available :
            /\ dock' = IF dock.where[p] = "none" THEN DockOpen(dock, p) ELSE DockClose(dock, p)
            /\ dockOwed' = [dockOwed EXCEPT !.switched = FALSE]
      BY <2>2 DEF DockToggle
    <3>2. p \in DockPanes /\ p \in dock.available
      BY <2>0, <3>1 DEF DockTypes
    <3>3. /\ DockSound(dock') /\ DockSame(dock, dock') /\ dock'.available = dock.available
          /\ \A q \in DockPanes \ {p} : dock'.saved[q] = dock.saved[q]
      <4>1. CASE dock.where[p] = "none"
        BY <2>0, <3>1, <3>2, <4>1, DockOpenSound
      <4>2. CASE dock.where[p] # "none"
        BY <2>0, <3>1, <3>2, <4>2, DockCloseSound
      <4> QED BY <4>1, <4>2
    <3>4. DockBack(dock', dockOwed.back)
      BY <1>0, <2>0, <3>2, <3>3 DEF DockBack
    <3> QED BY Zenon, <2>0, <2>1, <3>1, <3>3, <3>4, DockStep
  <2>3. CASE DockDrag
    <3>1. PICK p \in DockPanes : \E b \in DockBooks :
            /\ dock.where[p] # "none" /\ dock' = [dock EXCEPT !.where[p] = b]
            /\ dockOwed' = [dockOwed EXCEPT !.switched = FALSE]
      BY <2>3 DEF DockDrag
    <3>2. PICK b \in DockBooks :
            /\ dock.where[p] # "none" /\ dock' = [dock EXCEPT !.where[p] = b]
            /\ dockOwed' = [dockOwed EXCEPT !.switched = FALSE]
      BY <3>1
    <3> DEFINE w == [dock.where EXCEPT ![p] = b]
    <3>3. dock' = [dock EXCEPT !.where = w]
      BY <3>2
    <3>4. w \in DockWhere /\ \A q \in DockPanes : w[q] # "none" => dock.where[q] # "none"
      BY <2>0, <3>2 DEF DockTypes, DockWhere
    <3> HIDE DEF w
    <3>5. dock' \in DockTypes /\ DockSame(dock, dock') /\ dock'.where = w /\ dock'.saved = dock.saved
          /\ dock'.known = dock.known /\ dock'.available = dock.available
      BY <2>0, <3>3, <3>4 DEF DockTypes, DockSame
    <3>6. DockSound(dock') /\ DockBack(dock', dockOwed.back)
      BY <2>0, <3>4, <3>5 DEF DockSound, DockUsable, DockBack
    <3> QED BY Zenon, <2>0, <2>1, <3>2, <3>5, <3>6, DockStep
  <2>4. CASE DockReset
    <3> DEFINE d == showOnly(dock, DockDefault)
    <3>1. DockSound(d) /\ DockSame(dock, d)
      BY <2>0, DockConst, DockShowSound
    <3>2. dock' = [d EXCEPT !.saved = DockNowhere, !.last = DockNowhere]
      BY <2>4 DEF DockReset, resetToDefaults
    <3> HIDE DEF d
    <3>3. DockSound(dock') /\ DockSame(dock, dock')
      BY <3>1, <3>2, DockConst DEF DockSound, DockTypes, DockUsable, DockSame
    <3>4. DockBack(dock', {}) /\ {} \in SUBSET DockMachine /\ dockOwed' = [dockOwed EXCEPT !.switched = FALSE, !.back = {}]
      BY <2>4 DEF DockReset, DockBack
    <3> QED BY Zenon, <3>3, <3>4, DockStep
  <2>5. CASE DockSwitch
    <3>1. PICK debug \in BOOLEAN :
            /\ dock' = switchLayout(dock, debug)
            /\ dockOwed' = [dockOwed EXCEPT !.back = IF dock.debug = debug THEN dockOwed.back ELSE {},
                                            !.edit = IF debug /\ ~dock.debug THEN dock.where ELSE dockOwed.edit,
                                            !.switched = dock.debug /\ ~debug]
      BY Zenon, <2>5 DEF DockSwitch
    <3>2. CASE dock.debug = debug
      <4>1. dock' = dock /\ dockOwed' = [dockOwed EXCEPT !.switched = FALSE, !.back = dockOwed.back]
        BY <2>0, <3>1, <3>2 DEF switchLayout
      <4> QED BY Zenon, <2>0, <4>1, DockStep DEF DockSame
    <3>3. CASE debug /\ ~dock.debug
      <4> DEFINE to == IF dock.debugState.set THEN dock.debugState.where ELSE DockDebugFirst
                 d == showOnly(dock, to)
                 st == [set |-> TRUE, where |-> dock.where]
      <4>1. to \in DockWhere
        BY <2>0, DockConst DEF DockTypes, DockStates
      <4> HIDE DEF to
      <4>2. DockSound(d)
        BY <2>0, <4>1, DockShowSound
      <4>3. dock' = [d EXCEPT !.editState = st, !.debug = TRUE]
        BY <3>1, <3>3 DEF switchLayout, to
      <4>4. st \in DockStates /\ st.set /\ st.where = dock.where
        BY <2>0 DEF DockTypes, DockStates
      <4> HIDE DEF d, st
      <4>5. DockSound(dock') /\ dock'.debug /\ dock'.editState = st
        BY <4>2, <4>3, <4>4 DEF DockSound, DockTypes, DockUsable
      <4>6. dockOwed' \in [back : SUBSET DockMachine, edit : DockWhere, switched : BOOLEAN]
            /\ dockOwed'.back = {} /\ dockOwed'.edit = dock.where /\ ~dockOwed'.switched
        BY <2>0, <3>1, <3>3 DEF DockTypes
      <4> QED BY <4>4, <4>5, <4>6 DEF DockInv, DockBack, DockEditReturns
    <3>4. CASE ~debug /\ dock.debug
      <4> DEFINE to == dock.editState.where
                 d == showOnly(dock, to)
                 st == [set |-> TRUE, where |-> dock.where]
      <4>1. to \in DockWhere /\ to = dockOwed.edit /\ dock.editState.set
        BY <2>0, <3>4 DEF DockInv, DockTypes, DockStates
      <4>2. DockSound(d) /\ d.known = dock.known /\ d.available = dock.available
            /\ \A p \in DockPanes : DockUsable(dock, p) => d.where[p] = to[p]
        BY <2>0, <4>1, DockShowSound
      <4>3. dock' = [d EXCEPT !.debugState = st, !.debug = FALSE]
        BY <3>1, <3>4, <4>1 DEF switchLayout
      <4>4. st \in DockStates
        BY <2>0 DEF DockTypes, DockStates
      <4> HIDE DEF d, st, to
      <4>5. DockSound(dock') /\ ~dock'.debug /\ dock'.where = d.where /\ dock'.known = d.known /\ dock'.available = d.available
        BY <4>2, <4>3, <4>4 DEF DockSound, DockTypes, DockUsable
      <4>6. dockOwed' \in [back : SUBSET DockMachine, edit : DockWhere, switched : BOOLEAN]
            /\ dockOwed'.back = {} /\ dockOwed'.edit = dockOwed.edit
        BY <2>0, <3>1, <3>4
      <4>7. ASSUME NEW p \in DockPanes, DockUsable(dock', p) PROVE dock'.where[p] = dockOwed'.edit[p]
        <5>1. DockUsable(dock, p)
          BY <4>2, <4>5, <4>7 DEF DockUsable
        <5> QED BY <4>1, <4>2, <4>5, <4>6, <5>1
      <4>8. DockEditReturns'
        BY <4>7 DEF DockEditReturns, DockUsable
      <4>9. DockBack(dock', dockOwed'.back)
        BY <4>6 DEF DockBack
      <4> QED BY <4>5, <4>6, <4>8, <4>9 DEF DockInv
    <3>5. dock.debug \in BOOLEAN
      BY <2>0 DEF DockTypes
    <3> QED BY <3>2, <3>3, <3>4, <3>5
  <2>6. CASE DockLoadMachine
    <3>1. PICK p \in DockMachine \cup DockPlugin, has \in BOOLEAN :
        /\ dock' = IF p \in DockMachine THEN setAvailable(dock, p, has)
                   ELSE IF has THEN addPane(dock, p) ELSE removePane(dock, p)
        /\ dockOwed' = [dockOwed EXCEPT !.switched = FALSE,
                          !.back = IF p \in DockMachine /\ ~has /\ dock.where[p] # "none" THEN dockOwed.back \cup {p}
                                   ELSE IF has /\ dock'.where[p] # "none" THEN dockOwed.back \ {p} ELSE dockOwed.back]
      BY Zenon, <2>6 DEF DockLoadMachine
    <3>2. p \in DockPanes /\ dockOwed.back \in SUBSET DockPanes
      BY <1>0, <2>0 DEF DockPanes
    <3> DEFINE b == IF p \in DockMachine /\ ~has /\ dock.where[p] # "none" THEN dockOwed.back \cup {p}
                    ELSE IF has /\ dock'.where[p] # "none" THEN dockOwed.back \ {p} ELSE dockOwed.back
    <3>3. b \in SUBSET DockMachine /\ dockOwed' = [dockOwed EXCEPT !.switched = FALSE, !.back = b]
      BY <2>0, <3>1
    <3>4. CASE p \in DockMachine
      <4>1. DockSound(dock') /\ DockSame(dock, dock')
            /\ (~has => DockBack(dock', IF dock.where[p] # "none" THEN dockOwed.back \cup {p} ELSE dockOwed.back))
            /\ (has => DockBack(dock', IF dock'.where[p] # "none" THEN dockOwed.back \ {p} ELSE dockOwed.back))
        BY <2>0, <3>1, <3>2, <3>4, DockAvailableSound
      <4>2. DockBack(dock', b)
        BY <3>4, <4>1
      <4> HIDE DEF b
      <4> QED BY Zenon, <3>3, <4>1, <4>2, DockStep
    <3>5. CASE p \notin DockMachine
      <4>1. p \notin dockOwed.back
        BY <2>0, <3>5
      <4>2. DockSound(dock') /\ DockSame(dock, dock') /\ DockBack(dock', dockOwed.back)
        BY <2>0, <3>1, <3>2, <3>5, <4>1, DockPluginSound
      <4>3. b = dockOwed.back
        BY <3>5, <4>1
      <4>4. DockBack(dock', b)
        BY <4>2, <4>3
      <4> HIDE DEF b
      <4> QED BY Zenon, <3>3, <4>2, <4>4, DockStep
    <3> QED BY <3>4, <3>5
  <2>7. CASE UNCHANGED dockVars
    BY <2>7 DEF dockVars, DockInv, DockEditReturns
  <2> QED BY <2>2, <2>3, <2>4, <2>5, <2>6, <2>7 DEF DockNext
<1>3. DockInv => DockPanesReturn /\ DockEditReturns /\ DockOnlyUsable
  BY DEF DockInv, DockBack, DockSound, DockPanesReturn, DockOnlyUsable
<1> QED BY <1>1, <1>2, <1>3, PTL DEF DockSpec
-----------------------------------------------------------------------------
(***************************************************************************)
(* The GUI, for any number of machines, builds, panes and controllers.     *)
(***************************************************************************)
THEOREM GuiCorrect == GuiProjectSpec /\ GuiInputSpec /\ DockSpec /\ FrameSpec => []GuiRight
BY GuiProjectCorrect, GuiInputCorrect, DockCorrect, FrameCorrect, PTL DEF GuiRight
=============================================================================
