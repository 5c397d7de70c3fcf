------------------------------ MODULE EpollEcho ------------------------------
(***************************************************************************)
(* epoll/epoll_classic.c: an echo server on non-blocking sockets.  It      *)
(* registers each connection edge-triggered, for input until it has read   *)
(* everything, then for output until it has written it back.  One buffer,  *)
(* line, and one length, nbytes, serve all connections.                    *)
(*                                                                         *)
(* The kernel and the clients are external.  A byte is the pair of its     *)
(* client and its place in what that client sends.  The system calls that  *)
(* set the server up have succeeded; fewer than 20 connections exist, so   *)
(* one epoll_wait reports every event there is.                            *)
(***************************************************************************)
EXTENDS Naturals, Sequences, FiniteSets, SequencesExt

CONSTANTS
  Clients,
  LISTEN,    \* stands for listenfd among the events
  NBytes,    \* what a client sends in its life
  LineCap,   \* MAXLINE - 1
  SockBuf    \* bytes a connection holds on their way to the client

ASSUME EpollAssumption ==
  /\ LISTEN \notin Clients /\ IsFiniteSet(Clients)
  /\ {NBytes, LineCap, SockBuf} \subseteq Nat \ {0}

VARIABLES
  pc,        \* main is in epoll_wait ("wait"), in its loop over the "events", in the
             \* "read" loop of one of them, or has ended ("exit", "killed")
  batch,     \* the events not handled yet, the current one first
  line,      \* the nbytes bytes of line
  conn,      \* per client: "none", "queued" for accept, "open" or "closed" by the server
  watch,     \* per connection: registered for "in" or "out"
  armed,     \* per connection: the next readiness will be reported
  inbox,     \* bytes received and not read
  outbox,    \* bytes written that the client has not received
  sent,      \* how many bytes the client has sent
  got,       \* the bytes the client has received
  gone,      \* the client's end: "no", closed ("fin") or closed with unread data ("rst")
  sigpipe,   \* the SIGPIPE disposition the process has inherited
  mixed, cut, flood, skipped  \* history, read by the properties only

server == <<pc, batch, line>>
registered == <<conn, watch, armed>>
client == <<sent, got, gone>>
history == <<mixed, cut, flood, skipped>>
vars == <<server, registered, inbox, outbox, client, sigpipe, history>>

Init ==
  /\ pc = "wait" /\ batch = << >> /\ line = << >>
  /\ conn = [c \in Clients |-> "none"]
  /\ watch = [c \in Clients |-> "in"]
  /\ armed = [c \in Clients |-> FALSE]
  /\ inbox = [c \in Clients |-> << >>]
  /\ outbox = [c \in Clients |-> << >>]
  /\ sent = [c \in Clients |-> 0]
  /\ got = [c \in Clients |-> << >>]
  /\ gone = [c \in Clients |-> "no"]
  /\ sigpipe \in {"default", "ignored"}
  /\ mixed = {} /\ cut = {} /\ flood = {} /\ skipped = {}

------------------------------------------------------------------------------
(* Clients and the kernel.                                                 *)

Running == pc \notin {"exit", "killed"}
Present(c) == conn[c] \in {"queued", "open"} /\ gone[c] = "no"

Connect(c) ==
  /\ Running /\ conn[c] = "none"
  /\ conn' = [conn EXCEPT ![c] = "queued"]
  /\ UNCHANGED <<server, watch, armed, inbox, outbox, client, sigpipe, history>>

\* Bytes on their way back count as owed to the client.
Send(c) ==
  /\ Running /\ Present(c) /\ sent[c] < NBytes
  /\ sent' = [sent EXCEPT ![c] = @ + 1]
  /\ inbox' = [inbox EXCEPT ![c] = Append(@, <<c, sent[c] + 1>>)]
  /\ armed' = [armed EXCEPT ![c] = @ \/ watch[c] = "in"]
  /\ flood' = IF sent'[c] - Len(got[c]) >= LineCap THEN flood \union {c} ELSE flood
  /\ UNCHANGED <<server, conn, watch, outbox, got, gone, sigpipe, mixed, cut, skipped>>

Recv(c) ==
  /\ conn[c] # "none" /\ gone[c] = "no" /\ outbox[c] # << >>
  /\ got' = [got EXCEPT ![c] = Append(@, Head(outbox[c]))]
  /\ outbox' = [outbox EXCEPT ![c] = Tail(@)]
  /\ UNCHANGED <<server, registered, inbox, sent, gone, sigpipe, history>>

\* A reset is reported whatever the connection is registered for.
ClientClose(c, how) ==
  /\ Running /\ Present(c)
  /\ how = "rst" => outbox[c] # << >>
  /\ gone' = [gone EXCEPT ![c] = how]
  /\ outbox' = [outbox EXCEPT ![c] = << >>]
  /\ armed' = [armed EXCEPT ![c] = @ \/ watch[c] = "in" \/ how = "rst"]
  /\ UNCHANGED <<server, conn, watch, inbox, sent, got, sigpipe, history>>

Readable(c) == watch[c] = "in" /\ (inbox[c] # << >> \/ gone[c] # "no")
Writable(c) == watch[c] = "out" /\ (Len(outbox[c]) < SockBuf \/ gone[c] = "rst")

Due == {c \in Clients : conn[c] = "open" /\ armed[c] /\ (Readable(c) \/ Writable(c))}
         \union (IF \E c \in Clients : conn[c] = "queued" THEN {LISTEN} ELSE {})

------------------------------------------------------------------------------
(* The server.                                                             *)

\* epoll_wait: an edge is reported once.  A timeout reports nothing and changes nothing.
EpollWait ==
  /\ pc = "wait" /\ Due # {}
  /\ batch' \in SetToSeqs(Due)
  /\ armed' = [c \in Clients |-> armed[c] /\ c \notin Due]
  /\ pc' = "events"
  /\ UNCHANGED <<line, conn, watch, inbox, outbox, client, sigpipe, history>>

Handling(fd) == batch # << >> /\ Head(batch) = fd

EventDone ==
  /\ batch' = Tail(batch)
  /\ pc' = IF Len(batch) = 1 THEN "wait" ELSE "events"

\* epoll_ctl(EPOLL_CTL_ADD or EPOLL_CTL_MOD) arms the connection again.
Register(c, ev) ==
  /\ watch' = [watch EXCEPT ![c] = ev]
  /\ armed' = [armed EXCEPT ![c] = TRUE]

CloseFd(c) ==
  /\ conn' = [conn EXCEPT ![c] = "closed"]
  /\ inbox' = [inbox EXCEPT ![c] = << >>]
  /\ UNCHANGED <<watch, armed>>

Accept(c) ==
  /\ pc = "events" /\ Handling(LISTEN)
  /\ conn[c] = "queued"
  /\ conn' = [conn EXCEPT ![c] = "open"]
  /\ Register(c, "in")
  /\ EventDone
  /\ UNCHANGED <<line, inbox, outbox, client, sigpipe, history>>

\* accept may fail (no descriptor left, connection aborted): the server exits.
AcceptFails ==
  /\ pc = "events" /\ Handling(LISTEN)
  /\ pc' = "exit"
  /\ UNCHANGED <<batch, line, registered, inbox, outbox, client, sigpipe, history>>

\* Whoever has been read and not yet written back gets these bytes instead of its own.
Awaiting == {c \in Clients : conn[c] = "open" /\ watch[c] = "out"}

StartRead(c) ==
  /\ pc = "events" /\ Handling(c) /\ watch[c] = "in"
  /\ line' = << >>
  /\ mixed' = mixed \union Awaiting
  /\ pc' = "read"
  /\ UNCHANGED <<batch, registered, inbox, outbox, client, sigpipe, cut, flood, skipped>>

Least(a, b) == IF a < b THEN a ELSE b

\* Mutant of Room: one byte of line is kept back for a second terminator.
RoomLess == LineCap - 1 - Len(line)

Room == LineCap - Len(line)

\* Mutant of Read: each read stores at the start of line.
ReadAtStart(c) ==
  /\ pc = "read" /\ Handling(c) /\ Room > 0 /\ inbox[c] # << >>
  /\ LET n == Least(Room, Len(inbox[c]))
     IN  /\ line' = SubSeq(inbox[c], 1, n)
         /\ inbox' = [inbox EXCEPT ![c] = SubSeq(@, n + 1, Len(@))]
  /\ UNCHANGED <<pc, batch, registered, outbox, client, sigpipe, history>>

Read(c) ==
  /\ pc = "read" /\ Handling(c) /\ Room > 0 /\ inbox[c] # << >>
  /\ LET n == Least(Room, Len(inbox[c]))
     IN  /\ line' = line \o SubSeq(inbox[c], 1, n)
         /\ inbox' = [inbox EXCEPT ![c] = SubSeq(@, n + 1, Len(@))]
  /\ UNCHANGED <<pc, batch, registered, outbox, client, sigpipe, history>>

\* EAGAIN: everything has been read.
ReadAgain(c) ==
  /\ pc = "read" /\ Handling(c) /\ Room > 0 /\ inbox[c] = << >> /\ gone[c] = "no"
  /\ Register(c, "out")
  /\ EventDone
  /\ UNCHANGED <<line, conn, inbox, outbox, client, sigpipe, history>>

\* read returns 0 at the end of the stream, and when it is asked for 0 bytes.
ReadZero(c) ==
  /\ pc = "read" /\ Handling(c)
  /\ Room = 0 \/ (inbox[c] = << >> /\ gone[c] = "fin")
  /\ CloseFd(c)
  /\ EventDone
  /\ UNCHANGED <<line, outbox, client, sigpipe, history>>

ReadError(c) ==
  /\ pc = "read" /\ Handling(c) /\ Room > 0 /\ inbox[c] = << >> /\ gone[c] = "rst"
  /\ CloseFd(c)
  /\ EventDone
  /\ UNCHANGED <<line, outbox, client, sigpipe, history>>

\* Mutant of Write: the connection stays registered for output.
WriteOnly(c) ==
  /\ pc = "events" /\ Handling(c) /\ watch[c] = "out" /\ gone[c] # "rst"
  /\ LET n == Least(SockBuf - Len(outbox[c]), Len(line))
     IN  /\ outbox' = [outbox EXCEPT ![c] = IF gone[c] = "no" THEN @ \o SubSeq(line, 1, n) ELSE @]
         /\ cut' = IF n < Len(line) THEN cut \union {c} ELSE cut
  /\ EventDone
  /\ UNCHANGED <<line, registered, inbox, client, sigpipe, mixed, flood, skipped>>

\* write takes what fits and its result is only compared with 0: the rest is cut
\* off.  What is written to a client that is gone goes nowhere.
Write(c) ==
  /\ pc = "events" /\ Handling(c) /\ watch[c] = "out" /\ gone[c] # "rst"
  /\ LET n == Least(SockBuf - Len(outbox[c]), Len(line))
     IN  /\ outbox' = [outbox EXCEPT ![c] = IF gone[c] = "no" THEN @ \o SubSeq(line, 1, n) ELSE @]
         /\ cut' = IF n < Len(line) THEN cut \union {c} ELSE cut
  /\ Register(c, "in")
  /\ EventDone
  /\ UNCHANGED <<line, conn, inbox, client, sigpipe, mixed, flood, skipped>>

\* ECONNRESET is printed, and the connection waits for input as after a write.
WriteError(c) ==
  /\ pc = "events" /\ Handling(c) /\ watch[c] = "out" /\ gone[c] = "rst"
  /\ Register(c, "in")
  /\ EventDone
  /\ UNCHANGED <<line, conn, inbox, outbox, client, sigpipe, history>>

\* A reset that followed the end of the stream makes write raise SIGPIPE.
WritePipeKills(c) ==
  /\ pc = "events" /\ Handling(c) /\ watch[c] = "out" /\ gone[c] = "rst"
  /\ sigpipe = "default"
  /\ pc' = "killed"
  /\ UNCHANGED <<batch, line, registered, inbox, outbox, client, sigpipe, history>>

\* With SIGPIPE ignored it is EPIPE, and the break leaves the loop over the events:
\* the later ones of this batch are not handled.
WritePipe(c) ==
  /\ pc = "events" /\ Handling(c) /\ watch[c] = "out" /\ gone[c] = "rst"
  /\ sigpipe = "ignored"
  /\ CloseFd(c)
  /\ batch' = << >> /\ pc' = "wait"
  /\ skipped' = skipped \union (ToSet(Tail(batch)) \ {LISTEN})
  /\ UNCHANGED <<line, outbox, client, sigpipe, mixed, cut, flood>>

ServerStep ==
  \/ EpollWait
  \/ AcceptFails
  \/ \E c \in Clients :
       \/ Accept(c)
       \/ StartRead(c)
       \/ Read(c)
       \/ ReadAgain(c)
       \/ ReadZero(c)
       \/ ReadError(c)
       \/ Write(c)
       \/ WriteError(c)
       \/ WritePipe(c)
       \/ WritePipeKills(c)

Next ==
  \/ ServerStep
  \/ \E c \in Clients :
       \/ Connect(c)
       \/ Send(c)
       \/ Recv(c)
       \/ \E how \in {"fin", "rst"} : ClientClose(c, how)

Spec == Init /\ [][Next]_vars

\* The server runs; a client that stays takes what comes back.
FairSpec == Spec /\ WF_vars(ServerStep) /\ \A c \in Clients : WF_vars(Recv(c))

------------------------------------------------------------------------------
(* Properties.                                                             *)

Echoed(c) == got[c] \o outbox[c]
Own(c, s) == \A i \in DOMAIN s : s[i][1] = c
InOrder(s) == \A i, j \in DOMAIN s : i < j => s[i][2] < s[j][2]

\* One buffer for all (epoll_classic.c:121, 156): a client gets its own bytes back in
\* order, and without a gap if no write was cut short, unless another
\* connection was read between its own read and its own write.
EchoUnlessMixed ==
  \A c \in Clients \ mixed :
    /\ Own(c, Echoed(c)) /\ InOrder(Echoed(c))
    /\ c \notin cut => \A i \in DOMAIN Echoed(c) : Echoed(c)[i][2] = i

\* A full line makes the read return 0 (epoll_classic.c:124, 145), so the server
\* hangs up on clients that are still there: only on one that had as many bytes
\* outstanding as line holds, or whose answers another client got.
OnlyFloodersAreCutOff ==
  \A c \in Clients : conn[c] = "closed" /\ gone[c] = "no" => c \in flood \union mixed

\* Edges are reported once (epoll_classic.c:110, 135, 168): a connection with unread
\* bytes, or with an answer to write, always gets back to waiting for input with
\* everything read, unless its event came after an EPIPE in the same batch.
Served ==
  \A c \in Clients :
    (conn[c] = "open" /\ (inbox[c] # << >> \/ watch[c] = "out"))
      ~> \/ inbox[c] = << >> /\ watch[c] = "in"
         \/ conn[c] = "closed" \/ c \in skipped \/ ~Running
==============================================================================
