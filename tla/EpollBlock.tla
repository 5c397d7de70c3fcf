----------------------------- MODULE EpollBlock -----------------------------
(***************************************************************************)
(* epoll/epoll_block.c: one thread that receives from its connections in   *)
(* pieces of a few bytes.  main names four ways to call epoll_process,     *)
(* level or edge triggered and blocking or not, and has the last one       *)
(* switched on; the model takes any of them.  The listening socket is      *)
(* level triggered and does not block.                                     *)
(*                                                                         *)
(* The kernel is external: an edge triggered connection is reported again  *)
(* only when something more has come.                                      *)
(***************************************************************************)
EXTENDS Naturals, Sequences, FiniteSets

CONSTANTS
  Conns,
  PieceSize,    \* MAX_BUFFER_SIZE - 1
  MaxEvents,    \* MAX_EPOLL_EVENTS
  MaxGiven      \* bytes a client sends

ASSUME BlockAssumption ==
  /\ IsFiniteSet(Conns) /\ {"listen", "none"} \intersect Conns = {}
  /\ {PieceSize, MaxEvents, MaxGiven} \subseteq Nat \ {0}

VARIABLES
  mode,      \* epoll_type and block_type: [edge |-> BOOLEAN, block |-> BOOLEAN]
  conn,      \* "idle", "waits" to be accepted, "open" or "closed" by the server
  gives,     \* bytes the client has still to send
  unread,    \* bytes that have come and were not received
  hungUp,     \* clients that have closed their end
  ready,     \* connections the kernel has to report
  events,    \* events of this round not dealt with yet: "listen" or a connection
  inside,    \* the connection epoll_et_loop is in, or "none"
  failed     \* history: connections on which recv failed

ebVars == <<mode, conn, gives, unread, hungUp, ready, events, inside, failed>>

Listening == "listen"
Nobody == "none"

EbInit ==
  /\ mode \in [edge : BOOLEAN, block : BOOLEAN]
  /\ conn = [c \in Conns |-> "idle"] /\ gives = [c \in Conns |-> MaxGiven]
  /\ unread = [c \in Conns |-> 0] /\ hungUp = {} /\ ready = {}
  /\ events = << >> /\ inside = Nobody
  /\ failed = {}

------------------------------------------------------------------------------
(* The clients and the kernel.                                             *)

ClientConnects(c) ==
  /\ conn[c] = "idle"
  /\ conn' = [conn EXCEPT ![c] = "waits"]
  /\ UNCHANGED <<mode, gives, unread, hungUp, ready, events, inside, failed>>

\* A byte may come before the connection is accepted.
ClientSends(c) ==
  /\ conn[c] \in {"waits", "open"} /\ gives[c] > 0 /\ c \notin hungUp
  /\ gives' = [gives EXCEPT ![c] = @ - 1] /\ unread' = [unread EXCEPT ![c] = @ + 1]
  /\ ready' = IF conn[c] = "open" THEN ready \union {c} ELSE ready
  /\ UNCHANGED <<mode, conn, hungUp, events, inside, failed>>

ClientEnds(c) ==
  /\ conn[c] \in {"waits", "open"} /\ c \notin hungUp
  /\ hungUp' = hungUp \union {c}
  /\ ready' = IF conn[c] = "open" THEN ready \union {c} ELSE ready
  /\ UNCHANGED <<mode, conn, gives, unread, events, inside, failed>>

Waiting == {c \in Conns : conn[c] = "waits"}
Readable(c) == conn[c] = "open" /\ (unread[c] > 0 \/ c \in hungUp)

\* What epoll_wait may report: the listening socket as long as a connection waits.
Reportable == (IF Waiting # {} THEN {Listening} ELSE {}) \union {c \in ready : Readable(c)}

------------------------------------------------------------------------------
(* The server.                                                             *)

Orders(S) == {s \in [1..Cardinality(S) -> S] : \A i, j \in DOMAIN s : s[i] = s[j] => i = j}

\* An edge triggered connection leaves the list of the kernel when it is reported, a
\* level triggered one is looked at again.
epoll_wait ==
  /\ events = << >> /\ inside = Nobody /\ Reportable # {}
  /\ \E S \in SUBSET Reportable :
       /\ S # {} /\ Cardinality(S) <= MaxEvents
       /\ Cardinality(S) = MaxEvents \/ S = Reportable
       /\ events' \in Orders(S)
       /\ ready' = IF mode.edge THEN ready \ S ELSE ready
  /\ UNCHANGED <<mode, conn, gives, unread, hungUp, inside, failed>>

\* The kernel looks at a connection when it is added: what has come before is reported.
addfd_to_epoll(c) == ready' = ready \union {c}

Accept(c) ==
  /\ events # << >> /\ Head(events) = Listening /\ inside = Nobody
  /\ conn[c] = "waits"
  /\ conn' = [conn EXCEPT ![c] = "open"]
  /\ addfd_to_epoll(c)
  /\ events' = Tail(events)
  /\ UNCHANGED <<mode, gives, unread, hungUp, inside, failed>>

\* accept fails, as for want of descriptors: addfd_to_epoll is given -1, and fails as
\* quietly.
AcceptEmfile ==
  /\ events # << >> /\ Head(events) = Listening /\ inside = Nobody
  /\ events' = Tail(events)
  /\ UNCHANGED <<mode, conn, gives, unread, hungUp, ready, inside, failed>>

\* One recv of up to PieceSize bytes.
Piece(c) ==
  LET n == IF unread[c] < PieceSize THEN unread[c] ELSE PieceSize
  IN  unread' = [unread EXCEPT ![c] = @ - n]

Close(c) ==
  /\ conn' = [conn EXCEPT ![c] = "closed"]
  /\ ready' = ready \ {c}

ForConnection == events # << >> /\ inside = Nobody /\ Head(events) # Listening

\* One recv: bytes, the end or an error; EAGAIN would count as an error.
Once(c) ==
  \/ unread[c] > 0 /\ Piece(c) /\ UNCHANGED <<conn, ready, failed>>
  \/ unread[c] = 0 /\ Close(c) /\ UNCHANGED <<unread, failed>>
  \/ Close(c) /\ failed' = failed \union {c} /\ UNCHANGED unread

epoll_lt ==
  /\ ~mode.edge /\ ForConnection
  /\ Once(Head(events))
  /\ events' = Tail(events)
  /\ UNCHANGED <<mode, gives, hungUp, inside>>

\* Mutant of EtEnter: epoll_et_nonloop, which receives once.
EtEnterNonloop ==
  /\ mode.edge /\ ForConnection
  /\ Once(Head(events))
  /\ events' = Tail(events)
  /\ UNCHANGED <<mode, gives, hungUp, inside>>

EtEnter ==
  /\ mode.edge /\ ForConnection
  /\ inside' = Head(events) /\ events' = Tail(events)
  /\ UNCHANGED <<mode, conn, gives, unread, hungUp, ready, failed>>

\* The turns of epoll_et_loop: a piece; the end; or EAGAIN, on a socket that does not
\* block.  Without one of them a blocking recv waits.
EtPiece ==
  /\ inside # Nobody /\ unread[inside] > 0
  /\ Piece(inside)
  /\ UNCHANGED <<mode, conn, gives, hungUp, ready, events, inside, failed>>

EtEnd ==
  /\ inside # Nobody /\ unread[inside] = 0 /\ inside \in hungUp
  /\ Close(inside)
  /\ inside' = Nobody
  /\ UNCHANGED <<mode, gives, unread, hungUp, events, failed>>

EtAgain ==
  /\ inside # Nobody /\ unread[inside] = 0 /\ inside \notin hungUp /\ ~mode.block
  /\ inside' = Nobody
  /\ UNCHANGED <<mode, conn, gives, unread, hungUp, ready, events, failed>>

\* recv fails: the connection is closed with what is left in it.
RecvFails ==
  /\ inside # Nobody
  /\ Close(inside)
  /\ failed' = failed \union {inside}
  /\ inside' = Nobody
  /\ UNCHANGED <<mode, gives, unread, hungUp, events>>

EbNext ==
  \/ \E c \in Conns : ClientConnects(c) \/ ClientSends(c) \/ ClientEnds(c) \/ Accept(c)
  \/ epoll_wait \/ AcceptEmfile \/ epoll_lt
  \/ EtEnter \/ EtPiece \/ EtEnd \/ EtAgain \/ RecvFails

EbSpec == EbInit /\ [][EbNext]_ebVars

------------------------------------------------------------------------------

\* A connection with something to read is about to be dealt with: the kernel has it to
\* report, it is among the events of this round or the loop is in it.  So a server that
\* waits has received all that has come, with edge triggering only because epoll_et_loop
\* goes on until EAGAIN (epoll_block.c:73-92).  Unless recv failed, a connection is closed
\* only when its client has closed it and every byte of it has been received.
NothingLeftUnread ==
  /\ \A c \in Conns : Readable(c) =>
       c \in ready \/ c = inside \/ \E i \in DOMAIN events : events[i] = c
  /\ \A c \in Conns : conn[c] = "closed" => c \in failed \/ (c \in hungUp /\ unread[c] = 0)
=============================================================================
