--------------------------- MODULE ArrivalProofs ---------------------------
(***************************************************************************)
(* Loops that take what comes, in pieces nobody announced: EpollBlock for  *)
(* any set of connections, any pieces and any number of events, ForkServer *)
(* for any clients, children, backlog and volume, and GpsReader for any    *)
(* buffer that holds three bytes more than it keeps free, any number of    *)
(* items, failed reads and descriptors.                                    *)
(***************************************************************************)
EXTENDS EpollBlock, ForkServer, GpsReader, FiniteSetTheorems, FunctionTheorems, SequenceTheorems, TLAPS

(* EpollBlock.                                                             *)

EbType ==
  /\ mode \in [edge : BOOLEAN, block : BOOLEAN]
  /\ conn \in [Conns -> {"idle", "waits", "open", "closed"}]
  /\ gives \in [Conns -> Nat] /\ unread \in [Conns -> Nat]
  /\ hungUp \subseteq Conns /\ ready \subseteq Conns
  /\ events \in Seq(Conns \union {Listening})
  /\ inside \in Conns \union {Nobody} /\ (inside # Nobody => mode.edge)

\* The first part of NothingLeftUnread; a level triggered connection never leaves the
\* list of the kernel while there is something to read.
NotForgotten ==
  \A c \in Conns : Readable(c) =>
    \/ c \in ready
    \/ mode.edge /\ (c = inside \/ \E i \in DOMAIN events : events[i] = c)

\* The second part of NothingLeftUnread.
ClosedEmpty ==
  \A c \in Conns : conn[c] = "closed" => c \in failed \/ (c \in hungUp /\ unread[c] = 0)

\* One recv per event: what a level triggered event says still holds when it is dealt with.
EventsHold ==
  /\ \A i, j \in DOMAIN events : events[i] = events[j] => i = j
  /\ ~mode.edge => \A i \in DOMAIN events :
       events[i] # Listening => unread[events[i]] > 0 \/ events[i] \in hungUp

EbInv == EbType /\ NotForgotten /\ ClosedEmpty /\ EventsHold

\* Listening and Nobody stand for no connection.
LEMMA NoSuchConn == Listening \notin Conns /\ Nobody \notin Conns
BY BlockAssumption DEF Listening, Nobody

\* An order of a finite set is a sequence that has every member once.
LEMMA OrdersAll ==
  ASSUME NEW S, IsFiniteSet(S), NEW s \in Orders(S)
  PROVE  /\ s \in Seq(S)
         /\ \A i, j \in DOMAIN s : s[i] = s[j] => i = j
         /\ \A x \in S : \E i \in DOMAIN s : s[i] = x
<1>1. Cardinality(S) \in Nat
  BY FS_CardinalityType
<1>2. s \in [1..Cardinality(S) -> S] /\ \A i, j \in DOMAIN s : s[i] = s[j] => i = j
  BY DEF Orders
<1>3. s \in Seq(S)
  BY <1>1, <1>2
<1>4. s \in Injection(1..Cardinality(S), S)
  BY <1>2 DEF Injection, IsInjective
<1>5. Cardinality(1..Cardinality(S)) = Cardinality(S)
  BY <1>1, FS_Interval
<1>6. s \in Surjection(1..Cardinality(S), S)
  BY <1>4, <1>5, FS_Injection
<1>7. \A x \in S : \E i \in DOMAIN s : s[i] = x
  BY <1>2, <1>6 DEF Surjection
<1> QED BY <1>2, <1>3, <1>7

\* What is left when the first event is taken from the list.
LEMMA TailOfEvents ==
  ASSUME EbType, events # << >>
  PROVE  /\ Head(events) \in Conns \union {Listening} /\ Head(events) = events[1]
         /\ Tail(events) \in Seq(Conns \union {Listening})
         /\ \A i \in DOMAIN Tail(events) : i + 1 \in DOMAIN events /\ Tail(events)[i] = events[i + 1]
         /\ \A i \in DOMAIN events : i # 1 => i - 1 \in DOMAIN Tail(events)
         /\ 1 \in DOMAIN events
BY DEF EbType

\* Taking the first event from the list keeps what is known of the others.
LEMMA TailHolds ==
  ASSUME EbType, events # << >>, EventsHold, events' = Tail(events),
         UNCHANGED <<mode, hungUp>>, unread' \in [Conns -> Nat],
         \A c \in Conns : c # events[1] => unread'[c] >= unread[c]
  PROVE  EventsHold'
<1>1. \A i, j \in DOMAIN events' : events'[i] = events'[j] => i = j
  BY TailOfEvents DEF EventsHold
<1>2. ASSUME ~mode.edge, NEW i \in DOMAIN events', events'[i] # Listening
      PROVE  unread'[events'[i]] > 0 \/ events'[i] \in hungUp
  <2>1. i + 1 \in DOMAIN events /\ events'[i] = events[i + 1] /\ 1 \in DOMAIN events /\ i + 1 # 1
    BY TailOfEvents
  <2>2. events[i + 1] # events[1] /\ events[i + 1] \in Conns
    BY <1>2, <2>1 DEF EventsHold, EbType
  <2> QED BY <1>2, <2>1, <2>2 DEF EventsHold, EbType
<1> QED BY <1>1, <1>2 DEF EventsHold

\* Before the first connection there is nothing to read.
LEMMA EbInitInv == EbInit => EbInv
<1> SUFFICES ASSUME EbInit PROVE EbInv
  OBVIOUS
<1>1. EbType
  BY BlockAssumption DEF EbInit, EbType
<1> QED BY <1>1 DEF EbInit, EbInv, NotForgotten, Readable, ClosedEmpty, EventsHold

\* A client connects, sends or ends: what comes to an open connection is reported.
LEMMA ClientKeeps ==
  ASSUME EbInv, NEW c \in Conns, ClientConnects(c) \/ ClientSends(c) \/ ClientEnds(c)
  PROVE  EbInv'
<1>1. EbType'
  <2>1. CASE ClientConnects(c)
    BY <2>1 DEF EbInv, EbType, ClientConnects
  <2>2. CASE ClientSends(c)
    BY <2>2 DEF EbInv, EbType, ClientSends
  <2>3. CASE ClientEnds(c)
    BY <2>3 DEF EbInv, EbType, ClientEnds
  <2> QED BY <2>1, <2>2, <2>3
<1>2. NotForgotten'
  <2>1. CASE ClientConnects(c)
    BY <2>1 DEF EbInv, EbType, NotForgotten, Readable, ClientConnects
  <2>2. CASE ClientSends(c)
    BY <2>2 DEF EbInv, EbType, NotForgotten, Readable, ClientSends
  <2>3. CASE ClientEnds(c)
    BY <2>3 DEF EbInv, EbType, NotForgotten, Readable, ClientEnds
  <2> QED BY <2>1, <2>2, <2>3
<1>3. ClosedEmpty'
  BY DEF EbInv, EbType, ClosedEmpty, ClientConnects, ClientSends, ClientEnds
<1>4. EventsHold'
  <2>1. UNCHANGED <<mode, events>> /\ hungUp \subseteq hungUp'
    BY DEF ClientConnects, ClientSends, ClientEnds
  <2>2. \A d \in Conns : unread[d] > 0 => unread'[d] > 0
    BY DEF EbInv, EbType, ClientConnects, ClientSends, ClientEnds
  <2>3. \A i \in DOMAIN events : events[i] \in Conns \union {Listening}
    BY DEF EbInv, EbType
  <2> QED BY <2>1, <2>2, <2>3 DEF EbInv, EventsHold
<1> QED BY <1>1, <1>2, <1>3, <1>4 DEF EbInv

\* Every connection that leaves the kernel's list is in the round (epoll_block.c:158).
LEMMA WaitKeeps == EbInv /\ epoll_wait => EbInv'
<1> SUFFICES ASSUME EbInv, epoll_wait PROVE EbInv'
  OBVIOUS
<1>1. PICK S \in SUBSET Reportable :
        /\ events' \in Orders(S)
        /\ ready' = IF mode.edge THEN ready \ S ELSE ready
  BY DEF epoll_wait
<1>2. UNCHANGED <<mode, conn, gives, unread, hungUp, inside, failed>> /\ events = << >>
  BY DEF epoll_wait
<1>3. Reportable \subseteq Conns \union {Listening}
  BY DEF Reportable, EbInv, EbType
<1>4. IsFiniteSet(Conns \union {Listening})
  BY BlockAssumption, FS_AddElement
<1>5. IsFiniteSet(S)
  BY <1>1, <1>3, <1>4, FS_Subset
<1>6. /\ events' \in Seq(S)
      /\ \A i, j \in DOMAIN events' : events'[i] = events'[j] => i = j
      /\ \A x \in S : \E i \in DOMAIN events' : events'[i] = x
  BY <1>1, <1>5, OrdersAll
<1>7. \A i \in DOMAIN events' : events'[i] \in S
  BY <1>6
<1>8. EbType'
  <2>1. events' \in Seq(Conns \union {Listening})
    BY <1>1, <1>3, <1>6
  <2> QED BY <1>1, <1>2, <2>1 DEF EbInv, EbType
<1>9. NotForgotten'
  <2> SUFFICES ASSUME NEW c \in Conns, Readable(c)'
               PROVE  \/ c \in ready'
                      \/ mode.edge /\ (c = inside \/ \E i \in DOMAIN events' : events'[i] = c)
    BY <1>2 DEF NotForgotten
  <2>1. Readable(c)
    BY <1>2 DEF Readable
  <2>2. c \in ready \/ (mode.edge /\ c = inside)
    <3>1. DOMAIN events = {}
      BY <1>2
    <3> QED BY <2>1, <3>1 DEF EbInv, NotForgotten
  <2>3. CASE c \in ready' \/ (mode.edge /\ c = inside)
    BY <2>3
  <2>4. CASE c \in ready /\ c \notin ready'
    <3>1. mode.edge /\ c \in S
      BY <1>1, <2>4
    <3> QED BY <1>6, <3>1
  <2> QED BY <2>2, <2>3, <2>4
<1>10. ClosedEmpty'
  BY <1>2 DEF EbInv, ClosedEmpty
<1>11. EventsHold'
  <2>1. ASSUME NEW i \in DOMAIN events', events'[i] # Listening
        PROVE  unread[events'[i]] > 0 \/ events'[i] \in hungUp
    BY <1>1, <1>7, <2>1 DEF Reportable, Readable
  <2> QED BY <1>2, <1>6, <2>1 DEF EventsHold
<1> QED BY <1>8, <1>9, <1>10, <1>11 DEF EbInv

\* accept adds the connection with what has come before (epoll_block.c:171); a failed
\* accept changes only the list.
LEMMA EventAcceptKeeps ==
  ASSUME EbInv, AcceptEmfile \/ \E c \in Conns : Accept(c)
  PROVE  EbInv'
<1>1. /\ events # << >> /\ Head(events) = Listening /\ events' = Tail(events)
      /\ UNCHANGED <<mode, gives, unread, hungUp, inside, failed>>
  BY DEF AcceptEmfile, Accept
<1>2. EventsHold'
  BY <1>1, TailHolds DEF EbInv, EbType
<1>3. EbType'
  BY <1>1, TailOfEvents DEF EbInv, EbType, AcceptEmfile, Accept, addfd_to_epoll
<1>4. \A c \in Conns : (\E i \in DOMAIN events : events[i] = c) => \E i \in DOMAIN events' : events'[i] = c
  <2> SUFFICES ASSUME NEW c \in Conns, NEW i \in DOMAIN events, events[i] = c
               PROVE  \E j \in DOMAIN events' : events'[j] = c
    OBVIOUS
  <2>1. i # 1
    BY <1>1, TailOfEvents, NoSuchConn DEF EbInv
  <2>2. i - 1 \in DOMAIN Tail(events) /\ (i - 1) + 1 = i
    BY <1>1, <2>1, TailOfEvents DEF EbInv, EbType
  <2>3. Tail(events)[i - 1] = events[i]
    BY <1>1, <2>2, TailOfEvents DEF EbInv
  <2> QED BY <1>1, <2>2, <2>3
<1>5. NotForgotten'
  <2>1. \A c \in Conns : Readable(c)' => c \in ready' \/ Readable(c)
    BY <1>1 DEF Readable, AcceptEmfile, Accept, addfd_to_epoll, EbInv, EbType
  <2>2. ready \subseteq ready'
    BY DEF AcceptEmfile, Accept, addfd_to_epoll
  <2> QED BY <1>1, <1>4, <2>1, <2>2 DEF EbInv, NotForgotten
<1>6. ClosedEmpty'
  BY <1>1 DEF ClosedEmpty, EbInv, EbType, AcceptEmfile, Accept
<1> QED BY <1>2, <1>3, <1>5, <1>6 DEF EbInv

\* One recv for a level triggered event, and the connection is looked at again.
LEMMA LevelKeeps == EbInv /\ epoll_lt => EbInv'
<1> SUFFICES ASSUME EbInv, epoll_lt PROVE EbInv'
  OBVIOUS
<1> DEFINE c == Head(events)
<1>1. /\ ~mode.edge /\ events # << >> /\ c # Listening /\ events' = Tail(events)
      /\ Once(c) /\ UNCHANGED <<mode, gives, hungUp, inside>>
  BY DEF epoll_lt, ForConnection
<1>2. c \in Conns /\ c = events[1] /\ 1 \in DOMAIN events /\ events' \in Seq(Conns \union {Listening})
  BY <1>1, TailOfEvents DEF EbInv
<1> HIDE DEF c
<1>3. unread[c] > 0 \/ c \in hungUp
  BY <1>1, <1>2 DEF EbInv, EventsHold
<1>4. /\ unread' \in [Conns -> Nat]
      /\ \A d \in Conns : (d # c => unread'[d] = unread[d]) /\ unread'[d] <= unread[d]
  BY <1>1, <1>2, BlockAssumption DEF Once, Piece, EbInv, EbType
<1>5. EbType'
  <2>1. conn' \in [Conns -> {"idle", "waits", "open", "closed"}] /\ ready' \subseteq Conns
    BY <1>1, <1>2 DEF Once, Close, EbInv, EbType
  <2> QED BY <1>1, <1>2, <1>4, <2>1 DEF EbInv, EbType
<1>6. EventsHold'
  BY <1>1, <1>2, <1>4, TailHolds DEF EbInv, EbType
<1>7. NotForgotten'
  <2>1. \A d \in Conns : Readable(d)' => Readable(d) /\ (d \in ready => d \in ready')
    BY <1>1, <1>2, <1>4 DEF Readable, Once, Close, EbInv, EbType
  <2> QED BY <1>1, <2>1 DEF EbInv, NotForgotten
<1>8. ClosedEmpty'
  <2> SUFFICES ASSUME NEW d \in Conns, conn'[d] = "closed"
               PROVE  d \in failed' \/ (d \in hungUp /\ unread'[d] = 0)
    BY <1>1 DEF ClosedEmpty
  <2>1. CASE conn[d] = "closed"
    BY <1>1, <1>4, <2>1 DEF Once, EbInv, EbType, ClosedEmpty
  <2>2. CASE conn[d] # "closed"
    <3>1. d = c /\ Close(c)
      BY <1>1, <1>2, <2>2 DEF Once, Close, EbInv, EbType
    <3> QED BY <1>1, <1>2, <1>3, <1>4, <2>2, <3>1 DEF Once, EbInv, EbType
  <2> QED BY <2>1, <2>2
<1> QED BY <1>5, <1>6, <1>7, <1>8 DEF EbInv

\* An edge triggered event moves its connection from the list into the loop.
LEMMA EnterKeeps == EbInv /\ EtEnter => EbInv'
<1> SUFFICES ASSUME EbInv, EtEnter PROVE EbInv'
  OBVIOUS
<1>1. /\ mode.edge /\ events # << >> /\ Head(events) # Listening /\ inside = Nobody
      /\ inside' = Head(events) /\ events' = Tail(events)
      /\ UNCHANGED <<mode, conn, gives, unread, hungUp, ready, failed>>
  BY DEF EtEnter, ForConnection
<1>2. Head(events) \in Conns /\ Head(events) = events[1] /\ events' \in Seq(Conns \union {Listening})
  BY <1>1, TailOfEvents DEF EbInv
<1>3. EbType'
  BY <1>1, <1>2 DEF EbInv, EbType
<1>4. EventsHold'
  BY <1>1, TailHolds DEF EbInv, EbType
<1>5. NotForgotten'
  <2> SUFFICES ASSUME NEW c \in Conns, Readable(c)', c \notin ready
               PROVE  c = inside' \/ \E i \in DOMAIN events' : events'[i] = c
    BY <1>1 DEF NotForgotten
  <2>1. Readable(c)
    BY <1>1 DEF Readable
  <2>2. PICK i \in DOMAIN events : events[i] = c
    BY <1>1, <2>1, NoSuchConn DEF EbInv, NotForgotten
  <2>3. CASE i = 1
    BY <1>1, <1>2, <2>2, <2>3
  <2>4. CASE i # 1
    <3>1. i - 1 \in DOMAIN Tail(events) /\ (i - 1) + 1 = i
      BY <1>1, <2>4, TailOfEvents DEF EbInv, EbType
    <3>2. Tail(events)[i - 1] = events[i]
      BY <1>1, <3>1, TailOfEvents DEF EbInv
    <3> QED BY <1>1, <2>2, <3>1, <3>2
  <2> QED BY <2>3, <2>4
<1>6. ClosedEmpty'
  BY <1>1 DEF EbInv, ClosedEmpty
<1> QED BY <1>3, <1>4, <1>5, <1>6 DEF EbInv

\* epoll_et_loop leaves a connection only when it is closed or nothing is left in it
\* (epoll_block.c:73-92).
LEMMA LoopKeeps ==
  ASSUME EbInv, EtPiece \/ EtEnd \/ EtAgain \/ RecvFails
  PROVE  EbInv'
<1>1. inside \in Conns /\ mode.edge /\ UNCHANGED <<mode, gives, hungUp, events>>
  BY DEF EtPiece, EtEnd, EtAgain, RecvFails, EbInv, EbType
<1>2. /\ unread' \in [Conns -> Nat]
      /\ \A c \in Conns : unread'[c] <= unread[c]
      /\ \A c \in Conns : c # inside => unread'[c] = unread[c]
  <2>1. CASE EtPiece
    BY <1>1, <2>1, BlockAssumption DEF EtPiece, Piece, EbInv, EbType
  <2>2. CASE EtEnd \/ EtAgain \/ RecvFails
    BY <2>2 DEF EtEnd, EtAgain, RecvFails, EbInv, EbType
  <2> QED BY <2>1, <2>2
<1>3. EbType'
  <2>1. conn' \in [Conns -> {"idle", "waits", "open", "closed"}] /\ ready' \subseteq Conns
    BY <1>1 DEF EtPiece, EtEnd, EtAgain, RecvFails, Close, EbInv, EbType
  <2>2. inside' \in Conns \union {Nobody}
    BY <1>1 DEF EtPiece, EtEnd, EtAgain, RecvFails
  <2> QED BY <1>1, <1>2, <2>1, <2>2 DEF EbInv, EbType
<1>4. NotForgotten'
  <2>1. \A c \in Conns : Readable(c)' => Readable(c)
    BY <1>1, <1>2 DEF Readable, EtPiece, EtEnd, EtAgain, RecvFails, Close, EbInv, EbType
  <2>2. \A c \in Conns : Readable(c)' /\ c = inside => inside' = inside
    BY <1>1, <1>2 DEF Readable, EtPiece, EtEnd, EtAgain, RecvFails, Close, EbInv, EbType
  <2>3. \A c \in Conns : c # inside /\ c \in ready => c \in ready'
    BY DEF EtPiece, EtEnd, EtAgain, RecvFails, Close
  <2> QED BY <1>1, <2>1, <2>2, <2>3 DEF EbInv, NotForgotten
<1>5. ClosedEmpty'
  <2>1. failed \subseteq failed'
    BY DEF EtPiece, EtEnd, EtAgain, RecvFails
  <2>2. \A c \in Conns : conn'[c] = "closed" =>
          conn[c] = "closed" \/ c \in failed' \/ (c \in hungUp /\ unread[c] = 0)
    BY <1>1 DEF EtPiece, EtEnd, EtAgain, RecvFails, Close, EbInv, EbType
  <2>3. \A c \in Conns : unread[c] = 0 => unread'[c] = 0
    BY <1>2 DEF EbInv, EbType
  <2> QED BY <1>1, <2>1, <2>2, <2>3 DEF EbInv, ClosedEmpty
<1>6. EventsHold'
  BY <1>1 DEF EbInv, EventsHold
<1> QED BY <1>3, <1>4, <1>5, <1>6 DEF EbInv

\* The invariant holds of every behaviour of the server, in all its four modes.
LEMMA EbAlways == EbSpec => []EbInv
<1>1. ASSUME EbInv, UNCHANGED ebVars PROVE EbInv'
  BY <1>1 DEF ebVars, EbInv, EbType, NotForgotten, Readable, ClosedEmpty, EventsHold
<1>2. EbInv /\ [EbNext]_ebVars => EbInv'
  BY <1>1, ClientKeeps, WaitKeeps, EventAcceptKeeps, LevelKeeps, EnterKeeps, LoopKeeps DEF EbNext
<1> QED BY EbInitInv, <1>2, PTL DEF EbSpec

\* A server that waits has received all that has come, and no connection is closed with
\* bytes in it unless recv failed (epoll_block.c:73-92), for any number of connections,
\* pieces and events.
THEOREM AllIsRead == EbSpec => []NothingLeftUnread
<1>1. EbInv => NothingLeftUnread
  BY DEF EbInv, NotForgotten, ClosedEmpty, NothingLeftUnread
<1> QED BY <1>1, EbAlways, PTL

------------------------------------------------------------------------------
(* ForkServer.                                                             *)

FsType ==
  /\ service \in {"time", "select", "largedata"}
  /\ does \in [Servers -> {"unborn", "accept", "fork", "serve", "exit"}]
  /\ DOMAIN sfd = Servers
  /\ \A p \in Servers : does[p] \in {"fork", "serve"} => sfd[p] \in Clients
  /\ has \in [Servers -> SUBSET Clients]
  /\ backlog \in Seq(Clients)
  /\ client \in [Clients -> {"idle", "up", "closed", "over", "refused"}]
  /\ wire \in [Clients -> Nat] /\ posted \in [Clients -> Nat] /\ read \in [Clients -> Nat]
  /\ by \in [Clients -> SUBSET Children]
  /\ orphan \subseteq Clients

Forking(p) == does[p] = "fork"

\* A connection waits in one place of the backlog, and nobody has had it.
BacklogNew ==
  /\ \A i, j \in DOMAIN backlog : backlog[i] = backlog[j] => i = j
  /\ \A i \in DOMAIN backlog : by[backlog[i]] = {} /\ backlog[i] \notin orphan
  /\ \A c \in Clients : client[c] = "idle" => by[c] = {} /\ c \notin orphan /\ ~Queued(c)

\* A process that is about to fork holds a connection that only it has accepted.
ForkingNew ==
  \A p \in Servers : Forking(p) =>
    /\ sfd[p] \in has[p] /\ by[sfd[p]] = {} /\ sfd[p] \notin orphan
    /\ ~Queued(sfd[p]) /\ client[sfd[p]] # "idle"
    /\ \A q \in Servers : Forking(q) /\ sfd[q] = sfd[p] => q = p

\* Nobody serves a connection twice, or one that was given up.
ServedOnce ==
  /\ \A c \in Clients : by[c] # {} => c \notin orphan
  /\ \A c \in Clients : \A p, q \in by[c] : p = q
  /\ \A c \in Clients : \A p \in by[c] : does[p] # "unborn"

\* In the time servers the first process accepts and its children serve until their
\* client has closed.
TimeRoles ==
  service # "largedata" =>
    /\ does["server"] \in {"accept", "fork"} \/ (does["server"] = "exit" /\ "server" \in full)
    /\ does["server"] # "exit" => "server" \notin full
    /\ \A p \in Children : does[p] \in {"unborn", "serve", "exit"}
    /\ \A c \in Clients : \A p \in by[c] :
         \/ does[p] = "serve" /\ sfd[p] = c /\ c \in has[p]
         \/ does[p] = "exit" /\ client[c] = "closed"

\* A connection ends for its client when nobody has it any more, and the first process
\* keeps every connection it has accepted until it leaves.
TimeEnds ==
  /\ \A c \in Clients : client[c] = "over" => ~Open(c) /\ ~Queued(c)
  /\ service # "largedata" =>
       \A c \in Clients :
         /\ client[c] = "over" => by[c] = {} /\ "server" \in full
         /\ client[c] = "up" /\ "server" \notin full => Queued(c) \/ c \in has["server"]

Accepted == orphan \union {c \in Clients : by[c] # {}}

\* What the first process has open.
TimeHolds ==
  service # "largedata" =>
    /\ "server" \notin full =>
         has["server"] = Accepted \union (IF Forking("server") THEN {sfd["server"]} ELSE {})
    /\ "server" \in full => Cardinality(Accepted) = MaxConns

\* A piece written is on the wire or read; a child closes its connection at its end.
LargeRead ==
  service = "largedata" =>
    /\ \A c \in Clients : read[c] + wire[c] = posted[c]
    /\ \A c \in Clients : \A p \in by[c] : c \notin has[p] =>
         p \in full \/ c \in broken \/ (read[c] = posted[c] /\ client[c] # "up")

FsInv ==
  FsType /\ BacklogNew /\ ForkingNew /\ ServedOnce /\ TimeRoles /\ TimeEnds /\ TimeHolds /\ LargeRead

\* A set whose members are all the same has at most one.
LEMMA AtMostOne ==
  ASSUME NEW S, \A p, q \in S : p = q
  PROVE  Cardinality(S) <= 1
<1>1. CASE S = {}
  BY <1>1, FS_EmptySet
<1>2. CASE S # {}
  <2>1. PICK p \in S : TRUE
    BY <1>2
  <2>2. S = {p}
    BY <2>1
  <2>3. Cardinality({p}) = 1
    BY FS_Singleton
  <2> QED BY <2>2, <2>3
<1> QED BY <1>1, <1>2

\* The first process is none of the children.
LEMMA ServerApart == "server" \in Servers /\ Children \subseteq Servers /\ "server" \notin Children
BY ForkAssumption DEF Servers

\* Nobody has connected when the server listens.
LEMMA FsInitInv == FsInit => FsInv
<1> SUFFICES ASSUME FsInit PROVE FsInv
  OBVIOUS
<1> USE ServerApart DEF FsInit
<1>1. FsType
  BY DEF FsType
<1>2. BacklogNew /\ ForkingNew /\ ServedOnce
  BY DEF BacklogNew, ForkingNew, ServedOnce, Queued, Forking
<1>3. TimeRoles
  BY DEF TimeRoles
<1>4. TimeEnds
  BY DEF TimeEnds
<1>5. Accepted = {}
  BY DEF Accepted
<1>6. TimeHolds
  BY <1>5 DEF TimeHolds, Forking
<1>7. LargeRead
  BY DEF LargeRead
<1> QED BY <1>1, <1>2, <1>3, <1>4, <1>6, <1>7 DEF FsInv

\* Clients that close or are refused take no connection from anybody.
LEMMA ClientLeaves ==
  ASSUME FsInv, UNCHANGED <<service, processes, backlog, wire, posted, read, histories>>,
         client' \in [Clients -> {"idle", "up", "closed", "over", "refused"}],
         \A c \in Clients : \/ client'[c] = client[c]
                            \/ client[c] = "up" /\ client'[c] = "closed"
                            \/ client[c] = "idle" /\ client'[c] = "refused"
  PROVE  FsInv'
<1> USE DEF FsInv, processes, histories
<1>1. FsType'
  BY DEF FsType
<1>2. BacklogNew'
  BY DEF BacklogNew, Queued
<1>3. ForkingNew'
  BY DEF ForkingNew, Forking, Queued, FsType
<1>4. ServedOnce'
  BY DEF ServedOnce
<1>5. TimeRoles'
  <2>1. \A c \in Clients : client[c] = "closed" => client'[c] = "closed"
    OBVIOUS
  <2> QED BY <2>1 DEF TimeRoles
<1>6. TimeEnds'
  BY DEF TimeEnds, Open, Queued
<1>7. TimeHolds'
  BY DEF TimeHolds, Forking, Accepted
<1>8. LargeRead'
  BY DEF LargeRead
<1> QED BY <1>1, <1>2, <1>3, <1>4, <1>5, <1>6, <1>7, <1>8

\* A new connection is the last of the backlog.
LEMMA Queueing ==
  ASSUME FsType, NEW c \in Clients, backlog' = Append(backlog, c)
  PROVE  /\ backlog' \in Seq(Clients)
         /\ \A i \in DOMAIN backlog : i \in DOMAIN backlog' /\ backlog'[i] = backlog[i]
         /\ \A i \in DOMAIN backlog' : i \in DOMAIN backlog \/ (i = Len(backlog) + 1 /\ backlog'[i] = c)
         /\ \A d \in Clients : Queued(d)' <=> Queued(d) \/ d = c
<1>1. /\ backlog' \in Seq(Clients) /\ DOMAIN backlog = 1..Len(backlog)
      /\ DOMAIN backlog' = 1..(Len(backlog) + 1) /\ Len(backlog) \in Nat
  BY DEF FsType
<1>2. \A i \in DOMAIN backlog : i \in DOMAIN backlog' /\ backlog'[i] = backlog[i]
  BY <1>1 DEF FsType
<1>3. \A i \in DOMAIN backlog' : i \in DOMAIN backlog \/ (i = Len(backlog) + 1 /\ backlog'[i] = c)
  BY <1>1 DEF FsType
<1>4. Len(backlog) + 1 \in DOMAIN backlog' /\ backlog'[Len(backlog) + 1] = c
  BY <1>1 DEF FsType
<1>5. \A d \in Clients : Queued(d)' <=> Queued(d) \/ d = c
  BY <1>2, <1>3, <1>4 DEF Queued
<1> QED BY <1>1, <1>2, <1>3, <1>5

\* A client that was idle is in nobody's hands.
LEMMA ConnectKeeps == ASSUME FsInv, NEW c \in Clients, Connect(c) PROVE FsInv'
<1> USE DEF FsInv
<1>1. /\ client[c] = "idle" /\ client' = [client EXCEPT ![c] = "up"] /\ backlog' = Append(backlog, c)
      /\ UNCHANGED <<service, wire, posted, read, does, sfd, has, by, orphan, broken, full>>
  BY DEF Connect, processes, histories
<1>2. FsType'
  BY <1>1, Queueing DEF FsType
<1>3. BacklogNew'
  <2>1. ~Queued(c) /\ by[c] = {} /\ c \notin orphan
    BY <1>1 DEF BacklogNew
  <2>2. \A i, j \in DOMAIN backlog' : backlog'[i] = backlog'[j] => i = j
    <3>1. \A i \in DOMAIN backlog : backlog[i] # c
      BY <2>1 DEF Queued
    <3> QED BY <1>1, <3>1, Queueing DEF BacklogNew
  <2>3. \A i \in DOMAIN backlog' : by'[backlog'[i]] = {} /\ backlog'[i] \notin orphan'
    BY <1>1, <2>1, Queueing DEF BacklogNew
  <2>4. \A d \in Clients : client'[d] = "idle" => by'[d] = {} /\ d \notin orphan' /\ ~Queued(d)'
    BY <1>1, Queueing DEF BacklogNew, FsType
  <2> QED BY <2>2, <2>3, <2>4 DEF BacklogNew
<1>4. ForkingNew'
  BY <1>1, Queueing DEF ForkingNew, Forking, FsType
<1>5. ServedOnce' /\ TimeRoles'
  BY <1>1 DEF ServedOnce, TimeRoles, FsType
<1>6. TimeEnds'
  <2>1. \A d \in Clients : Open(d)' <=> Open(d)
    BY <1>1 DEF Open
  <2> QED BY <1>1, <2>1, Queueing DEF TimeEnds, FsType
<1>7. TimeHolds'
  BY <1>1 DEF TimeHolds, Forking, Accepted
<1>8. LargeRead'
  BY <1>1 DEF LargeRead, BacklogNew, FsType
<1> QED BY <1>2, <1>3, <1>4, <1>5, <1>6, <1>7, <1>8

\* A client reads the end only of a connection that nobody has any more.
LEMMA ReadTimeKeeps ==
  ASSUME FsInv, service # "largedata", NEW c \in Clients, ReadTime(c)
  PROVE  FsInv'
<1> USE DEF FsInv
<1>1. /\ UNCHANGED <<service, posted, read, does, sfd, has, backlog, by, orphan, broken, full>>
      /\ client[c] = "up"
  BY DEF ReadTime, processes, histories
<1>2. CASE wire' = [wire EXCEPT ![c] = 0] /\ UNCHANGED client
  <2>1. FsType'
    BY <1>1, <1>2 DEF FsType
  <2>2. BacklogNew' /\ ForkingNew' /\ ServedOnce' /\ TimeRoles'
    BY <1>1, <1>2 DEF BacklogNew, ForkingNew, Forking, Queued, ServedOnce, TimeRoles
  <2>3. TimeEnds' /\ TimeHolds' /\ LargeRead'
    BY <1>1, <1>2 DEF TimeEnds, Open, Queued, TimeHolds, Forking, Accepted, LargeRead
  <2> QED BY <2>1, <2>2, <2>3
<1>3. CASE ~Open(c) /\ ~Queued(c) /\ client' = [client EXCEPT ![c] = "over"] /\ UNCHANGED wire
  <2>1. FsType'
    BY <1>1, <1>3 DEF FsType
  <2>2. BacklogNew' /\ ForkingNew' /\ ServedOnce'
    BY <1>1, <1>3 DEF BacklogNew, ForkingNew, Forking, Queued, ServedOnce, FsType
  <2>3. by[c] = {}
    BY <1>1, <1>3, ServerApart DEF TimeRoles, Open, FsType
  <2>4. TimeRoles'
    BY <1>1, <1>3, <2>3 DEF TimeRoles, FsType
  <2>5. "server" \in full
    BY <1>1, <1>3, ServerApart DEF TimeEnds, Open
  <2>6. TimeEnds'
    BY <1>1, <1>3, <2>3, <2>5 DEF TimeEnds, Open, Queued, FsType
  <2>7. TimeHolds' /\ LargeRead'
    BY <1>1 DEF TimeHolds, Forking, Accepted, LargeRead
  <2> QED BY <2>1, <2>2, <2>4, <2>6, <2>7
<1> QED BY <1>2, <1>3 DEF ReadTime

\* What a client of largedata writes is on the wire.
LEMMA WriteLargeKeeps == ASSUME FsInv, NEW c \in Clients, WriteLarge(c) PROVE FsInv'
<1> USE DEF FsInv
<1>1. /\ UNCHANGED <<service, does, sfd, has, backlog, client, read, by, orphan, broken, full>>
      /\ client[c] = "up" /\ service = "largedata"
  BY DEF WriteLarge, processes, histories
<1>2. PICK n \in 1..(Window - wire[c]) :
        posted' = [posted EXCEPT ![c] = @ + n] /\ wire' = [wire EXCEPT ![c] = @ + n]
  BY DEF WriteLarge
<1>3. n \in Nat
  BY <1>2, ForkAssumption DEF FsType
<1>4. FsType'
  BY <1>1, <1>2, <1>3 DEF FsType
<1>5. BacklogNew' /\ ForkingNew' /\ ServedOnce' /\ TimeRoles'
  BY <1>1 DEF BacklogNew, ForkingNew, Forking, Queued, ServedOnce, TimeRoles
<1>6. TimeEnds' /\ TimeHolds'
  BY <1>1 DEF TimeEnds, Open, Queued, TimeHolds, Forking, Accepted
<1>7. LargeRead'
  <2>1. \A d \in Clients : read'[d] + wire'[d] = posted'[d]
    BY <1>1, <1>2, <1>3 DEF LargeRead, FsType
  <2>2. \A d \in Clients : d # c => posted'[d] = posted[d]
    BY <1>2 DEF FsType
  <2> QED BY <1>1, <2>1, <2>2 DEF LargeRead
<1> QED BY <1>4, <1>5, <1>6, <1>7

\* The connection that accept takes is in the backlog no longer, and the others are.
LEMMA Dequeueing ==
  ASSUME FsType, BacklogNew, backlog # << >>, backlog' = Tail(backlog)
  PROVE  /\ Head(backlog) \in Clients /\ Queued(Head(backlog)) /\ by[Head(backlog)] = {}
         /\ backlog' \in Seq(Clients)
         /\ \A i \in DOMAIN backlog' : i + 1 \in DOMAIN backlog /\ backlog'[i] = backlog[i + 1]
         /\ \A d \in Clients : Queued(d)' <=> Queued(d) /\ d # Head(backlog)
<1>1. /\ Head(backlog) \in Clients /\ backlog' \in Seq(Clients)
      /\ 1 \in DOMAIN backlog /\ Head(backlog) = backlog[1]
  BY DEF FsType
<1>2. \A i \in DOMAIN backlog' : i + 1 \in DOMAIN backlog /\ backlog'[i] = backlog[i + 1] /\ i + 1 # 1
  <2>1. backlog \in Seq(Clients)
    BY DEF FsType
  <2>2. DOMAIN backlog' = 1..(Len(backlog) - 1) /\ DOMAIN backlog = 1..Len(backlog) /\ Len(backlog) \in Nat
    BY <2>1
  <2>3. \A i \in 1..(Len(backlog) - 1) : backlog'[i] = backlog[i + 1]
    BY <2>1
  <2> QED BY <2>2, <2>3
<1>3. \A i \in DOMAIN backlog : i # 1 => i - 1 \in DOMAIN backlog' /\ backlog'[i - 1] = backlog[i]
  BY DEF FsType
<1>4. \A d \in Clients : Queued(d)' <=> Queued(d) /\ d # Head(backlog)
  <2> SUFFICES ASSUME NEW d \in Clients PROVE Queued(d)' <=> Queued(d) /\ d # Head(backlog)
    OBVIOUS
  <2>1. ASSUME NEW i \in DOMAIN backlog', backlog'[i] = d PROVE Queued(d) /\ d # Head(backlog)
    BY <1>1, <1>2, <2>1 DEF Queued, BacklogNew
  <2>2. ASSUME NEW i \in DOMAIN backlog, backlog[i] = d, d # Head(backlog)
        PROVE  \E j \in DOMAIN backlog' : backlog'[j] = d
    BY <1>1, <1>3, <2>2
  <2> QED BY <2>1, <2>2 DEF Queued
<1> QED BY <1>1, <1>2, <1>4 DEF Queued, BacklogNew

\* What is left in the backlog is as new as before.
LEMMA BacklogStaysNew ==
  ASSUME FsType, BacklogNew, backlog # << >>, backlog' = Tail(backlog), UNCHANGED <<by, orphan, client>>
  PROVE  BacklogNew'
<1>1. \A i, j \in DOMAIN backlog' : backlog'[i] = backlog'[j] => i = j
  <2> SUFFICES ASSUME NEW i \in DOMAIN backlog', NEW j \in DOMAIN backlog', backlog'[i] = backlog'[j]
               PROVE  i = j
    OBVIOUS
  <2>1. i + 1 = j + 1
    BY Dequeueing DEF BacklogNew
  <2> QED BY <2>1, Dequeueing DEF FsType
<1>2. \A i \in DOMAIN backlog' : by'[backlog'[i]] = {} /\ backlog'[i] \notin orphan'
  BY Dequeueing DEF BacklogNew
<1>3. \A d \in Clients : client'[d] = "idle" => by'[d] = {} /\ d \notin orphan' /\ ~Queued(d)'
  BY Dequeueing DEF BacklogNew
<1> QED BY <1>1, <1>2, <1>3 DEF BacklogNew

\* accept: the connection goes from the backlog to one process.
LEMMA AcceptKeeps == ASSUME FsInv, NEW p \in Servers, accept(p) PROVE FsInv'
<1> USE DEF FsInv
<1>0. PICK c : c = Head(backlog)
  OBVIOUS
<1>1. /\ does[p] = "accept" /\ backlog # << >> /\ backlog' = Tail(backlog)
      /\ sfd' = [sfd EXCEPT ![p] = c] /\ has' = [has EXCEPT ![p] = @ \union {c}]
      /\ does' = [does EXCEPT ![p] = "fork"]
      /\ UNCHANGED <<service, client, wire, posted, read, by, orphan, broken, full>>
  BY <1>0 DEF accept, histories
<1>2. /\ c \in Clients /\ Queued(c) /\ by[c] = {}
      /\ backlog' \in Seq(Clients)
      /\ \A d \in Clients : Queued(d)' <=> Queued(d) /\ d # c
  BY <1>0, <1>1, Dequeueing
<1>3. FsType'
  BY <1>1, <1>2 DEF FsType
<1>4. BacklogNew'
  BY <1>1, BacklogStaysNew
<1>5. c \notin orphan /\ client[c] # "idle"
  BY <1>2 DEF BacklogNew, Queued
<1>6. ForkingNew'
  <2>1. sfd'[p] = c /\ c \in has'[p]
    BY <1>1, <1>2 DEF FsType
  <2>2. \A q \in Servers : q # p => does'[q] = does[q] /\ sfd'[q] = sfd[q] /\ has'[q] = has[q]
    BY <1>1 DEF FsType
  <2>3. \A q \in Servers : q # p /\ Forking(q) => sfd[q] # c /\ sfd[q] \in Clients
    BY <1>2 DEF ForkingNew, Forking, FsType
  <2>4. \A q \in Servers : q # p => (Forking(q)' <=> Forking(q))
    BY <2>2 DEF Forking
  <2>5. ASSUME NEW q \in Servers, q # p, Forking(q)'
        PROVE  /\ sfd'[q] \in has'[q] /\ by'[sfd'[q]] = {} /\ sfd'[q] \notin orphan'
               /\ ~Queued(sfd[q])' /\ client'[sfd'[q]] # "idle"
               /\ \A r \in Servers : Forking(r)' /\ sfd'[r] = sfd'[q] => r = q
    BY <1>1, <1>2, <2>1, <2>2, <2>3, <2>4, <2>5 DEF ForkingNew
  <2>6. ASSUME Forking(p)'
        PROVE  /\ sfd'[p] \in has'[p] /\ by'[sfd'[p]] = {} /\ sfd'[p] \notin orphan'
               /\ ~Queued(sfd[p])' /\ client'[sfd'[p]] # "idle"
               /\ \A r \in Servers : Forking(r)' /\ sfd'[r] = sfd'[p] => r = p
    BY <1>1, <1>2, <1>5, <2>1, <2>2, <2>3, <2>4
  <2> QED BY <2>5, <2>6 DEF ForkingNew
<1>7. ServedOnce'
  BY <1>1 DEF ServedOnce, FsType
<1>8. service # "largedata" => p = "server"
  BY <1>1 DEF TimeRoles, Servers
<1>9. TimeRoles'
  BY <1>1, <1>2, <1>8, ServerApart DEF TimeRoles, FsType
<1>10. \A d \in Clients : Open(d)' => Open(d) \/ d = c
  BY <1>1 DEF Open, FsType
<1>11. TimeEnds'
  <2>1. \A d \in Clients : client[d] = "over" => ~Open(d)' /\ ~Queued(d)'
    BY <1>2, <1>10 DEF TimeEnds
  <2>2. ASSUME service # "largedata", NEW d \in Clients, client[d] = "up", "server" \notin full
        PROVE  Queued(d)' \/ d \in has'["server"]
    BY <1>1, <1>2, <1>8, <2>2 DEF TimeEnds, FsType
  <2> QED BY <1>1, <2>1, <2>2 DEF TimeEnds
<1>12. TimeHolds'
  <2>1. Accepted' = Accepted
    BY <1>1 DEF Accepted
  <2>2. ASSUME service # "largedata", "server" \notin full
        PROVE  has'["server"] = Accepted \union {c} /\ Forking("server")' /\ sfd'["server"] = c
    BY <1>1, <1>8, <2>2 DEF TimeHolds, Forking, FsType
  <2> QED BY <1>1, <2>1, <2>2 DEF TimeHolds
<1>13. LargeRead'
  BY <1>1 DEF LargeRead, FsType
<1> QED BY <1>3, <1>4, <1>6, <1>7, <1>9, <1>11, <1>12, <1>13

\* A connection whose client is gone is dropped.
LEMMA AbortedKeeps == ASSUME FsInv, NEW p \in Servers, AcceptAborted(p) PROVE FsInv'
<1> USE DEF FsInv
<1>1. /\ backlog # << >> /\ client[Head(backlog)] = "closed" /\ backlog' = Tail(backlog)
      /\ UNCHANGED <<service, does, sfd, has, client, wire, posted, read, by, orphan, broken, full>>
  BY DEF AcceptAborted, processes, histories
<1>2. /\ backlog' \in Seq(Clients)
      /\ \A d \in Clients : Queued(d)' <=> Queued(d) /\ d # Head(backlog)
  BY <1>1, Dequeueing
<1>3. FsType'
  BY <1>1, <1>2 DEF FsType
<1>4. BacklogNew'
  BY <1>1, BacklogStaysNew
<1>5. ForkingNew'
  BY <1>1, <1>2 DEF ForkingNew, Forking, FsType
<1>6. ServedOnce' /\ TimeRoles'
  BY <1>1 DEF ServedOnce, TimeRoles
<1>7. TimeEnds'
  <2>1. \A d \in Clients : Open(d)' <=> Open(d)
    BY <1>1 DEF Open
  <2> QED BY <1>1, <1>2, <2>1 DEF TimeEnds
<1>8. TimeHolds' /\ LargeRead'
  BY <1>1 DEF TimeHolds, Forking, Accepted, LargeRead
<1> QED BY <1>3, <1>4, <1>5, <1>6, <1>7, <1>8

\* A process that leaves can only empty the backlog.
LEMMA LeavingBacklog ==
  ASSUME FsType, BacklogNew, NEW p \in Servers, backlog' = BacklogWithout(p),
         UNCHANGED <<client, by, orphan>>
  PROVE  /\ backlog' \in Seq(Clients) /\ BacklogNew'
         /\ \A d \in Clients : Queued(d)' => Queued(d)
<1>1. CASE backlog' = backlog
  BY <1>1 DEF FsType, BacklogNew, Queued
<1>2. CASE backlog' = << >>
  <2>1. backlog' \in Seq(Clients) /\ DOMAIN backlog' = {}
    BY <1>2
  <2>2. \A d \in Clients : ~Queued(d)'
    BY <2>1 DEF Queued
  <2> QED BY <2>1, <2>2 DEF BacklogNew
<1> QED BY <1>1, <1>2 DEF BacklogWithout

\* Only one that has had MaxConns connections leaves this way (accept's EMFILE).
LEMMA FullKeeps == ASSUME FsInv, NEW p \in Servers, AcceptFails(p) PROVE FsInv'
<1> USE DEF FsInv
<1>1. /\ does[p] = "accept" /\ Cardinality(has[p]) = MaxConns /\ backlog' = BacklogWithout(p)
      /\ does' = [does EXCEPT ![p] = "exit"] /\ has' = [has EXCEPT ![p] = {}]
      /\ full' = full \union {p}
      /\ UNCHANGED <<service, sfd, client, wire, posted, read, by, orphan, broken>>
  BY DEF AcceptFails
<1>2. /\ backlog' \in Seq(Clients) /\ BacklogNew'
      /\ \A d \in Clients : Queued(d)' => Queued(d)
  BY <1>1, LeavingBacklog
<1>3. FsType'
  BY <1>1, <1>2 DEF FsType
<1>4. ForkingNew'
  BY <1>1, <1>2 DEF ForkingNew, Forking, FsType
<1>5. ServedOnce'
  BY <1>1 DEF ServedOnce, FsType
<1>6. service # "largedata" => p = "server"
  BY <1>1 DEF TimeRoles, Servers
<1>7. TimeRoles'
  BY <1>1, <1>6, ServerApart DEF TimeRoles, FsType
<1>8. TimeEnds'
  <2>1. \A d \in Clients : Open(d)' => Open(d)
    BY <1>1 DEF Open, FsType
  <2> QED BY <1>1, <1>2, <1>6, <2>1 DEF TimeEnds
<1>9. TimeHolds'
  <2>1. Accepted' = Accepted
    BY <1>1 DEF Accepted
  <2>2. service # "largedata" => Cardinality(Accepted) = MaxConns
    <3>1. ASSUME service # "largedata" PROVE has["server"] = Accepted
      BY <1>1, <1>6, <3>1 DEF TimeHolds, TimeRoles, Forking
    <3> QED BY <1>1, <1>6, <3>1
  <2> QED BY <1>1, <1>6, <2>1, <2>2 DEF TimeHolds
<1>10. LargeRead'
  BY <1>1 DEF LargeRead, FsType
<1> QED BY <1>2, <1>3, <1>4, <1>5, <1>7, <1>8, <1>9, <1>10

\* fork: the child serves the connection, and has it open.
LEMMA ForkKeeps == ASSUME FsInv, NEW p \in Servers, NEW q \in Children, fork(p, q) PROVE FsInv'
<1> USE DEF FsInv
<1>0. PICK c : c = sfd[p]
  OBVIOUS
<1>1. /\ does[p] = "fork" /\ does[q] = "unborn" /\ p # q /\ q \in Servers
      /\ does' = [does EXCEPT ![p] = "accept", ![q] = "serve"]
      /\ sfd' = [sfd EXCEPT ![q] = c] /\ has' = [has EXCEPT ![q] = has[p]]
      /\ by' = [by EXCEPT ![c] = @ \union {q}]
      /\ UNCHANGED <<service, backlog, client, wire, posted, read, orphan, broken, full>>
  BY <1>0, ServerApart DEF fork, Forked
<1>2. /\ c \in Clients /\ c \in has[p] /\ by[c] = {} /\ c \notin orphan
      /\ ~Queued(c) /\ client[c] # "idle"
      /\ \A r \in Servers : Forking(r) /\ r # p => sfd[r] # c
  BY <1>0, <1>1 DEF FsType, ForkingNew, Forking
<1>3. \A d \in Clients : q \notin by[d]
  BY <1>1 DEF ServedOnce
<1>4. by'[c] = {q} /\ \A d \in Clients : d # c => by'[d] = by[d]
  BY <1>1, <1>2 DEF FsType
<1>5. FsType'
  BY <1>1, <1>2 DEF FsType
<1>6. BacklogNew'
  <2>1. \A i \in DOMAIN backlog : backlog[i] # c /\ backlog[i] \in Clients
    BY <1>2 DEF Queued, FsType
  <2> QED BY <1>1, <1>2, <1>4, <2>1 DEF BacklogNew, Queued
<1>7. ForkingNew'
  <2>1. \A r \in Servers : Forking(r)' => Forking(r) /\ r # p /\ r # q
    BY <1>1 DEF Forking, FsType
  <2>2. \A r \in Servers : r # q => sfd'[r] = sfd[r] /\ has'[r] = has[r]
    BY <1>1 DEF FsType
  <2>3. \A r \in Servers : Forking(r) => sfd[r] \in Clients
    BY DEF Forking, FsType
  <2> QED BY <1>1, <1>2, <1>4, <2>1, <2>2, <2>3 DEF ForkingNew, Queued
<1>8. ServedOnce'
  <2>1. \A d \in Clients : by'[d] # {} => d \notin orphan
    BY <1>2, <1>4 DEF ServedOnce
  <2>2. \A d \in Clients : \A r, t \in by'[d] : r = t
    BY <1>4 DEF ServedOnce
  <2>3. does'[q] = "serve" /\ \A r \in Servers : r # q => does'[r] = does[r] \/ does'[r] = "accept"
    BY <1>1 DEF FsType
  <2>4. \A d \in Clients : \A r \in by'[d] : r = q \/ (r \in by[d] /\ r \in Servers)
    <3>1. \A d \in Clients : by[d] \subseteq Servers
      BY ServerApart DEF FsType
    <3>2. \A d \in Clients : d = c \/ by'[d] = by[d]
      BY <1>4
    <3> QED BY <1>4, <3>1, <3>2
  <2>5. \A d \in Clients : \A r \in by'[d] : does'[r] # "unborn"
    BY <2>3, <2>4 DEF ServedOnce
  <2> QED BY <1>1, <2>1, <2>2, <2>5 DEF ServedOnce
<1>9. service # "largedata" => p = "server"
  BY <1>1 DEF TimeRoles, Servers
<1>10. TimeRoles'
  <2> SUFFICES ASSUME service # "largedata" PROVE TimeRoles'
    BY <1>1 DEF TimeRoles
  <2>1. does'["server"] = "accept" /\ "server" \notin full
    BY <1>1, <1>9, ServerApart DEF TimeRoles, FsType
  <2>2. \A r \in Children : does'[r] \in {"unborn", "serve", "exit"}
    BY <1>1, <1>9, ServerApart DEF TimeRoles, FsType
  <2>3. does'[q] = "serve" /\ sfd'[q] = c /\ c \in has'[q]
    BY <1>1, <1>2 DEF FsType
  <2>4. \A r \in Children : r # q => does'[r] = does[r] /\ sfd'[r] = sfd[r] /\ has'[r] = has[r]
    BY <1>1, <1>9, ServerApart DEF FsType
  <2>5. ASSUME NEW d \in Clients, NEW r \in by'[d]
        PROVE  \/ does'[r] = "serve" /\ sfd'[r] = d /\ d \in has'[r]
               \/ does'[r] = "exit" /\ client'[d] = "closed"
    <3>1. CASE d = c
      BY <1>4, <2>3, <2>5, <3>1
    <3>2. CASE d # c
      <4>1. r \in by[d] /\ r # q /\ r \in Children
        BY <1>3, <1>4, <2>5, <3>2 DEF FsType
      <4> QED BY <1>1, <2>4, <4>1 DEF TimeRoles
    <3> QED BY <3>1, <3>2
  <2> QED BY <1>1, <2>1, <2>2, <2>5 DEF TimeRoles
<1>11. TimeEnds'
  <2>1. \A d \in Clients : Open(d)' => Open(d)
    BY <1>1 DEF Open, FsType
  <2>2. Open(c)
    BY <1>2 DEF Open
  <2>3. has'["server"] = has["server"]
    BY <1>1, ServerApart DEF FsType
  <2>4. \A d \in Clients : Queued(d)' <=> Queued(d)
    BY <1>1 DEF Queued
  <2> QED BY <1>1, <1>4, <2>1, <2>2, <2>3, <2>4 DEF TimeEnds
<1>12. TimeHolds'
  <2>1. Accepted' = Accepted \union {c}
    BY <1>1, <1>2, <1>4 DEF Accepted
  <2>2. ASSUME service # "largedata"
        PROVE  "server" \notin full /\ has'["server"] = Accepted' /\ ~Forking("server")'
    BY <1>0, <1>1, <1>9, <2>1, <2>2, ServerApart DEF TimeHolds, TimeRoles, Forking, FsType
  <2> QED BY <1>1, <2>2 DEF TimeHolds
<1>13. LargeRead'
  <2>1. c \in has'[q]
    BY <1>1, <1>2 DEF FsType
  <2>2. \A d \in Clients : \A r \in by'[d] : (r = q /\ d = c) \/ (r \in by[d] /\ has'[r] = has[r])
    BY <1>1, <1>3, <1>4, ServerApart DEF FsType
  <2> QED BY <1>1, <2>1, <2>2 DEF LargeRead
<1> QED BY <1>5, <1>6, <1>7, <1>8, <1>10, <1>11, <1>12, <1>13

\* A connection that no child could be made for stays with its process.
LEMMA ForkFailsKeeps == ASSUME FsInv, NEW p \in Servers, ForkFails(p) PROVE FsInv'
<1> USE DEF FsInv
<1>0. PICK c : c = sfd[p]
  OBVIOUS
<1>1. /\ does[p] = "fork" /\ does' = [does EXCEPT ![p] = "accept"]
      /\ orphan' = orphan \union {c}
      /\ UNCHANGED <<service, sfd, has, backlog, client, wire, posted, read, by, broken, full>>
  BY <1>0 DEF ForkFails
<1>2. /\ c \in Clients /\ by[c] = {} /\ ~Queued(c) /\ client[c] # "idle"
      /\ \A r \in Servers : Forking(r) /\ r # p => sfd[r] # c
  BY <1>0, <1>1 DEF FsType, ForkingNew, Forking
<1>3. FsType'
  BY <1>1, <1>2 DEF FsType
<1>4. BacklogNew'
  BY <1>1, <1>2 DEF BacklogNew, Queued
<1>5. ForkingNew'
  <2>1. \A r \in Servers : Forking(r)' => Forking(r) /\ r # p
    BY <1>1 DEF Forking, FsType
  <2> QED BY <1>1, <1>2, <2>1 DEF ForkingNew, Queued
<1>6. ServedOnce'
  BY <1>1, <1>2 DEF ServedOnce, FsType
<1>7. service # "largedata" => p = "server"
  BY <1>1 DEF TimeRoles, Servers
<1>8. TimeRoles'
  BY <1>1, <1>7, ServerApart DEF TimeRoles, FsType
<1>9. TimeEnds'
  BY <1>1 DEF TimeEnds, Open, Queued
<1>10. TimeHolds'
  <2>1. Accepted' = Accepted \union {c}
    BY <1>1 DEF Accepted
  <2>2. ASSUME service # "largedata"
        PROVE  "server" \notin full /\ has'["server"] = Accepted' /\ ~Forking("server")'
    BY <1>0, <1>1, <1>7, <2>1, <2>2 DEF TimeHolds, TimeRoles, Forking, FsType
  <2> QED BY <1>1, <2>2 DEF TimeHolds
<1>11. LargeRead'
  BY <1>1 DEF LargeRead
<1> QED BY <1>3, <1>4, <1>5, <1>6, <1>8, <1>9, <1>10, <1>11

\* A child of a time server leaves only when its client has closed.
LEMMA WriteTimeKeeps ==
  ASSUME FsInv, service # "largedata", NEW p \in Servers, WriteTime(p)
  PROVE  FsInv'
<1> USE DEF FsInv
<1>1. /\ does[p] = "serve" /\ sfd[p] \in Clients
      /\ UNCHANGED <<service, sfd, client, posted, read, by, orphan, broken, full>>
  BY DEF WriteTime, histories, FsType
<1>2. CASE wire' = [wire EXCEPT ![sfd[p]] = @ + 1] /\ UNCHANGED <<does, has, backlog>>
  <2>1. FsType'
    BY <1>1, <1>2 DEF FsType
  <2>2. BacklogNew' /\ ForkingNew' /\ ServedOnce' /\ TimeRoles'
    BY <1>1, <1>2 DEF BacklogNew, ForkingNew, Forking, Queued, ServedOnce, TimeRoles
  <2>3. TimeEnds' /\ TimeHolds' /\ LargeRead'
    BY <1>1, <1>2 DEF TimeEnds, Open, Queued, TimeHolds, Forking, Accepted, LargeRead
  <2> QED BY <2>1, <2>2, <2>3
<1>3. ASSUME client[sfd[p]] = "closed", does' = [does EXCEPT ![p] = "exit"],
             has' = [has EXCEPT ![p] = {}], backlog' = BacklogWithout(p), UNCHANGED wire
      PROVE  FsInv'
  <2>1. /\ backlog' \in Seq(Clients) /\ BacklogNew'
        /\ \A d \in Clients : Queued(d)' => Queued(d)
    BY <1>1, <1>3, LeavingBacklog
  <2>2. FsType'
    <3>1. does' \in [Servers -> {"unborn", "accept", "fork", "serve", "exit"}]
      BY <1>3 DEF FsType
    <3>2. \A q \in Servers : does'[q] \in {"fork", "serve"} => does[q] \in {"fork", "serve"}
      BY <1>3 DEF FsType
    <3>3. has' \in [Servers -> SUBSET Clients]
      BY <1>3 DEF FsType
    <3> QED BY <1>1, <1>3, <2>1, <3>1, <3>2, <3>3 DEF FsType
  <2>3. ForkingNew'
    BY <1>1, <1>3, <2>1 DEF ForkingNew, Forking, FsType
  <2>4. ServedOnce'
    BY <1>1, <1>3 DEF ServedOnce, FsType
  <2>5. p # "server" /\ "server" \in Servers
    BY <1>1, ServerApart DEF TimeRoles
  <2>6. has'["server"] = has["server"] /\ does'["server"] = does["server"]
    BY <1>3, <2>5 DEF FsType
  <2>7. TimeRoles'
    <3>1. ASSUME NEW c \in Clients, NEW r \in by[c]
          PROVE  \/ does'[r] = "serve" /\ sfd[r] = c /\ c \in has'[r]
                 \/ does'[r] = "exit" /\ client[c] = "closed"
      <4>1. CASE r = p
        BY <1>1, <1>3, <3>1, <4>1 DEF TimeRoles, FsType
      <4>2. CASE r # p
        BY <1>3, <3>1, <4>2, ServerApart DEF TimeRoles, FsType
      <4> QED BY <4>1, <4>2
    <3> QED BY <1>1, <1>3, <2>6, <3>1, ServerApart DEF TimeRoles, FsType
  <2>8. TimeEnds'
    <3>1. \A d \in Clients : Open(d)' => Open(d)
      BY <1>3 DEF Open, FsType
    <3>2. "server" \notin full => backlog' = backlog
      BY <1>3, <2>5 DEF TimeRoles, BacklogWithout, Running
    <3>3. "server" \notin full => \A d \in Clients : Queued(d) => Queued(d)'
      BY <3>2 DEF Queued
    <3> QED BY <1>1, <2>1, <2>6, <3>1, <3>3 DEF TimeEnds
  <2>9. TimeHolds' /\ LargeRead'
    BY <1>1, <2>6 DEF TimeHolds, Forking, Accepted, LargeRead
  <2> QED BY <2>1, <2>2, <2>3, <2>4, <2>7, <2>8, <2>9
<1> QED BY <1>2, <1>3 DEF WriteTime

\* A child of largedata closes its connection at the end, or after an error.
LEMMA ReadLargeKeeps == ASSUME FsInv, NEW p \in Servers, ReadLarge(p) PROVE FsInv'
<1> USE DEF FsInv
<1>0. PICK c : c = sfd[p]
  OBVIOUS
<1>1. /\ service = "largedata" /\ does[p] = "serve" /\ c \in Clients
      /\ UNCHANGED <<service, sfd, backlog, client, posted, by, orphan, full>>
  BY <1>0 DEF ReadLarge, FsType
<1>2. ASSUME NEW n \in 1..wire[c], wire' = [wire EXCEPT ![c] = @ - n],
             read' = [read EXCEPT ![c] = @ + n], UNCHANGED <<does, has, broken>>
      PROVE  FsInv'
  <2>1. n \in Nat /\ n <= wire[c] /\ wire[c] \in Nat /\ n > 0
    BY <1>1, <1>2 DEF FsType
  <2>2. FsType'
    BY <1>1, <1>2, <2>1 DEF FsType
  <2>3. BacklogNew' /\ ForkingNew' /\ ServedOnce' /\ TimeRoles'
    BY <1>1, <1>2 DEF BacklogNew, ForkingNew, Forking, Queued, ServedOnce, TimeRoles
  <2>4. TimeEnds' /\ TimeHolds'
    BY <1>1, <1>2 DEF TimeEnds, Open, Queued, TimeHolds, Forking, Accepted
  <2>5. LargeRead'
    <3>1. \A d \in Clients : read'[d] + wire'[d] = posted'[d]
      BY <1>1, <1>2, <2>1 DEF LargeRead, FsType
    <3>2. read[c] # posted[c]
      BY <1>1, <2>1 DEF LargeRead, FsType
    <3>3. \A d \in Clients : d # c => read'[d] = read[d]
      BY <1>2 DEF FsType
    <3> QED BY <1>1, <1>2, <3>1, <3>2, <3>3 DEF LargeRead
  <2> QED BY <2>2, <2>3, <2>4, <2>5
<1>3. ASSUME \/ wire[c] = 0 /\ client[c] = "closed" /\ UNCHANGED broken
             \/ broken' = broken \union {c},
             has' = [has EXCEPT ![p] = @ \ {c}], does' = [does EXCEPT ![p] = "accept"],
             UNCHANGED <<wire, read>>
      PROVE  FsInv'
  <2>1. FsType'
    BY <1>1, <1>3 DEF FsType
  <2>2. BacklogNew' /\ TimeRoles'
    BY <1>1 DEF BacklogNew, Queued, TimeRoles
  <2>6. ServedOnce'
    BY <1>1, <1>3, ServerApart DEF ServedOnce, FsType
  <2>3. ForkingNew'
    BY <1>1, <1>3 DEF ForkingNew, Forking, Queued, FsType
  <2>4. TimeEnds' /\ TimeHolds'
    <3>1. \A d \in Clients : Open(d)' => Open(d)
      BY <1>3 DEF Open, FsType
    <3> QED BY <1>1, <3>1 DEF TimeEnds, Queued, TimeHolds
  <2>5. LargeRead'
    <3>1. \A d \in Clients, r \in Servers : d \notin has'[r] => d \notin has[r] \/ (d = c /\ r = p)
      BY <1>3 DEF FsType
    <3>2. c \in broken' \/ (read[c] = posted[c] /\ client[c] # "up")
      BY <1>1, <1>3 DEF LargeRead, FsType
    <3>3. broken \subseteq broken'
      BY <1>3
    <3> QED BY <1>1, <1>3, <3>1, <3>2, <3>3, ServerApart DEF LargeRead, FsType
  <2> QED BY <2>1, <2>2, <2>3, <2>4, <2>5, <2>6
<1> QED BY <1>0, <1>2, <1>3 DEF ReadLarge

\* The invariant holds of every behaviour of the three servers.
LEMMA FsAlways == FsSpec => []FsInv
<1>1. ASSUME FsInv, NEW c \in Clients, ConnectRefused(c) \/ WrittenLarge(c) \/ StopClient(c)
      PROVE  FsInv'
  <2>1. UNCHANGED <<service, processes, backlog, wire, posted, read, histories>>
    BY <1>1 DEF ConnectRefused, WrittenLarge, StopClient
  <2>2. client' \in [Clients -> {"idle", "up", "closed", "over", "refused"}]
    BY <1>1 DEF ConnectRefused, WrittenLarge, StopClient, FsInv, FsType
  <2>3. \A d \in Clients : \/ client'[d] = client[d]
                           \/ client[d] = "up" /\ client'[d] = "closed"
                           \/ client[d] = "idle" /\ client'[d] = "refused"
    BY <1>1 DEF ConnectRefused, WrittenLarge, StopClient, FsInv, FsType
  <2> QED BY <1>1, <2>1, <2>2, <2>3, ClientLeaves
<1>2. ASSUME FsInv, NEW c \in Clients, ClientReads(c) \/ MonitorReads(c) PROVE FsInv'
  BY <1>2, ReadTimeKeeps DEF ClientReads, MonitorReads
<1>3. ASSUME FsInv, NEW p \in Servers, SendTime(p) \/ SendTimeSlowly(p) PROVE FsInv'
  BY <1>3, WriteTimeKeeps DEF SendTime, SendTimeSlowly
<1>4. ASSUME FsInv, UNCHANGED fsVars PROVE FsInv'
  <2> USE <1>4 DEF fsVars, FsInv
  <2>1. FsType' /\ BacklogNew' /\ ForkingNew' /\ ServedOnce' /\ TimeRoles'
    BY DEF FsType, BacklogNew, ForkingNew, Forking, Queued, ServedOnce, TimeRoles
  <2>2. TimeEnds' /\ TimeHolds' /\ LargeRead'
    BY DEF TimeEnds, Open, Queued, TimeHolds, Forking, Accepted, LargeRead
  <2> QED BY <2>1, <2>2
<1>5. FsInv /\ [FsNext]_fsVars => FsInv'
  BY <1>1, <1>2, <1>3, <1>4, ConnectKeeps, WriteLargeKeeps, AcceptKeeps, AbortedKeeps, FullKeeps,
     ForkKeeps, ForkFailsKeeps, ReadLargeKeeps DEF FsNext
<1> QED BY FsInitInv, <1>5, PTL DEF FsSpec

\* The three forking servers keep their promise (socket/server.c, select/server.c,
\* largedata/server1.c) for any number of clients, children and connections: every connection
\* is served by one process, a time server's client sees the end only when the server has
\* run out of descriptors, and a child of largedata closes only what it has read.
THEOREM ServedSafe == FsSpec => []ConnectionsServed
<1>1. ASSUME FsInv PROVE ConnectionsServed
  <2> USE <1>1 DEF FsInv
  <2>1. \A c \in Clients : Cardinality(by[c]) <= 1 /\ (by[c] # {} => c \notin orphan)
    BY AtMostOne DEF ServedOnce
  <2>2. service # "largedata" =>
          /\ \A c \in Clients : client[c] = "over" => (c \in orphan \/ by[c] = {}) /\ "server" \in full
          /\ "server" \notin full =>
               has["server"] = orphan \union {c \in Clients : by[c] # {}}
                                 \union (IF does["server"] = "fork" THEN {sfd["server"]} ELSE {})
          /\ "server" \in full => Cardinality(orphan \union {c \in Clients : by[c] # {}}) = MaxConns
    BY DEF TimeEnds, TimeHolds, Accepted, Forking
  <2>3. service = "largedata" =>
          \A p \in Children, c \in Clients : p \in by[c] /\ c \notin has[p] =>
            p \in full \/ c \in broken \/ (read[c] = posted[c] /\ client[c] # "up")
    BY DEF LargeRead
  <2> QED BY <2>1, <2>2, <2>3 DEF ConnectionsServed
<1> QED BY <1>1, FsAlways, PTL

------------------------------------------------------------------------------
(* GpsReader.                                                              *)

\* The sentences parse_packet knows.
Kinds == {"rmc", "gga"}
Byte == [ch : {"$", "rmc", "gga", "CR", "LF", "x", "NUL"}, id : Nat]

\* Three sequences joined one after another make the same sequence from either end.
Associates(s, t, u) == (s \o t) \o u = s \o (t \o u)

\* So do any three of these.
LEMMA JoinAssociates == \A s, t, u \in Seq(Byte) : Associates(s, t, u)
BY ConcatAssociative, SMT DEF Associates

\* What the parser has still to read, wherever it is, in the order it was sent.
Start == IF pc \in {"loop", "exit"} THEN read_pos ELSE istart
There == Len(rx_buf) - Start
Laid(b, p, g, o) == SubSeq(b, p + 1, Len(b)) \o (g \o o)
Stream == Laid(rx_buf, Start, line, rest)
Heard == {handled[i] : i \in 1..Len(handled)}

\* Items come one after the other, each sentence has one kind, and k were begun.
Ordered(s, k) ==
  /\ \A i \in 1..Len(s) : s[i].id <= k /\ s[i].ch # "NUL" /\ (s[i].ch \in Kinds => s[i].id # 0)
  /\ \A i, j \in 1..Len(s) : i < j => s[i].id <= s[j].id
  /\ \A i, j \in 1..Len(s) : i < j /\ s[i].ch \in Kinds /\ s[j].ch \in Kinds => s[i].id < s[j].id

\* A carriage return still has its line feed, and another item begins behind it.
Closed(s) ==
  \A i \in 1..Len(s) : s[i].ch = "CR" =>
    /\ i < Len(s) /\ s[i + 1].ch = "LF" /\ s[i + 1].id = s[i].id
    /\ i + 2 <= Len(s) => s[i + 2].ch # "CR" /\ s[i].id < s[i + 2].id

\* Of what was heard at most the line feed is left, not received yet.
Passed(s, r, h) ==
  /\ \A i \in 1..Len(s) : s[i].id \in h => i = 1 /\ r = 0 /\ s[1].ch = "LF"
  /\ \A i \in 1..Len(s) : s[i].ch \in Kinds => \A n \in h : n < s[i].id

\* parse_buf will begin a packet at q: it stands there, or a line feed that comes with
\* the next read or a whole end of line is before it.
Boundary(s, r, q) ==
  \/ q = 1
  \/ q = 2 /\ r = 0 /\ s[1].ch = "LF"
  \/ q >= 3 /\ s[q - 2].ch = "CR"

\* Sentence n is still whole and will be cut out as a packet.
Ready(s, r, n) ==
  \E q \in 1..Len(s) :
    /\ q + 2 <= Len(s) /\ Boundary(s, r, q)
    /\ s[q].ch = "$" /\ s[q].id = n
    /\ s[q + 1].ch \in Kinds /\ s[q + 1].id = n
    /\ s[q + 2].ch = "CR" /\ s[q + 2].id = n
    /\ \A i \in 1..Len(s) : s[i].id = n => q <= i

\* Clean sentences are heard or will be.
Awaited(s, r, c, h) == \A n \in c : n \in h \/ Ready(s, r, n)

\* The first r of the bytes are in rx_buf, k items were begun, h sentences heard, c clean;
\* st: the last item begun will end on a boundary.
Fine(s, r, k, h, c, st) ==
  /\ Ordered(s, k) /\ Closed(s) /\ Passed(s, r, h) /\ Awaited(s, r, c, h)
  /\ st => Boundary(s, r, Len(s) + 1)

\* Bytes of a stream.
LEMMA Bytes ==
  ASSUME NEW s \in Seq(Byte)
  PROVE  Len(s) \in Nat /\ \A i \in 1..Len(s) : s[i] \in Byte /\ s[i].id \in Nat
<1>1. Len(s) \in Nat /\ \A i \in 1..Len(s) : s[i] \in Byte
  BY ElementOfSeq, LenProperties
<1>2. \A b \in Byte : b.id \in Nat
  BY DEF Byte
<1> QED BY <1>1, <1>2

\* Bytes that memcpy garbles while they are moved onto themselves are noise already.
LEMMA Garbled ==
  ASSUME NEW s \in Seq(Byte), NEW t \in Seq(Byte), Len(t) = Len(s), NEW r \in 0..Len(s), r >= 3,
         NEW k \in Nat, NEW h \in SUBSET (1..k), NEW c \in SUBSET (1..k), NEW st \in BOOLEAN,
         \A i \in 1..r : s[i].ch # "CR",
         \A i \in 1..r : t[i].ch = "x" /\ t[i].id = 0,
         \A i \in (r + 1)..Len(s) : t[i] = s[i],
         Fine(s, r, k, h, c, st)
  PROVE  Fine(t, r, k, h, c, st)
<1> DEFINE m == Len(s)
<1>1. m \in Nat /\ Len(s) = m /\ Len(t) = m /\ r \in 0..m
      /\ \A i \in 1..m : s[i] \in Byte /\ t[i] \in Byte /\ s[i].id \in Nat
  BY Bytes
<1> HIDE DEF m
<1>2. Ordered(t, k)
  <2>1. /\ \A i \in 1..m : s[i].id <= k /\ s[i].ch # "NUL" /\ (s[i].ch \in Kinds => s[i].id # 0)
        /\ \A i, j \in 1..m : i < j => s[i].id <= s[j].id
        /\ \A i, j \in 1..m : i < j /\ s[i].ch \in Kinds /\ s[j].ch \in Kinds => s[i].id < s[j].id
    BY <1>1 DEF Fine, Ordered
  <2>2. \A i \in 1..m : \/ t[i].ch = "x" /\ t[i].id = 0 /\ i <= r
                        \/ t[i] = s[i] /\ i > r
    BY <1>1
  <2>3. "x" # "NUL" /\ "x" \notin Kinds
    BY DEF Kinds
  <2>4. \A i \in 1..m : t[i].id <= k /\ t[i].ch # "NUL" /\ (t[i].ch \in Kinds => t[i].id # 0)
    BY <2>1, <2>2, <2>3
  <2>5. \A i, j \in 1..m : i < j => t[i].id <= t[j].id
    BY <1>1, <2>1, <2>2
  <2>6. \A i, j \in 1..m : i < j /\ t[i].ch \in Kinds /\ t[j].ch \in Kinds => t[i].id < t[j].id
    BY <2>1, <2>2, <2>3
  <2> QED BY <1>1, <2>4, <2>5, <2>6 DEF Ordered
<1>3. Closed(t)
  <2> SUFFICES ASSUME NEW i \in 1..m, t[i].ch = "CR"
               PROVE  /\ i < m /\ t[i + 1].ch = "LF" /\ t[i + 1].id = t[i].id
                      /\ i + 2 <= m => t[i + 2].ch # "CR" /\ t[i].id < t[i + 2].id
    BY <1>1 DEF Closed
  <2>1. i \in Nat /\ r \in Nat /\ r < i /\ t[i] = s[i]
    BY <1>1
  <2>2. /\ i < m /\ s[i + 1].ch = "LF" /\ s[i + 1].id = s[i].id
        /\ i + 2 <= m => s[i + 2].ch # "CR" /\ s[i].id < s[i + 2].id
    BY <1>1, <2>1 DEF Fine, Closed
  <2>3. t[i + 1] = s[i + 1] /\ (i + 2 <= m => t[i + 2] = s[i + 2])
    BY <1>1, <2>1, <2>2
  <2> QED BY <2>1, <2>2, <2>3
<1>4. Passed(t, r, h)
  <2>1. 0 \notin h
    OBVIOUS
  <2>2. Passed(s, r, h)
    BY DEF Fine
  <2>3. ASSUME NEW i \in 1..m, t[i].id \in h PROVE i = 1 /\ r = 0 /\ t[1].ch = "LF"
    <3>1. r < i
      <4>1. t[i].id # 0
        BY <2>1, <2>3
      <4>2. i \notin 1..r
        BY <4>1
      <4>3. i \in Nat /\ r \in Nat /\ i >= 1
        BY <1>1
      <4> QED BY <4>2, <4>3
    <3>2. t[i] = s[i]
      BY <1>1, <3>1
    <3> QED BY <1>1, <2>2, <2>3, <3>1, <3>2 DEF Passed
  <2>4. ASSUME NEW i \in 1..m, t[i].ch \in Kinds, NEW n \in h PROVE n < t[i].id
    <3>1. r < i
      <4>1. t[i].ch # "x"
        BY <2>4 DEF Kinds
      <4>2. i \notin 1..r
        BY <4>1
      <4>3. i \in Nat /\ r \in Nat /\ i >= 1
        BY <1>1
      <4> QED BY <4>2, <4>3
    <3>2. t[i] = s[i]
      BY <1>1, <3>1
    <3> QED BY <1>1, <2>2, <2>4, <3>2 DEF Passed
  <2> QED BY <1>1, <2>3, <2>4 DEF Passed
<1>5. \A q \in Nat : q # 0 /\ Boundary(s, r, q) /\ q <= m + 1 /\ (q = 1 => q + 2 <= m /\ s[q + 2].ch = "CR")
        => Boundary(t, r, q) /\ r < q
  <2> SUFFICES ASSUME NEW q \in Nat, q # 0, Boundary(s, r, q), q <= m + 1, q = 1 => q + 2 <= m /\ s[q + 2].ch = "CR"
               PROVE  Boundary(t, r, q) /\ r < q
    OBVIOUS
  <2>1. q # 1 /\ q # 2 
    BY <1>1 DEF Boundary
  <2>2. q >= 3 /\ s[q - 2].ch = "CR" /\ q - 2 \in 1..m
    BY <1>1, <2>1 DEF Boundary
  <2>3. r < q - 2
    BY <1>1, <2>2
  <2>4. t[q - 2] = s[q - 2]
    BY <1>1, <2>2, <2>3
  <2> QED BY <1>1, <2>2, <2>3, <2>4 DEF Boundary
<1>6. ASSUME NEW n \in c, Ready(s, r, n) PROVE Ready(t, r, n)
  <2>1. PICK q \in 1..m : /\ q + 2 <= m /\ Boundary(s, r, q)
                          /\ s[q].ch = "$" /\ s[q].id = n
                          /\ s[q + 1].ch \in Kinds /\ s[q + 1].id = n
                          /\ s[q + 2].ch = "CR" /\ s[q + 2].id = n
                          /\ \A i \in 1..m : s[i].id = n => q <= i
    BY <1>1, <1>6 DEF Ready
  <2>2. Boundary(t, r, q) /\ r < q
    <3>1. m \in Nat /\ q \in 1..m /\ q \in Nat /\ q # 0 /\ q <= m + 1 /\ q + 2 <= m
      BY <1>1, <2>1
    <3> QED BY <1>5, <2>1, <3>1
  <2>3. t[q] = s[q] /\ t[q + 1] = s[q + 1] /\ t[q + 2] = s[q + 2]
    BY <1>1, <2>1, <2>2
  <2>4. \A i \in 1..m : t[i].id = n => q <= i
    BY <1>1, <2>1, <2>2
  <2> QED BY <1>1, <2>1, <2>2, <2>3, <2>4 DEF Ready
<1>7. Awaited(t, r, c, h)
  BY <1>6 DEF Fine, Awaited
<1>8. st => Boundary(t, r, m + 1)
  BY <1>1, <1>5 DEF Fine, Boundary
<1> QED BY <1>1, <1>2, <1>3, <1>4, <1>7, <1>8 DEF Fine

\* t is what lies behind the first d bytes of s.
ShiftOf(s, t, d) == Len(t) = Len(s) - d /\ \A i \in 1..Len(t) : t[i] = s[i + d]

\* What lies behind the first d bytes.
LEMMA Dropped ==
  ASSUME NEW s \in Seq(Byte), NEW t \in Seq(Byte), NEW d \in 0..Len(s), Len(t) = Len(s) - d,
         \A i \in 1..Len(t) : t[i] = s[i + d], NEW k \in Nat, Ordered(s, k), Closed(s)
  PROVE  Ordered(t, k) /\ Closed(t)
<1> DEFINE m == Len(s)
           l == Len(t)
<1>1. m \in Nat /\ Len(s) = m /\ Len(t) = l /\ l = m - d /\ l \in Nat /\ d \in 0..m
      /\ \A i \in 1..l : t[i] = s[i + d] /\ i + d \in 1..m
  <2>1. m \in Nat /\ l \in Nat
    BY Bytes
  <2> QED BY <2>1
<1> HIDE DEF m, l
<1>2. Ordered(t, k)
  <2>1. \A i \in 1..m : s[i].id <= k /\ s[i].ch # "NUL" /\ (s[i].ch \in Kinds => s[i].id # 0)
    BY <1>1 DEF Ordered
  <2>2. \A i \in 1..l : t[i].id <= k /\ t[i].ch # "NUL" /\ (t[i].ch \in Kinds => t[i].id # 0)
    BY <1>1, <2>1
  <2>3. ASSUME NEW i \in 1..l, NEW j \in 1..l, i < j
        PROVE  t[i].id <= t[j].id /\ (t[i].ch \in Kinds /\ t[j].ch \in Kinds => t[i].id < t[j].id)
    <3>1. i + d \in 1..m /\ j + d \in 1..m /\ i + d < j + d /\ t[i] = s[i + d] /\ t[j] = s[j + d]
      BY <1>1, <2>3
    <3> QED BY <1>1, <3>1 DEF Ordered
  <2> QED BY <1>1, <2>2, <2>3 DEF Ordered
<1>3. Closed(t)
  <2> SUFFICES ASSUME NEW i \in 1..l, t[i].ch = "CR"
               PROVE  /\ i < l /\ t[i + 1].ch = "LF" /\ t[i + 1].id = t[i].id
                      /\ i + 2 <= l => t[i + 2].ch # "CR" /\ t[i].id < t[i + 2].id
    BY <1>1 DEF Closed
  <2>1. i + d \in 1..m /\ s[i + d].ch = "CR" /\ t[i] = s[i + d]
    BY <1>1
  <2>2. /\ i + d < m /\ s[i + d + 1].ch = "LF" /\ s[i + d + 1].id = s[i + d].id
        /\ i + d + 2 <= m => s[i + d + 2].ch # "CR" /\ s[i + d].id < s[i + d + 2].id
    BY <1>1, <2>1 DEF Closed
  <2>3. i + 1 \in 1..l /\ (i + 1) + d = i + d + 1
    <3>1. i + d < m
      BY <2>2
    <3>2. m \in Nat /\ l \in Nat /\ l = m - d /\ d \in 0..m
      BY <1>1
    <3> QED BY <3>1, <3>2
  <2>4. t[i + 1] = s[i + d + 1]
    BY <1>1, <2>3
  <2>5. i + 2 <= l => i + 2 \in 1..l /\ (i + 2) + d = i + d + 2 /\ i + d + 2 <= m
    BY <1>1
  <2>6. i + 2 <= l => t[i + 2] = s[i + d + 2]
    BY <1>1, <2>5
  <2> QED BY <1>1, <2>1, <2>2, <2>3, <2>4, <2>5, <2>6
<1> QED BY <1>2, <1>3

\* A sentence of which nothing was dropped, at a boundary still.
LEMMA ReadyBehind ==
  ASSUME NEW s \in Seq(Byte), NEW t \in Seq(Byte), NEW d \in 0..Len(s), Len(t) = Len(s) - d,
         \A i \in 1..Len(t) : t[i] = s[i + d], NEW n \in Nat, NEW u \in Nat, NEW q \in 1..Len(s),
         q + 2 <= Len(s), s[q].ch = "$", s[q].id = n, s[q + 1].ch \in Kinds, s[q + 1].id = n,
         s[q + 2].ch = "CR", s[q + 2].id = n, \A i \in 1..Len(s) : s[i].id = n => q <= i,
         d < q, Boundary(t, u, q - d)
  PROVE  Ready(t, u, n)
<1> DEFINE m == Len(s)
           l == Len(t)
           p == q - d
<1>1. m \in Nat /\ l \in Nat /\ l = m - d /\ d \in 0..m /\ q \in 1..m /\ q + 2 <= m /\ p \in 1..l /\ p + 2 <= l
      /\ p + d = q /\ (p + 1) + d = q + 1 /\ (p + 2) + d = q + 2 /\ p + 1 \in 1..l /\ p + 2 \in 1..l
  <2>1. m \in Nat /\ l \in Nat
    BY Bytes
  <2>2. l = m - d /\ d \in 0..m /\ q \in 1..m /\ q + 2 <= m /\ d < q
    OBVIOUS
  <2>3. p = q - d
    OBVIOUS
  <2> HIDE DEF m, l, p
  <2>4. d \in Nat /\ q \in Nat /\ p \in Nat \ {0} /\ p + d = q
    BY <2>1, <2>2, <2>3
  <2>5. (p + 1) + d = q + 1 /\ (p + 2) + d = q + 2 /\ p + 2 <= l
    BY <2>1, <2>2, <2>4
  <2>6. p \in 1..l /\ p + 1 \in 1..l /\ p + 2 \in 1..l
    BY <2>1, <2>4, <2>5
  <2> QED BY <2>1, <2>2, <2>4, <2>5, <2>6
<1>2. \A i \in 1..l : t[i] = s[i + d] /\ i + d \in 1..m
  BY <1>1
<1>3. t[p] = s[q] /\ t[p + 1] = s[q + 1] /\ t[p + 2] = s[q + 2]
  <2> HIDE DEF m, l, p
  <2> QED BY <1>1, <1>2
<1>4. ASSUME NEW i \in 1..l, t[i].id = n PROVE p <= i
  <2>1. q <= i + d
    BY <1>2, <1>4
  <2>2. p + d = q /\ p \in Nat /\ d \in Nat /\ i \in Nat
    BY <1>1
  <2> HIDE DEF m, l, p
  <2> QED BY <2>1, <2>2
<1>5. /\ p + 2 <= l /\ Boundary(t, u, p) /\ t[p].ch = "$" /\ t[p].id = n
      /\ t[p + 1].ch \in Kinds /\ t[p + 1].id = n /\ t[p + 2].ch = "CR" /\ t[p + 2].id = n
      /\ \A i \in 1..l : t[i].id = n => p <= i
  BY <1>1, <1>3, <1>4
<1>6. p \in 1..l
  BY <1>1
<1> HIDE DEF p
<1> QED BY <1>5, <1>6 DEF Ready

\* parse_buf drops what is before the first "$" of the e bytes it is given, or all of them.
BeginsAt(s, t, r, d, u) ==
  /\ s \in Seq(Byte) /\ t \in Seq(Byte) /\ r \in 0..Len(s) /\ d \in Nat /\ u \in Nat
  /\ r <= d + u /\ d + u <= Len(s) /\ ShiftOf(s, t, d)
  /\ \A i \in 1..d : s[i].ch # "$"
  /\ u > 0 => s[d + 1].ch = "$"

\* k items, of which h were heard and c are clean.
Tallies(k, h, c, st) == k \in Nat /\ h \in SUBSET (1..k) /\ c \in SUBSET (1..k) /\ st \in BOOLEAN

LEMMA Begun ==
  ASSUME NEW s, NEW t, NEW r, NEW d, NEW u, NEW k, NEW h, NEW c, NEW st,
         BeginsAt(s, t, r, d, u), Tallies(k, h, c, st), Fine(s, r, k, h, c, st)
  PROVE  Fine(t, u, k, h, c, st)
<1> USE DEF BeginsAt, Tallies
<1> DEFINE m == Len(s)
           l == Len(t)
           e == d + u
<1>1. m \in Nat /\ l \in Nat /\ l = m - d /\ Len(s) = m /\ Len(t) = l /\ d \in 0..m /\ r \in 0..m /\ e \in r..m
      /\ d \in 0..e /\ u = e - d /\ u \in 0..l
  <2>1. m \in Nat /\ l \in Nat
    BY Bytes
  <2>2. l = m - d /\ r \in 0..m /\ r <= d + u /\ d + u <= m /\ Len(s) = m /\ Len(t) = l
    BY DEF ShiftOf
  <2> HIDE DEF m, l
  <2> QED BY <2>1, <2>2
<1>2. \A i \in 1..l : t[i] = s[i + d] /\ i + d \in 1..m
  BY <1>1 DEF ShiftOf
<1>3. Ordered(t, k) /\ Closed(t)
  <2>1. d \in 0..Len(s) /\ Ordered(s, k) /\ Closed(s)
    BY <1>1 DEF Fine
  <2> QED BY <2>1, Dropped DEF ShiftOf
<1> HIDE DEF m, l, e
<1>4. Passed(t, u, h)
  <2>1. Passed(s, r, h)
    BY DEF Fine
  <2>2. ASSUME NEW i \in 1..l, t[i].id \in h PROVE i = 1 /\ u = 0 /\ t[1].ch = "LF"
    <3>1. i + d = 1 /\ r = 0 /\ s[1].ch = "LF"
      BY <1>1, <1>2, <2>1, <2>2 DEF Passed
    <3>2. d = 0 /\ i = 1 /\ t[1] = s[1]
      BY <1>1, <1>2, <3>1
    <3>3. e = 0
      BY <1>1, <3>1, <3>2
    <3> QED BY <1>1, <3>1, <3>2, <3>3
  <2>3. ASSUME NEW i \in 1..l, t[i].ch \in Kinds, NEW n \in h PROVE n < t[i].id
    BY <1>1, <1>2, <2>1, <2>3 DEF Passed
  <2> QED BY <1>1, <2>2, <2>3 DEF Passed
\* Nothing is dropped behind a boundary at which a packet begins or the stream ends.
<1>5. ASSUME NEW q \in 1..(m + 1), Boundary(s, r, q), q <= m => s[q].ch = "$"
      PROVE  d < q /\ Boundary(t, u, q - d)
  <2>1. d < q
    BY <1>1, <1>5
  <2>2. CASE q - d = 1
    BY <2>2 DEF Boundary
  <2>3. CASE q - d = 2
    <3>1. q - 1 = d + 1 /\ d + 1 \in 1..m /\ 1 \in 1..l /\ t[1] = s[d + 1]
      <4>1. q = d + 2 /\ d + 1 \in 1..m /\ 1 \in 1..l
        BY <1>1, <2>3
      <4>2. t[1] = s[1 + d]
        BY <1>2, <4>1
      <4>3. q \in Nat /\ d \in Nat
        BY <1>1
      <4>4. q - 1 = d + 1 /\ 1 + d = d + 1
        BY <4>1, <4>3
      <4> QED BY <4>1, <4>2, <4>4
    <3>2. s[d + 1].ch = "LF"
      <4>1. CASE q = 2
        BY <1>5, <2>3, <4>1 DEF Boundary
      <4>2. CASE q >= 3
        <5>1. q - 2 \in 1..m /\ s[q - 2].ch = "CR" /\ (q - 2) + 1 = d + 1
          BY <1>1, <1>5, <2>3, <4>2 DEF Boundary
        <5>2. Closed(s)
          BY DEF Fine
        <5> QED BY <1>1, <5>1, <5>2 DEF Closed
      <4> QED BY <1>1, <2>3, <4>1, <4>2
    <3>3. d = e
      BY <1>1, <3>2
    <3> QED BY <1>1, <2>3, <3>1, <3>2, <3>3 DEF Boundary
  <2>4. CASE q - d >= 3
    <3>1. s[q - 2].ch = "CR" /\ q - 2 - d \in 1..l /\ (q - 2 - d) + d = q - 2 /\ q - d - 2 = q - 2 - d
      BY <1>1, <1>5, <2>4 DEF Boundary
    <3>2. t[q - 2 - d] = s[q - 2]
      BY <1>2, <3>1
    <3> QED BY <2>4, <3>1, <3>2 DEF Boundary
  <2> QED BY <1>1, <2>1, <2>2, <2>3, <2>4
<1>6. ASSUME NEW n \in c, Ready(s, r, n) PROVE Ready(t, u, n)
  <2>1. PICK q \in 1..m : /\ q + 2 <= m /\ Boundary(s, r, q)
                          /\ s[q].ch = "$" /\ s[q].id = n
                          /\ s[q + 1].ch \in Kinds /\ s[q + 1].id = n
                          /\ s[q + 2].ch = "CR" /\ s[q + 2].id = n
                          /\ \A i \in 1..m : s[i].id = n => q <= i
    BY <1>1, <1>6 DEF Ready
  <2>2. d < q /\ Boundary(t, u, q - d)
    <3>1. q \in 1..(m + 1)
      BY <1>1
    <3> QED BY <1>5, <2>1, <3>1
  <2>3. u \in Nat /\ n \in Nat
    BY <1>1
  <2> QED BY <1>1, <1>2, <2>1, <2>2, <2>3, ReadyBehind
<1>7. Awaited(t, u, c, h)
  BY <1>6 DEF Fine, Awaited
<1>8. ASSUME st PROVE Boundary(t, u, l + 1)
  <2>1. Boundary(s, r, m + 1)
    BY <1>1, <1>8 DEF Fine
  <2>2. m + 1 \in 1..(m + 1) /\ ~(m + 1 <= m) /\ m + 1 - d = l + 1
    BY <1>1
  <2>3. Boundary(t, u, (m + 1) - d)
    <3> DEFINE q == m + 1
    <3>1. q \in 1..(m + 1) /\ Boundary(s, r, q) /\ ~(q <= m)
      BY <2>1, <2>2, Zenon
    <3> HIDE DEF q
    <3>2. Boundary(t, u, q - d)
      BY <1>5, <3>1
    <3> QED BY <3>2 DEF q
  <2>4. (m + 1) - d \in Nat /\ l + 1 \in Nat /\ l + 1 = (m + 1) - d
    BY <1>1, <2>2
  <2> QED BY <2>3, <2>4 DEF Boundary
<1> QED BY <1>1, <1>3, <1>4, <1>7, <1>8 DEF Fine

\* The first carriage return of the bytes that are there, and where the next packet begins.
CutsAt(s, t, r, x, d) ==
  /\ s \in Seq(Byte) /\ t \in Seq(Byte) /\ r \in 0..Len(s) /\ x \in 1..r /\ d \in Nat
  /\ d = IF x < r THEN x + 1 ELSE x
  /\ ShiftOf(s, t, d) /\ s[x].ch = "CR" /\ \A i \in 1..(x - 1) : s[i].ch # "CR"

\* parse_buf gives the packet before the first carriage return to parse_packet and goes on
\* behind the line feed, or behind the carriage return when that is the last byte there.
LEMMA Cutout ==
  ASSUME NEW s, NEW t, NEW r, NEW x, NEW d, NEW k, NEW h, NEW c, NEW st, NEW g,
         CutsAt(s, t, r, x, d), Tallies(k, h, c, st), Fine(s, r, k, h, c, st), g \subseteq Nat,
         g = IF x = 3 /\ s[1].ch = "$" /\ s[2].ch \in Kinds THEN h \cup {s[2].id} ELSE h
  PROVE  Fine(t, r - d, k, g, c, st) /\ (Len(t) > 0 => t[1].ch # "CR") /\ d \in 0..r
<1> USE DEF CutsAt, Tallies, ShiftOf
<1> DEFINE m == Len(s)
           l == Len(t)
           u == r - d
<1>0. m \in Nat /\ l \in Nat /\ \A i \in 1..m : s[i].id \in Nat
  BY Bytes
<1>1. l = m - d /\ Len(s) = m /\ Len(t) = l /\ d \in 0..r /\ r \in 1..m /\ x \in 1..r
      /\ u = r - d /\ u \in 0..l /\ d = IF x < r THEN x + 1 ELSE x
  <2>1. l = m - d /\ Len(s) = m /\ Len(t) = l /\ r \in 0..m /\ x \in 1..r /\ u = r - d
        /\ d = IF x < r THEN x + 1 ELSE x
    OBVIOUS
  <2> HIDE DEF m, l, u
  <2> QED BY <1>0, <2>1
<1>2. \A i \in 1..l : t[i] = s[i + d] /\ i + d \in 1..m
  <2>1. \A i \in 1..l : t[i] = s[i + d]
    OBVIOUS
  <2> HIDE DEF m, l
  <2> QED BY <1>0, <1>1, <2>1
<1>3. Ordered(t, k) /\ Closed(t)
  <2>1. d \in 0..Len(s)
    <3>1. d \in 0..m
      <4> HIDE DEF m, l, u
      <4> QED BY <1>0, <1>1
    <3> QED BY <3>1, Zenon DEF m
  <2>2. Ordered(s, k) /\ Closed(s)
    BY DEF Fine
  <2> QED BY <2>1, <2>2, Dropped
<1> HIDE DEF m, l, u
<1>4. /\ x < m /\ s[x + 1].ch = "LF" /\ s[x + 1].id = s[x].id
      /\ x + 2 <= m => s[x + 2].ch # "CR" /\ s[x].id < s[x + 2].id
  BY <1>0, <1>1 DEF Fine, Closed
<1>5. \A i, j \in 1..m : i < j => s[i].id <= s[j].id
  BY <1>1 DEF Fine, Ordered
<1>6. Passed(t, u, g)
  <2>1. Passed(s, r, h)
    BY DEF Fine
  <2>2. \A i \in 1..m : s[i].id \notin h
    BY <1>1, <2>1 DEF Passed
  <2>3. ASSUME NEW i \in 1..l, t[i].id \in g PROVE i = 1 /\ u = 0 /\ t[1].ch = "LF"
    <3>1. t[i] = s[i + d] /\ i + d \in 1..m /\ s[i + d].id \in Nat
      BY <1>0, <1>2
    <3>2. x = 3 /\ s[i + d].id = s[2].id
      BY <2>2, <2>3, <3>1
    <3>3. i + d >= 4 /\ 2 \in 1..m /\ 3 \in 1..m /\ s[2].id \in Nat /\ s[3].id \in Nat
      BY <1>0, <1>1, <3>2
    <3>4. s[2].id <= s[3].id
      BY <1>5, <3>3
    <3>5. i + d = 4
      <4>1. SUFFICES ASSUME i + d >= 5 PROVE FALSE
        <5>1. i + d \in 1..m /\ i + d >= 4 /\ m \in Nat
          BY <1>0, <3>1, <3>3
        <5> QED BY <5>1
      <4>2. 5 \in 1..m /\ s[5].id \in Nat /\ 5 = x + 2 /\ x + 2 <= m
        BY <1>0, <3>1, <3>2, <4>1
      <4>3. s[3].id < s[5].id
        BY <1>4, <3>2, <4>2
      <4>4. s[5].id <= s[i + d].id
        <5> DEFINE j == i + d
        <5>1. j \in 1..m /\ j >= 5 /\ m \in Nat
          BY <1>1, <3>1, <4>1
        <5> HIDE DEF j
        <5>2. 5 = j \/ 5 < j
          BY <5>1
        <5>3. 5 < j => s[5].id <= s[j].id
          <6>1. 5 \in 1..m
            BY <4>2
          <6> QED BY <1>5, <5>1, <6>1, Zenon
        <5>4. 5 = j => s[5].id <= s[j].id
          <6>1. s[5].id <= s[5].id
            BY <4>2
          <6> QED BY <6>1, Zenon
        <5>5. s[5].id <= s[j].id
          BY <5>2, <5>3, <5>4, Zenon
        <5> QED BY <5>5, Zenon DEF j
      <4> DEFINE v == s[2].id
                 w == s[3].id
                 z == s[5].id
      <4>5. v \in Nat /\ w \in Nat /\ z \in Nat /\ v <= w /\ w < z
        BY <3>3, <3>4, <4>2, <4>3
      <4>6. z <= v
        BY <3>2, <4>4, Zenon
      <4> HIDE DEF v, w, z
      <4> QED BY <4>5, <4>6
    <3>6. d = 3 /\ i = 1 /\ r = 3
      BY <1>0, <1>1, <3>2, <3>5
    <3> QED BY <1>1, <1>4, <3>1, <3>2, <3>6
  <2>4. ASSUME NEW i \in 1..l, t[i].ch \in Kinds, NEW n \in g PROVE n < t[i].id
    <3>1. t[i] = s[i + d] /\ i + d \in 1..m
      BY <1>2
    <3>2. CASE n \in h
      BY <1>1, <2>1, <2>4, <3>1, <3>2 DEF Passed
    <3>3. CASE n \notin h
      <4>1. x = 3 /\ s[2].ch \in Kinds /\ n = s[2].id
        BY <3>3
      <4>2. 2 \in 1..m /\ 2 < i + d
        BY <1>0, <1>1, <4>1
      <4> QED BY <1>1, <2>4, <3>1, <4>1, <4>2 DEF Fine, Ordered
    <3> QED BY <3>2, <3>3
  <2> QED BY <1>1, <2>3, <2>4 DEF Passed
\* The packet ends no later than the boundary.
<1>7. ASSUME NEW q \in 3..(m + 1), s[q - 2].ch = "CR"
      PROVE  d < q /\ Boundary(t, u, q - d)
  <2>1. x <= q - 2 /\ q - 2 \in 1..m
    <3>1. m \in Nat /\ r \in 1..m /\ x \in 1..r
      BY <1>0, <1>1
    <3>2. q - 2 \in 1..m
      BY <3>1
    <3>3. q - 2 \notin 1..(x - 1)
      BY <1>7
    <3> QED BY <3>1, <3>2, <3>3
  <2>2. CASE x = q - 2 /\ x < r
    <3>1. d < q /\ q - d = 1
      BY <1>0, <1>1, <2>2
    <3> QED BY <3>1 DEF Boundary
  <2>3. CASE x = q - 2 /\ ~(x < r)
    <3>1. d < q /\ q - d = 2 /\ u = 0 /\ d = x /\ 1 + d = x + 1 /\ 1 \in 1..l
      BY <1>0, <1>1, <1>4, <2>3
    <3>2. t[1] = s[x + 1]
      BY <1>2, <3>1
    <3> QED BY <1>4, <3>1, <3>2 DEF Boundary
  <2>4. CASE x < q - 2
    <3>1. x + 1 # q - 2
      BY <1>4, <1>7
    <3>2. d < q - 2 /\ q - 2 - d \in 1..l /\ (q - 2 - d) + d = q - 2 /\ q - d - 2 = q - 2 - d /\ q - d >= 3 /\ d < q
      BY <1>0, <1>1, <2>1, <2>4, <3>1
    <3>3. t[q - 2 - d] = s[q - 2]
      BY <1>2, <3>2
    <3> QED BY <1>7, <3>2, <3>3 DEF Boundary
  <2> QED BY <1>0, <1>1, <2>1, <2>2, <2>3, <2>4
<1>8. ASSUME NEW n \in c PROVE n \in g \/ Ready(t, u, n)
  <2>1. CASE n \in h
    BY <2>1
  <2>2. CASE Ready(s, r, n)
    <3>1. PICK q \in 1..m : /\ q + 2 <= m /\ Boundary(s, r, q)
                            /\ s[q].ch = "$" /\ s[q].id = n
                            /\ s[q + 1].ch \in Kinds /\ s[q + 1].id = n
                            /\ s[q + 2].ch = "CR" /\ s[q + 2].id = n
                            /\ \A i \in 1..m : s[i].id = n => q <= i
      BY <1>1, <2>2 DEF Ready
    <3>2. CASE q = 1
      <4>1. s[1].ch = "$" /\ s[2].ch \in Kinds /\ s[3].ch = "CR" /\ s[2].id = n /\ s[1].ch # "CR" /\ s[2].ch # "CR"
        BY <3>1, <3>2 DEF Kinds
      <4>2. x = 3
        <5>1. x # 1 /\ x # 2
          BY <4>1
        <5>2. ~(x > 3)
          BY <1>1, <4>1
        <5>3. m \in Nat /\ r \in 1..m /\ x \in 1..r
          BY <1>0, <1>1
        <5> HIDE DEF CutsAt, Tallies, ShiftOf
        <5> QED BY <5>1, <5>2, <5>3
      <4> QED BY <4>1, <4>2
    <3>3. CASE q # 1
      <4>1. q \in 3..(m + 1) /\ s[q - 2].ch = "CR"
        BY <1>0, <1>1, <3>1, <3>3 DEF Boundary
      <4>2. d < q /\ Boundary(t, u, q - d)
        BY <1>7, <4>1
      <4>3. u \in Nat /\ n \in Nat /\ d \in 0..m
        BY <1>0, <1>1
      <4> QED BY <1>1, <1>2, <3>1, <4>2, <4>3, ReadyBehind
    <3> QED BY <3>2, <3>3
  <2> QED BY <2>1, <2>2 DEF Fine, Awaited
<1>9. ASSUME st PROVE Boundary(t, u, l + 1)
  <2>1. Boundary(s, r, m + 1)
    BY <1>1, <1>9 DEF Fine
  <2>2. m + 1 \in 3..(m + 1) /\ s[(m + 1) - 2].ch = "CR" /\ (m + 1) - d = l + 1
    BY <1>0, <1>1, <2>1 DEF Boundary
  <2> DEFINE q == m + 1
  <2>3. q \in 3..(m + 1) /\ s[q - 2].ch = "CR" /\ q - d = l + 1
    BY <2>2
  <2> HIDE DEF q
  <2>4. Boundary(t, u, q - d)
    BY <1>7, <2>3
  <2> QED BY <1>0, <1>1, <2>3, <2>4 DEF Boundary
<1>10. l > 0 => t[1].ch # "CR"
  <2> SUFFICES ASSUME l > 0 PROVE t[1].ch # "CR"
    OBVIOUS
  <2>1. 1 \in 1..l /\ 1 + d \in 1..m /\ t[1] = s[1 + d]
    BY <1>0, <1>2
  <2>2. 1 + d = x + 1 \/ (1 + d = x + 2 /\ x + 2 <= m)
    BY <1>0, <1>1, <2>1
  <2> QED BY <1>4, <2>1, <2>2
<1> QED
  <2>1. Awaited(t, u, c, g)
    BY <1>8 DEF Awaited
  <2> QED BY <1>1, <1>3, <1>6, <1>9, <1>10, <2>1 DEF Fine, u

\* The bytes of item k + 1 are sent behind the others: one kind at most, and a carriage
\* return only before the line feed that ends them.
GrowsTo(s, t, r, k) ==
  /\ s \in Seq(Byte) /\ t \in Seq(Byte) /\ r \in 0..Len(s) /\ Len(s) <= Len(t)
  /\ \A i \in 1..Len(s) : t[i] = s[i]
  /\ \A i \in (Len(s) + 1)..Len(t) : t[i].id = k + 1 /\ t[i].ch # "NUL"
  /\ \A i, j \in (Len(s) + 1)..Len(t) : i < j => t[i].ch \notin Kinds \/ t[j].ch \notin Kinds
  /\ \A i \in (Len(s) + 1)..Len(t) : t[i].ch = "CR" => i # Len(s) + 1 /\ i + 1 = Len(t) /\ t[i + 1].ch = "LF"

\* Another item is sent behind what is on its way.
LEMMA Grown ==
  ASSUME NEW s, NEW t, NEW r, NEW k, NEW h, NEW c, NEW st,
         GrowsTo(s, t, r, k), Tallies(k, h, c, st), Fine(s, r, k, h, c, st)
  PROVE  /\ Ordered(t, k + 1) /\ Closed(t) /\ Passed(t, r, h) /\ Awaited(t, r, c, h)
         /\ st => Boundary(t, r, Len(s) + 1)
<1> USE DEF GrowsTo, Tallies
<1> DEFINE m == Len(s)
           l == Len(t)
<1>0. m \in Nat /\ l \in Nat /\ r \in 0..m /\ m <= l
      /\ (\A i \in 1..m : s[i].id \in Nat) /\ (\A i \in 1..l : t[i].id \in Nat)
  BY Bytes
<1>1. /\ Len(s) = m /\ Len(t) = l /\ \A i \in 1..m : t[i] = s[i]
      /\ \A i \in (m + 1)..l : t[i].id = k + 1 /\ t[i].ch # "NUL"
      /\ \A i, j \in (m + 1)..l : i < j => t[i].ch \notin Kinds \/ t[j].ch \notin Kinds
      /\ \A i \in (m + 1)..l : t[i].ch = "CR" => i # m + 1 /\ i + 1 = l /\ t[i + 1].ch = "LF"
  OBVIOUS
<1> HIDE DEF m, l
<1>2. Ordered(s, k) /\ Closed(s) /\ Passed(s, r, h) /\ Awaited(s, r, c, h)
  BY DEF Fine
<1>3. Ordered(t, k + 1)
  <2>1. \A i \in 1..l : t[i].id <= k + 1 /\ t[i].ch # "NUL" /\ (t[i].ch \in Kinds => t[i].id # 0)
    BY <1>0, <1>1, <1>2 DEF Ordered
  <2>2. ASSUME NEW i \in 1..l, NEW j \in 1..l, i < j PROVE t[i].id <= t[j].id
    <3>1. CASE j <= m
      BY <1>0, <1>1, <1>2, <2>2, <3>1 DEF Ordered
    <3>2. CASE ~(j <= m)
      BY <1>0, <1>1, <2>1, <3>2
    <3> QED BY <3>1, <3>2
  <2>3. ASSUME NEW i \in 1..l, NEW j \in 1..l, i < j, t[i].ch \in Kinds, t[j].ch \in Kinds PROVE t[i].id < t[j].id
    <3>1. CASE j <= m
      BY <1>0, <1>1, <1>2, <2>3, <3>1 DEF Ordered
    <3>2. CASE ~(j <= m)
      <4>1. j \in (m + 1)..l /\ t[j].id = k + 1
        BY <1>0, <1>1, <3>2
      <4>2. i \in 1..m
        BY <1>0, <1>1, <2>3, <4>1
      <4>3. t[i].id <= k
        BY <1>1, <1>2, <4>2 DEF Ordered
      <4> QED BY <1>0, <4>1, <4>2, <4>3
    <3> QED BY <3>1, <3>2
  <2> QED BY <1>1, <2>1, <2>2, <2>3 DEF Ordered
<1>4. Closed(t)
  <2> SUFFICES ASSUME NEW i \in 1..l, t[i].ch = "CR"
               PROVE  /\ i < l /\ t[i + 1].ch = "LF" /\ t[i + 1].id = t[i].id
                      /\ i + 2 <= l => t[i + 2].ch # "CR" /\ t[i].id < t[i + 2].id
    BY <1>1 DEF Closed
  <2>1. CASE i <= m
    <3>1. t[i] = s[i] /\ i \in 1..m
      BY <1>0, <1>1, <2>1
    <3>2. /\ i < m /\ s[i + 1].ch = "LF" /\ s[i + 1].id = s[i].id
          /\ i + 2 <= m => s[i + 2].ch # "CR" /\ s[i].id < s[i + 2].id
      BY <1>1, <1>2, <3>1 DEF Closed
    <3>3. i < l /\ i + 1 \in 1..m
      BY <1>0, <2>1, <3>2
    <3>4. t[i + 1] = s[i + 1]
      BY <1>1, <3>3
    <3>5. CASE i + 2 <= m
      <4>1. t[i + 2] = s[i + 2]
        BY <1>0, <1>1, <3>5
      <4> QED BY <3>1, <3>2, <3>3, <3>4, <3>5, <4>1
    <3>6. ASSUME ~(i + 2 <= m), i + 2 <= l PROVE t[i + 2].ch # "CR" /\ t[i].id < t[i + 2].id
      <4>1. i + 2 = m + 1 /\ i + 2 \in (m + 1)..l
        BY <1>0, <3>2, <3>6
      <4>2. t[i + 2].id = k + 1 /\ t[i + 2].ch # "CR"
        BY <1>1, <4>1
      <4>3. s[i].id <= k /\ s[i].id \in Nat
        BY <1>0, <1>1, <1>2, <3>1 DEF Ordered
      <4> QED BY <3>1, <4>2, <4>3
    <3> QED BY <3>1, <3>2, <3>3, <3>4, <3>5, <3>6
  <2>2. CASE ~(i <= m)
    <3>1. i \in (m + 1)..l
      BY <1>0, <2>2
    <3>2. i + 1 = l /\ t[i + 1].ch = "LF"
      BY <1>1, <3>1
    <3>3. i + 1 \in (m + 1)..l /\ i < l /\ ~(i + 2 <= l)
      BY <1>0, <3>1, <3>2
    <3> QED BY <1>1, <3>1, <3>2, <3>3
  <2> QED BY <2>1, <2>2
<1>5. Passed(t, r, h)
  <2>1. ASSUME NEW i \in 1..l, t[i].id \in h PROVE i = 1 /\ r = 0 /\ t[1].ch = "LF"
    <3>1. i \in 1..m
      BY <1>0, <1>1, <2>1
    <3> QED BY <1>1, <1>2, <2>1, <3>1 DEF Passed
  <2>2. ASSUME NEW i \in 1..l, t[i].ch \in Kinds, NEW n \in h PROVE n < t[i].id
    <3>1. CASE i \in 1..m
      BY <1>1, <1>2, <2>2, <3>1 DEF Passed
    <3>2. CASE i \notin 1..m
      BY <1>0, <1>1, <3>2
    <3> QED BY <3>1, <3>2
  <2> QED BY <1>1, <2>1, <2>2 DEF Passed
<1>6. \A q \in 1..(m + 1) : Boundary(s, r, q) => Boundary(t, r, q)
  BY <1>0, <1>1 DEF Boundary
<1>7. ASSUME NEW n \in c, Ready(s, r, n) PROVE Ready(t, r, n)
  <2>1. PICK q \in 1..m : /\ q + 2 <= m /\ Boundary(s, r, q)
                          /\ s[q].ch = "$" /\ s[q].id = n
                          /\ s[q + 1].ch \in Kinds /\ s[q + 1].id = n
                          /\ s[q + 2].ch = "CR" /\ s[q + 2].id = n
                          /\ \A i \in 1..m : s[i].id = n => q <= i
    BY <1>1, <1>7 DEF Ready
  <2>2. Boundary(t, r, q) /\ q \in 1..l /\ q + 2 <= l
    BY <1>0, <1>6, <2>1
  <2>3. t[q] = s[q] /\ t[q + 1] = s[q + 1] /\ t[q + 2] = s[q + 2]
    BY <1>0, <1>1, <2>1
  <2>4. ASSUME NEW i \in 1..l, t[i].id = n PROVE q <= i
    <3>1. i \in 1..m
      BY <1>0, <1>1, <2>4
    <3> QED BY <1>1, <2>1, <2>4, <3>1
  <2> QED BY <1>1, <2>1, <2>2, <2>3, <2>4 DEF Ready
<1>8. Awaited(t, r, c, h)
  BY <1>2, <1>7 DEF Awaited
<1>9. ASSUME st PROVE Boundary(t, r, m + 1)
  BY <1>0, <1>1, <1>6, <1>9 DEF Fine
<1> QED BY <1>1, <1>3, <1>4, <1>5, <1>8, <1>9, Zenon

\* What lies between the buffer and the rest of the item that is being sent is lost, and
\* so may be any sentence that was not in the buffer.
Loses(s, t, r, d, c, e) ==
  /\ s \in Seq(Byte) /\ t \in Seq(Byte) /\ r \in 0..Len(s) /\ d \in 0..(Len(s) - r) /\ Len(t) = Len(s) - d
  /\ \A i \in 1..r : t[i] = s[i] /\ s[i].ch # "CR"
  /\ \A i \in (r + 1)..Len(t) : t[i] = s[i + d]
  /\ e \subseteq c /\ \A i \in (r + 1)..Len(s) : s[i].id \notin e

\* The line is opened again.
LEMMA Reopened ==
  ASSUME NEW s, NEW t, NEW r, NEW d, NEW k, NEW h, NEW c, NEW st, NEW e,
         Loses(s, t, r, d, c, e), Tallies(k, h, c, st), Fine(s, r, k, h, c, st)
  PROVE  Fine(t, r, k, h, e, FALSE)
<1> USE DEF Loses, Tallies
<1> DEFINE m == Len(s)
           l == Len(t)
<1>0. m \in Nat /\ l \in Nat
  BY Bytes
<1>1. /\ Len(s) = m /\ Len(t) = l /\ l = m - d /\ r \in 0..m /\ d \in 0..(m - r)
      /\ \A i \in 1..r : t[i] = s[i] /\ s[i].ch # "CR"
      /\ \A i \in (r + 1)..l : t[i] = s[i + d]
      /\ \A i \in (r + 1)..m : s[i].id \notin e
  OBVIOUS
<1> HIDE DEF m, l
<1>2. Ordered(s, k) /\ Closed(s) /\ Passed(s, r, h) /\ Awaited(s, r, c, h)
  BY DEF Fine
<1> DEFINE f(i) == IF i <= r THEN i ELSE i + d
<1>3. \A i \in 1..l : f(i) \in 1..m /\ t[i] = s[f(i)]
  BY <1>0, <1>1
<1>4. \A i, j \in 1..l : i < j => f(i) < f(j)
  BY <1>0, <1>1
<1>5. Ordered(t, k)
  <2>1. \A i \in 1..l : t[i].id <= k /\ t[i].ch # "NUL" /\ (t[i].ch \in Kinds => t[i].id # 0)
    BY <1>1, <1>2, <1>3 DEF Ordered
  <2>2. ASSUME NEW i \in 1..l, NEW j \in 1..l, i < j
        PROVE  t[i].id <= t[j].id /\ (t[i].ch \in Kinds /\ t[j].ch \in Kinds => t[i].id < t[j].id)
    <3>1. f(i) \in 1..m /\ t[i] = s[f(i)] /\ f(j) \in 1..m /\ t[j] = s[f(j)] /\ f(i) < f(j)
      BY <1>3, <1>4, <2>2
    <3> HIDE DEF f
    <3> QED BY <1>1, <1>2, <3>1 DEF Ordered
  <2> QED BY <1>1, <2>1, <2>2 DEF Ordered
<1>6. Closed(t)
  <2> SUFFICES ASSUME NEW i \in 1..l, t[i].ch = "CR"
               PROVE  /\ i < l /\ t[i + 1].ch = "LF" /\ t[i + 1].id = t[i].id
                      /\ i + 2 <= l => t[i + 2].ch # "CR" /\ t[i].id < t[i + 2].id
    BY <1>1 DEF Closed
  <2>1. i \in (r + 1)..l /\ i + d \in 1..m
    BY <1>0, <1>1
  <2>2. t[i] = s[i + d]
    BY <1>1, <2>1
  <2>3. /\ i + d < m /\ s[i + d + 1].ch = "LF" /\ s[i + d + 1].id = s[i + d].id
        /\ i + d + 2 <= m => s[i + d + 2].ch # "CR" /\ s[i + d].id < s[i + d + 2].id
    BY <1>1, <1>2, <2>1, <2>2 DEF Closed
  <2>4. i + d < m /\ l = m - d /\ m \in Nat /\ l \in Nat /\ d \in 0..(m - r) /\ r \in 0..m
    BY <1>0, <1>1, <2>3
  <2>5. i < l /\ i + 1 \in (r + 1)..l /\ (i + 1) + d = i + d + 1
    BY <2>1, <2>4
  <2>6. t[i + 1] = s[i + d + 1]
    BY <1>1, <2>5
  <2>7. i + 2 <= l => i + 2 \in (r + 1)..l /\ (i + 2) + d = i + d + 2 /\ i + d + 2 <= m
    <3>1. (i + 2) + d = i + d + 2
      BY <2>4
    <3>2. i + 2 <= l => i + 2 \in (r + 1)..l
      BY <2>1, <2>4
    <3>3. i + 2 <= l => i + d + 2 <= m
      BY <2>1, <2>4
    <3> QED BY <3>1, <3>2, <3>3
  <2>8. i + 2 <= l => t[i + 2] = s[i + d + 2]
    BY <1>1, <2>7
  <2> QED BY <2>2, <2>3, <2>5, <2>6, <2>7, <2>8
<1>7. Passed(t, r, h)
  <2>1. ASSUME NEW i \in 1..l, t[i].id \in h PROVE i = 1 /\ r = 0 /\ t[1].ch = "LF"
    <3>1. f(i) \in 1..m /\ t[i] = s[f(i)]
      BY <1>3
    <3>2. f(i) = 1 /\ r = 0 /\ s[1].ch = "LF"
      <4> HIDE DEF f
      <4> QED BY <1>1, <1>2, <2>1, <3>1 DEF Passed
    <3>3. i = 1
      BY <1>0, <1>1, <3>2
    <3> QED BY <3>1, <3>2, <3>3
  <2>2. ASSUME NEW i \in 1..l, t[i].ch \in Kinds, NEW n \in h PROVE n < t[i].id
    <3>1. f(i) \in 1..m /\ t[i] = s[f(i)]
      BY <1>3
    <3> HIDE DEF f
    <3> QED BY <1>1, <1>2, <2>2, <3>1 DEF Passed
  <2> QED BY <1>1, <2>1, <2>2 DEF Passed
<1>8. ASSUME NEW n \in e PROVE n \in h \/ Ready(t, r, n)
  <2>1. ASSUME Ready(s, r, n) PROVE FALSE
    <3>1. PICK q \in 1..m : q + 2 <= m /\ s[q + 2].ch = "CR" /\ s[q + 2].id = n
      BY <1>1, <2>1 DEF Ready
    <3>2. q + 2 \in 1..m /\ q + 2 \notin 1..r
      BY <1>0, <1>1, <3>1
    <3>3. q + 2 \in (r + 1)..m
      BY <1>0, <1>1, <3>2
    <3> QED BY <1>1, <3>1, <3>3
  <2> QED BY <1>2, <2>1 DEF Awaited
<1>9. Awaited(t, r, e, h)
  BY <1>8 DEF Awaited
<1> QED BY <1>5, <1>6, <1>7, <1>9 DEF Fine

\* s is what r bytes of b behind the first p, the bytes of g and those of o make up.
LaidIs(s, r, b, p, g, o) ==
  /\ s \in Seq(Byte) /\ Len(s) = r + (Len(g) + Len(o))
  /\ \A i \in 1..r : s[i] = b[p + i]
  /\ \A i \in 1..Len(g) : s[r + i] = g[i]
  /\ \A i \in 1..Len(o) : s[r + (Len(g) + i)] = o[i]

\* The bytes behind the first p.
LEMMA BytesBehind ==
  ASSUME NEW b \in Seq(Byte), NEW p \in 0..Len(b)
  PROVE  /\ SubSeq(b, p + 1, Len(b)) \in Seq(Byte) /\ Len(SubSeq(b, p + 1, Len(b))) = Len(b) - p
         /\ \A i \in 1..(Len(b) - p) : SubSeq(b, p + 1, Len(b))[i] = b[p + i]
<1>1. Len(b) \in Nat /\ p + 1 \in 1..(Len(b) + 1) /\ Len(b) \in p..Len(b)
  BY Bytes
<1>2. \A i \in (p + 1)..Len(b) : b[i] \in Byte
  BY <1>1, Bytes
<1>3. SubSeq(b, p + 1, Len(b)) \in Seq(Byte)
  BY <1>1, <1>2, SubSeqProperties
<1>4. /\ Len(SubSeq(b, p + 1, Len(b))) = Len(b) - p
      /\ \A i \in 1..(Len(b) - p) : SubSeq(b, p + 1, Len(b))[i] = b[p + i]
  BY <1>1, <1>2, SubSeqProperties
<1> QED BY <1>3, <1>4

\* The bytes of a stream, in the buffer, on the line and still to be sent.
LEMMA LaidOut ==
  ASSUME NEW b \in Seq(Byte), NEW p \in 0..Len(b), NEW g \in Seq(Byte), NEW o \in Seq(Byte)
  PROVE  LaidIs(Laid(b, p, g, o), Len(b) - p, b, p, g, o)
<1> DEFINE a == SubSeq(b, p + 1, Len(b))
           w == g \o o
           s == a \o w
           n == Len(b) - p
           lg == Len(g)
           lo == Len(o)
<1>1. Len(b) \in Nat /\ lg \in Nat /\ lo \in Nat
  BY Bytes
<1>2. a \in Seq(Byte) /\ Len(a) = n /\ \A i \in 1..n : a[i] = b[p + i]
  BY BytesBehind
<1>3. \A u, v \in Seq(Byte) :
                            /\ u \o v \in Seq(Byte) /\ Len(u \o v) = Len(u) + Len(v)
                            /\ \A i \in 1..Len(u) : (u \o v)[i] = u[i]
                            /\ \A i \in 1..Len(v) : (u \o v)[Len(u) + i] = v[i]
  <2> SUFFICES ASSUME NEW u \in Seq(Byte), NEW v \in Seq(Byte)
               PROVE  /\ u \o v \in Seq(Byte) /\ Len(u \o v) = Len(u) + Len(v)
                      /\ \A i \in 1..Len(u) : (u \o v)[i] = u[i]
                      /\ \A i \in 1..Len(v) : (u \o v)[Len(u) + i] = v[i]
    OBVIOUS
  <2>1. u \o v \in Seq(Byte) /\ Len(u \o v) = Len(u) + Len(v) /\ Len(u) \in Nat /\ Len(v) \in Nat
    BY ConcatProperties, Bytes
  <2>2. \A i \in 1..(Len(u) + Len(v)) : (u \o v)[i] = IF i <= Len(u) THEN u[i] ELSE v[i - Len(u)]
    BY ConcatProperties
  <2> DEFINE lu == Len(u)
             lv == Len(v)
             uv == u \o v
  <2>3. lu \in Nat /\ lv \in Nat /\ \A i \in 1..(lu + lv) : uv[i] = IF i <= lu THEN u[i] ELSE v[i - lu]
    BY <2>1, <2>2
  <2> HIDE DEF lu, lv, uv
  <2>4. \A i \in 1..lu : uv[i] = u[i]
    BY <2>3
  <2>5. \A i \in 1..lv : uv[lu + i] = v[i]
    <3> SUFFICES ASSUME NEW i \in 1..lv PROVE uv[lu + i] = v[i]
      OBVIOUS
    <3>1. lu + i \in 1..(lu + lv) /\ ~(lu + i <= lu) /\ (lu + i) - lu = i
      BY <2>3
    <3> QED BY <2>3, <3>1
  <2> QED BY <2>1, <2>4, <2>5 DEF lu, lv, uv
<1>4. w \in Seq(Byte) /\ Len(w) = lg + lo /\ (\A i \in 1..lg : w[i] = g[i]) /\ \A i \in 1..lo : w[lg + i] = o[i]
  BY <1>3
<1> DEFINE la == Len(a)
           lw == Len(w)
<1>5. s \in Seq(Byte) /\ Len(s) = la + lw /\ (\A i \in 1..la : s[i] = a[i]) /\ \A i \in 1..lw : s[la + i] = w[i]
  <2>1. a \in Seq(Byte) /\ w \in Seq(Byte)
    BY <1>2, <1>4
  <2> HIDE DEF a, w
  <2> QED BY <1>3, <2>1
<1>6. la = n /\ lw = lg + lo /\ n \in Nat
  <2>1. n \in Nat
    BY <1>1
  <2> QED BY <1>2, <1>4, <2>1
<1>7. Laid(b, p, g, o) = s
  BY Zenon DEF Laid
<1> HIDE DEF a, w, s, n, lg, lo, la, lw
<1>8. s \in Seq(Byte) /\ Len(s) = n + (lg + lo) /\ \A i \in 1..n : s[i] = b[p + i]
  BY <1>2, <1>5, <1>6
<1>9. \A i \in 1..lg : s[n + i] = g[i]
  BY <1>1, <1>4, <1>5, <1>6
<1>10. \A i \in 1..lo : s[n + (lg + i)] = o[i]
  BY <1>1, <1>4, <1>5, <1>6
<1> QED BY <1>7, <1>8, <1>9, <1>10 DEF n, lg, lo, LaidIs

\* The types, and where the parser stands.
GrType ==
  /\ pc \in {"loop", "parse", "print", "exit"}
  /\ rx_buf \in Seq(Byte) /\ line \in Seq(Byte) /\ rest \in Seq(Byte)
  /\ Len(rx_buf) <= Cap /\ Start \in 0..Len(rx_buf)
  /\ items \in Nat /\ handled \in Seq(1..items) /\ clean \in SUBSET (1..items) /\ steadily \in BOOLEAN
  /\ pc \in {"parse", "print"} => from \in {istart, istart + 1}

\* A parse leaves no carriage return behind and none of it is skipped.
Searched ==
  /\ pc = "loop" => \A i \in 1..There : Stream[i].ch # "CR"
  /\ pc \in {"parse", "print"} /\ from = istart + 1 /\ Len(Stream) > 0 => Stream[1].ch # "CR"

\* Sentences were heard in order, each once.
Increasing == \A i, j \in 1..Len(handled) : i < j => handled[i] < handled[j]

\* The stream that is still to be read, its first There bytes in rx_buf.
FineNow == Fine(Stream, There, items, Heard, clean, steadily)

\* The inductive invariant.
GrInv == GrType /\ FineNow /\ Searched /\ Increasing

\* What the types say of the stream.
LEMMA StreamIs ==
  ASSUME GrType
  PROVE  /\ Stream \in Seq(Byte) /\ There \in 0..Len(rx_buf) /\ There \in 0..Len(Stream)
         /\ Len(Stream) = There + (Len(line) + Len(rest))
         /\ Len(rx_buf) \in Nat /\ Len(line) \in Nat /\ Len(rest) \in Nat /\ Len(Stream) \in Nat
         /\ Heard \in SUBSET (1..items)
         /\ \A i \in 1..There : Stream[i] = rx_buf[Start + i]
         /\ \A i \in 1..Len(line) : Stream[There + i] = line[i]
         /\ \A i \in 1..Len(rest) : Stream[There + (Len(line) + i)] = rest[i]
<1>1. rx_buf \in Seq(Byte) /\ line \in Seq(Byte) /\ rest \in Seq(Byte) /\ Start \in 0..Len(rx_buf)
      /\ handled \in Seq(1..items)
  BY DEF GrType
<1>2. Len(rx_buf) \in Nat /\ Len(line) \in Nat /\ Len(rest) \in Nat
  BY <1>1, Bytes
<1>3. /\ Stream \in Seq(Byte) /\ Len(Stream) = There + (Len(line) + Len(rest))
      /\ \A i \in 1..There : Stream[i] = rx_buf[Start + i]
      /\ \A i \in 1..Len(line) : Stream[There + i] = line[i]
      /\ \A i \in 1..Len(rest) : Stream[There + (Len(line) + i)] = rest[i]
  <2>1. LaidIs(Laid(rx_buf, Start, line, rest), Len(rx_buf) - Start, rx_buf, Start, line, rest)
    BY <1>1, LaidOut
  <2>2. LaidIs(Stream, There, rx_buf, Start, line, rest)
    BY <2>1, Zenon DEF Stream, There
  <2> QED BY <2>2 DEF LaidIs
<1>4. There \in 0..Len(rx_buf)
  BY <1>1, <1>2 DEF There
<1>5. There \in 0..Len(Stream) /\ Len(Stream) \in Nat
  <2> HIDE DEF There, Stream
  <2> QED BY <1>2, <1>3, <1>4
<1>6. Heard \in SUBSET (1..items)
  BY <1>1, ElementOfSeq DEF Heard
<1> QED BY <1>2, <1>3, <1>4, <1>5, <1>6

\* Making room changes nothing in the stream but bytes that are noise.
LEMMA Compact ==
  ASSUME GrInv, pc = "loop", NEW e \in Compacted
  PROVE  /\ e.buf \in Seq(Byte) /\ Len(e.buf) <= Cap /\ e.pos \in 0..Len(e.buf) /\ Len(e.buf) - e.pos = There
         /\ Laid(e.buf, e.pos, line, rest) \in Seq(Byte)
         /\ Len(Laid(e.buf, e.pos, line, rest)) = Len(Stream)
         /\ Fine(Laid(e.buf, e.pos, line, rest), There, items, Heard, clean, steadily)
         /\ \A i \in 1..There : Laid(e.buf, e.pos, line, rest)[i].ch # "CR"
<1>1. /\ rx_buf \in Seq(Byte) /\ line \in Seq(Byte) /\ rest \in Seq(Byte) /\ Start = read_pos
      /\ Len(rx_buf) <= Cap /\ read_pos \in 0..Len(rx_buf) /\ Len(rx_buf) \in Nat
      /\ There = Len(rx_buf) - read_pos
      /\ items \in Nat /\ clean \in SUBSET (1..items) /\ steadily \in BOOLEAN
      /\ Cap \in Nat /\ MinSize \in Nat /\ MinSize + 3 <= Cap
  BY GpsAssumption, Bytes DEF GrInv, GrType, Start, There
<1>2. /\ FineNow /\ \A i \in 1..There : Stream[i].ch # "CR"
  BY DEF GrInv, Searched
<1>3. /\ Stream \in Seq(Byte) /\ There \in 0..Len(Stream) /\ Heard \in SUBSET (1..items)
      /\ Len(Stream) = There + (Len(line) + Len(rest)) /\ Len(Stream) \in Nat
      /\ Len(line) \in Nat /\ Len(rest) \in Nat
      /\ \A i \in 1..Len(line) : Stream[There + i] = line[i]
      /\ \A i \in 1..Len(rest) : Stream[There + (Len(line) + i)] = rest[i]
  BY StreamIs DEF GrInv
<1>4. Unread \in Seq(Byte) /\ Len(Unread) = There /\ There \in Nat
  <2>1. Unread \in Seq(Byte) /\ Len(Unread) = Len(rx_buf) - read_pos
    BY <1>1, BytesBehind DEF Unread
  <2> QED BY <1>1, <2>1
<1>5. CASE e = [buf |-> rx_buf, pos |-> read_pos]
  <2>1. Laid(e.buf, e.pos, line, rest) = Stream
    BY <1>1, <1>5 DEF Stream
  <2> QED BY <1>1, <1>2, <1>3, <1>5, <2>1 DEF FineNow
<1>6. CASE e = [buf |-> Unread, pos |-> 0]
  <2>1. SubSeq(Unread, 0 + 1, Len(Unread)) = Unread
    <3>1. SubSeq(Unread, 1, Len(Unread)) = Unread
      BY <1>4, SubSeqFull
    <3> QED BY <3>1
  <2>2. Laid(Unread, 0, line, rest) = Unread \o (line \o rest)
    BY <2>1, Zenon DEF Laid
  <2>3. Stream = Unread \o (line \o rest)
    BY <1>1, Zenon DEF Stream, Laid, Unread
  <2>4. e.buf = Unread /\ e.pos = 0 /\ Laid(e.buf, e.pos, line, rest) = Stream
    BY <1>6, <2>2, <2>3
  <2>5. Len(e.buf) = There /\ There <= Cap /\ 0 \in 0..There /\ There - 0 = There
    BY <1>1, <1>4, <2>4
  <2> QED BY <1>2, <1>3, <1>4, <2>4, <2>5 DEF FineNow
<1>7. CASE /\ e = [buf |-> [i \in DOMAIN Unread |-> [ch |-> "x", id |-> 0]], pos |-> 0]
           /\ read_pos \in 1..(Len(Unread) - 1) /\ ~(Cap - Len(rx_buf) >= MinSize)
  <2> DEFINE b == [i \in DOMAIN Unread |-> [ch |-> "x", id |-> 0]]
             t == Laid(b, 0, line, rest)
  <2>1. DOMAIN Unread = 1..There
    BY <1>4, LenProperties
  <2>2. b \in [1..There -> Byte] /\ \A i \in 1..There : b[i].ch = "x" /\ b[i].id = 0
    BY <2>1 DEF Byte
  <2>3. b \in Seq(Byte)
    BY <1>4, <2>2, SeqDef
  <2>4. Len(b) = There
    BY <1>4, <2>2, <2>3, LenProperties
  <2>5. e.buf = b /\ e.pos = 0 /\ There >= 3 /\ There <= Cap
    BY <1>1, <1>4, <1>7
  <2> HIDE DEF b
  <2>6. /\ t \in Seq(Byte) /\ Len(t) = (Len(b) - 0) + (Len(line) + Len(rest))
        /\ \A i \in 1..(Len(b) - 0) : t[i] = b[0 + i]
        /\ \A i \in 1..Len(line) : t[(Len(b) - 0) + i] = line[i]
        /\ \A i \in 1..Len(rest) : t[(Len(b) - 0) + (Len(line) + i)] = rest[i]
    <3>1. 0 \in 0..Len(b)
      BY <1>4, <2>4
    <3>2. LaidIs(Laid(b, 0, line, rest), Len(b) - 0, b, 0, line, rest)
      BY <1>1, <2>3, <3>1, LaidOut
    <3>3. LaidIs(t, Len(b) - 0, b, 0, line, rest)
      BY <3>2, Zenon DEF t
    <3> HIDE DEF t
    <3> QED BY <3>3 DEF LaidIs
  <2>7. Len(b) - 0 = There /\ \A i \in 1..There : 0 + i = i
    BY <1>4, <2>4
  <2> HIDE DEF t
  <2>8. Len(t) = Len(Stream) /\ \A i \in 1..There : t[i] = b[i]
    BY <1>3, <2>6, <2>7
  <2>9. \A i \in (There + 1)..Len(Stream) : t[i] = Stream[i]
    <3> DEFINE lg == Len(line)
               lo == Len(rest)
    <3>1. /\ \A i \in 1..lg : t[There + i] = Stream[There + i]
          /\ \A i \in 1..lo : t[There + (lg + i)] = Stream[There + (lg + i)]
          /\ Len(Stream) = There + (lg + lo) /\ lg \in Nat /\ lo \in Nat /\ There \in Nat
      BY <1>3, <1>4, <2>6, <2>7
    <3> HIDE DEF lg, lo
    <3> SUFFICES ASSUME NEW i \in (There + 1)..Len(Stream) PROVE t[i] = Stream[i]
      OBVIOUS
    <3>2. CASE i <= There + lg
      <4>1. i - There \in 1..lg /\ There + (i - There) = i
        BY <3>1, <3>2
      <4> QED BY <3>1, <4>1
    <3>3. CASE ~(i <= There + lg)
      <4>1. i - There - lg \in 1..lo /\ There + (lg + (i - There - lg)) = i
        BY <3>1, <3>3
      <4> QED BY <3>1, <4>1
    <3> QED BY <3>2, <3>3
  <2>10. \A i \in 1..There : t[i].ch = "x" /\ t[i].id = 0
    BY <2>2, <2>8 DEF b
  <2>11. Fine(t, There, items, Heard, clean, steadily)
    <3>1. /\ Stream \in Seq(Byte) /\ t \in Seq(Byte) /\ Len(t) = Len(Stream) /\ There \in 0..Len(Stream) /\ There >= 3
          /\ items \in Nat /\ Heard \in SUBSET (1..items) /\ clean \in SUBSET (1..items) /\ steadily \in BOOLEAN
      BY <1>1, <1>3, <2>5, <2>6, <2>8
    <3>2. Fine(Stream, There, items, Heard, clean, steadily) /\ \A i \in 1..There : Stream[i].ch # "CR"
      BY <1>2 DEF FineNow
    <3> QED BY <2>9, <2>10, <3>1, <3>2, Garbled
  <2> QED BY <1>4, <2>3, <2>4, <2>5, <2>6, <2>8, <2>10, <2>11 DEF t
<1> QED BY <1>5, <1>6, <1>7 DEF Compacted

\* A set of naturals has a least one.
LEMMA LeastOfNats ==
  ASSUME NEW I, I \subseteq Nat, I # {}
  PROVE  \E m \in I : \A j \in I : m <= j
<1>1. PICK m \in I : \A j \in I : ~ (<<j, m>> \in OpToRel(<, Nat))
  BY NatLessThanWellFounded, WFMin
<1>2. \A j \in I : ~(j < m)
  BY <1>1 DEF OpToRel
<1>3. \A j \in I : m <= j
  BY <1>2
<1> QED BY <1>1, <1>3

\* FirstDollar is the place of the first "$", or 0.
LEMMA DollarIs ==
  ASSUME NEW w \in Seq(Byte)
  PROVE  \/ FirstDollar(w) = 0 /\ \A i \in 1..Len(w) : w[i].ch # "$"
         \/ /\ FirstDollar(w) \in 1..Len(w) /\ w[FirstDollar(w)].ch = "$"
            /\ \A i \in 1..(FirstDollar(w) - 1) : w[i].ch # "$"
<1> DEFINE I == {i \in 1..Len(w) : w[i].ch = "$"}
<1>1. FirstDollar(w) = IF I # {} THEN Min(I) ELSE 0
  BY DEF FirstDollar, SelectInSeq
<1>2. Len(w) \in Nat
  BY Bytes
<1>3. CASE I = {}
  BY <1>1, <1>3
<1>4. CASE I # {}
  <2>0. I \subseteq Nat
    OBVIOUS
  <2>1. PICK m \in I : \A j \in I : m <= j
    <3> HIDE DEF I
    <3> QED BY <1>4, <2>0, LeastOfNats
  <2>2. Min(I) \in I /\ \A j \in I : Min(I) <= j
    BY <2>1 DEF Min
  <2>3. FirstDollar(w) = Min(I)
    BY <1>1, <1>4
  <2>4. FirstDollar(w) \in I /\ \A j \in I : FirstDollar(w) <= j
    BY <2>2, <2>3
  <2>5. \A i \in 1..(FirstDollar(w) - 1) : i \in 1..Len(w) /\ ~(FirstDollar(w) <= i)
    BY <1>2, <2>4
  <2> QED BY <2>4, <2>5
<1> QED BY <1>3, <1>4

\* A stream laid out anew without its first d bytes.
LaidAnew(s, t, r, u, d, b, p, g, o, c, q, f) ==
  /\ s \in Seq(Byte) /\ t \in Seq(Byte) /\ r \in Nat /\ u \in Nat /\ d \in Nat /\ p \in Nat /\ q \in Nat
  /\ g \in Seq(Byte) /\ o \in Seq(Byte) /\ f \in Seq(Byte)
  /\ LaidIs(s, r, b, p, g, o) /\ LaidIs(t, u, c, q, f, o) /\ r + Len(g) = d + (u + Len(f))
  /\ \A i \in 1..u : c[q + i] = s[d + i]
  /\ \A i \in 1..Len(f) : f[i] = s[d + (u + i)]

LEMMA Shifts ==
  ASSUME NEW s, NEW t, NEW r, NEW u, NEW d, NEW b, NEW p, NEW g, NEW o, NEW c, NEW q, NEW f,
         LaidAnew(s, t, r, u, d, b, p, g, o, c, q, f)
  PROVE  ShiftOf(s, t, d)
<1> USE DEF LaidAnew
<1> DEFINE lg == Len(g)
           lf == Len(f)
           lo == Len(o)
           m == Len(s)
           l == Len(t)
<1>1. lg \in Nat /\ lf \in Nat /\ lo \in Nat /\ m \in Nat /\ l \in Nat
  BY Bytes
<1>2. /\ m = r + (lg + lo) /\ l = u + (lf + lo) /\ r + lg = d + (u + lf)
      /\ \A i \in 1..lo : s[r + (lg + i)] = o[i]
      /\ \A i \in 1..u : t[i] = s[d + i]
      /\ \A i \in 1..lf : t[u + i] = s[d + (u + i)]
      /\ \A i \in 1..lo : t[u + (lf + i)] = o[i]
  BY DEF LaidIs
<1>3. Len(t) = l /\ Len(s) = m
  OBVIOUS
<1> HIDE DEF lg, lf, lo, m, l
<1>4. l = m - d
  <2>1. m = r + (lg + lo) /\ l = u + (lf + lo) /\ r + lg = d + (u + lf)
    BY <1>2
  <2> QED BY <1>1, <2>1
<1>5. ASSUME NEW i \in 1..l PROVE t[i] = s[i + d]
  <2>1. CASE i <= u
    BY <1>1, <1>2, <2>1
  <2>2. CASE u < i /\ i <= u + lf
    <3>1. i - u \in 1..lf /\ u + (i - u) = i /\ d + (u + (i - u)) = i + d
      BY <1>1, <2>2
    <3> QED BY <1>2, <3>1
  <2>3. CASE u + lf < i
    <3> DEFINE j == i - u - lf
    <3>1. j \in 1..lo /\ u + (lf + j) = i /\ r + (lg + j) = i + d
      BY <1>1, <1>2, <2>3
    <3> HIDE DEF j
    <3> QED BY <1>2, <3>1
  <2>4. i \in Nat /\ u \in Nat
    BY <1>1
  <2>5. i <= u \/ (u < i /\ i <= u + lf) \/ u + lf < i
    BY <1>1, <2>4
  <2> QED BY <2>1, <2>2, <2>3, <2>5
<1> QED BY <1>3, <1>4, <1>5 DEF ShiftOf

\* Bytes that are read behind those that were there, and the rest of them.
LEMMA ReadOf ==
  ASSUME NEW b \in Seq(Byte), NEW g \in Seq(Byte), NEW n \in 0..Len(g)
  PROVE  /\ b \o SubSeq(g, 1, n) \in Seq(Byte) /\ Len(b \o SubSeq(g, 1, n)) = Len(b) + n
         /\ \A i \in 1..Len(b) : (b \o SubSeq(g, 1, n))[i] = b[i]
         /\ \A i \in 1..n : (b \o SubSeq(g, 1, n))[Len(b) + i] = g[i]
         /\ SubSeq(g, n + 1, Len(g)) \in Seq(Byte) /\ Len(SubSeq(g, n + 1, Len(g))) = Len(g) - n
         /\ \A i \in 1..(Len(g) - n) : SubSeq(g, n + 1, Len(g))[i] = g[n + i]
<1> DEFINE x == SubSeq(g, 1, n)
           y == SubSeq(g, n + 1, Len(g))
           lb == Len(b)
           lg == Len(g)
<1>1. lb \in Nat /\ lg \in Nat /\ n \in 0..lg /\ \A i \in 1..lg : g[i] \in Byte
  BY Bytes
<1>2. x \in Seq(Byte) /\ Len(x) = n /\ \A i \in 1..n : x[i] = g[i]
  <2>1. \A i \in 1..n : g[i] \in Byte
    BY <1>1
  <2>2. x \in Seq(Byte)
    BY <1>1, <2>1, SubSeqProperties
  <2>3. Len(x) = n /\ \A i \in 1..n : x[i] = g[i]
    BY <1>1, <2>1, SubSeqProperties
  <2> QED BY <2>2, <2>3
<1>3. y \in Seq(Byte) /\ Len(y) = lg - n /\ \A i \in 1..(lg - n) : y[i] = g[n + i]
  <2>1. \A i \in (n + 1)..Len(g) : g[i] \in Byte
    BY <1>1
  <2>2. y \in Seq(Byte)
    BY <1>1, <2>1, SubSeqProperties
  <2>3. Len(y) = lg - n /\ \A i \in 1..(lg - n) : y[i] = g[n + i]
    BY <1>1, <2>1, SubSeqProperties
  <2> QED BY <2>2, <2>3
<1>4. b \o x \in Seq(Byte) /\ Len(b \o x) = Len(b) + Len(x)
  <2> HIDE DEF x
  <2> QED BY <1>2, ConcatProperties
<1>5. \A i \in 1..(Len(b) + Len(x)) : (b \o x)[i] = IF i <= Len(b) THEN b[i] ELSE x[i - Len(b)]
  <2> HIDE DEF x
  <2> QED BY <1>2, ConcatProperties
<1> DEFINE bx == b \o x
<1>6. bx \in Seq(Byte) /\ Len(bx) = lb + n /\ \A i \in 1..(lb + n) : bx[i] = IF i <= lb THEN b[i] ELSE x[i - lb]
  BY <1>2, <1>4, <1>5
<1> HIDE DEF bx, x, y, lb, lg
<1>7. \A i \in 1..lb : bx[i] = b[i]
  BY <1>1, <1>6
<1>8. ASSUME NEW i \in 1..n PROVE bx[lb + i] = g[i]
  <2>1. lb + i \in 1..(lb + n) /\ ~(lb + i <= lb) /\ (lb + i) - lb = i
    BY <1>1
  <2> QED BY <1>2, <1>6, <2>1
<1> QED BY <1>3, <1>6, <1>7, <1>8 DEF bx, x, y, lb, lg

\* Reading takes the stream on to where parse_buf begins.
LEMMA Received == ASSUME GrInv, Receive PROVE GrInv'
<1>1. PICK b, p, k, v, w, x, q :
        /\ \E e \in Compacted : b = e.buf /\ p = e.pos
        /\ k = IF Len(line) < Cap - Len(b) THEN Len(line) ELSE Cap - Len(b)
        /\ v = b \o SubSeq(line, 1, k) /\ w = SubSeq(v, p + 1, Len(v)) /\ x = FirstDollar(w)
        /\ q = IF x = 0 THEN Len(v) ELSE p + x - 1
        /\ rx_buf' = v /\ line' = SubSeq(line, k + 1, Len(line)) /\ istart' = q /\ from' = q
  BY DEF Receive, dread
<1>2. /\ pc = "loop" /\ pc' = "parse" /\ rest' = rest /\ items' = items /\ handled' = handled /\ clean' = clean
      /\ steadily' = steadily
  BY DEF Receive, history
<1> DEFINE s == Laid(b, p, line, rest)
           m == There + k
<1>3. /\ b \in Seq(Byte) /\ Len(b) <= Cap /\ p \in 0..Len(b) /\ Len(b) - p = There
      /\ s \in Seq(Byte) /\ Fine(s, There, items, Heard, clean, steadily)
      /\ line \in Seq(Byte) /\ rest \in Seq(Byte) /\ Cap \in Nat /\ Len(b) \in Nat /\ Len(line) \in Nat
      /\ Len(rest) \in Nat
      /\ items \in Nat /\ handled \in Seq(1..items) /\ clean \in SUBSET (1..items) /\ steadily \in BOOLEAN
      /\ Heard \in SUBSET (1..items)
  <2>1. PICK e \in Compacted : b = e.buf /\ p = e.pos
    BY <1>1
  <2>2. /\ b \in Seq(Byte) /\ Len(b) <= Cap /\ p \in 0..Len(b) /\ Len(b) - p = There
        /\ s \in Seq(Byte) /\ Fine(s, There, items, Heard, clean, steadily)
    BY <1>2, <2>1, Compact
  <2>3. /\ line \in Seq(Byte) /\ rest \in Seq(Byte) /\ Cap \in Nat
        /\ items \in Nat /\ handled \in Seq(1..items) /\ clean \in SUBSET (1..items) /\ steadily \in BOOLEAN
    BY GpsAssumption DEF GrInv, GrType
  <2>4. Heard \in SUBSET (1..items)
    BY StreamIs DEF GrInv
  <2> HIDE DEF s
  <2> QED BY <2>2, <2>3, <2>4, Bytes
<1>6. LaidIs(s, There, b, p, line, rest)
  BY <1>3, LaidOut
<1> HIDE DEF s
<1>4. k \in 0..Len(line) /\ Len(b) + k <= Cap
  <2>1. k = IF Len(line) < Cap - Len(b) THEN Len(line) ELSE Cap - Len(b)
    BY <1>1
  <2>2. Len(line) \in Nat /\ Len(b) \in Nat /\ Cap \in Nat /\ Len(b) <= Cap
    BY <1>3
  <2> QED BY <2>1, <2>2
<1>5. /\ v \in Seq(Byte) /\ Len(v) = Len(b) + k
      /\ \A i \in 1..Len(b) : v[i] = b[i]
      /\ \A i \in 1..k : v[Len(b) + i] = line[i]
      /\ line' \in Seq(Byte) /\ Len(line') = Len(line) - k
      /\ \A i \in 1..(Len(line) - k) : line'[i] = line[k + i]
  <2>1. v = b \o SubSeq(line, 1, k) /\ line' = SubSeq(line, k + 1, Len(line))
    BY <1>1
  <2>2. /\ b \o SubSeq(line, 1, k) \in Seq(Byte) /\ Len(b \o SubSeq(line, 1, k)) = Len(b) + k
        /\ \A i \in 1..Len(b) : (b \o SubSeq(line, 1, k))[i] = b[i]
        /\ \A i \in 1..k : (b \o SubSeq(line, 1, k))[Len(b) + i] = line[i]
        /\ SubSeq(line, k + 1, Len(line)) \in Seq(Byte) /\ Len(SubSeq(line, k + 1, Len(line))) = Len(line) - k
        /\ \A i \in 1..(Len(line) - k) : SubSeq(line, k + 1, Len(line))[i] = line[k + i]
    <3>1. b \in Seq(Byte) /\ line \in Seq(Byte) /\ k \in 0..Len(line)
      BY <1>3, <1>4
    <3> QED BY <3>1, ReadOf
  <2> QED BY <2>1, <2>2, Zenon
<1>7. q = IF x = 0 THEN Len(v) ELSE p + x - 1
  BY <1>1
<1>8. x = FirstDollar(w) /\ w = SubSeq(v, p + 1, Len(v))
  BY <1>1
<1>9. There \in Nat /\ m \in Nat /\ Len(v) = p + m /\ p \in Nat /\ Len(b) = p + There /\ Len(v) \in Nat /\ k \in Nat
  <2>1. Len(b) \in Nat /\ p \in 0..Len(b) /\ Len(b) - p = There /\ k \in 0..Len(line) /\ Len(line) \in Nat
        /\ Len(v) = Len(b) + k
    BY <1>3, <1>4, <1>5
  <2> DEFINE lb == Len(b)
             lv == Len(v)
             lg == Len(line)
  <2>2. lb \in Nat /\ p \in 0..lb /\ lb - p = There /\ k \in 0..lg /\ lg \in Nat /\ lv = lb + k
    BY <2>1
  <2> HIDE DEF lb, lv, lg
  <2>3. There \in Nat /\ m \in Nat /\ lv = p + m /\ p \in Nat /\ lb = p + There /\ lv \in Nat /\ k \in Nat
    BY <2>2
  <2> QED BY <2>3 DEF lb, lv
<1>10. s \in Seq(Byte) /\ (\A i \in 1..There : s[i] = b[p + i]) /\ (\A i \in 1..Len(line) : s[There + i] = line[i])
  BY <1>3, <1>6 DEF LaidIs
<1>11. \A i \in 1..m : s[i] = v[p + i]
  <2> SUFFICES ASSUME NEW i \in 1..m PROVE s[i] = v[p + i]
    OBVIOUS
  <2>1. CASE i <= There
    <3>1. i \in 1..There /\ p + i \in 1..Len(b)
      BY <1>9, <2>1
    <3> QED BY <1>5, <1>10, <3>1
  <2>2. CASE ~(i <= There)
    <3> DEFINE j == i - There
    <3>1. j \in 1..k /\ j \in 1..Len(line) /\ There + j = i /\ Len(b) + j = p + i
      BY <1>3, <1>4, <1>9, <2>2
    <3> HIDE DEF j
    <3> QED BY <1>5, <1>10, <3>1
  <2> QED BY <2>1, <2>2
<1>12. w \in Seq(Byte) /\ Len(w) = m /\ \A i \in 1..m : w[i] = s[i]
  <2>1. p + 1 \in 1..(Len(v) + 1) /\ Len(v) \in p..Len(v) /\ (\A i \in (p + 1)..Len(v) : v[i] \in Byte)
    <3>1. Len(v) \in Nat /\ \A i \in 1..Len(v) : v[i] \in Byte
      BY <1>5, Bytes
    <3>2. p \in 0..Len(v)
      BY <1>9
    <3> QED BY <3>1, <3>2
  <2>2. w \in Seq(Byte)
    BY <1>8, <2>1, SubSeqProperties
  <2>3. Len(w) = m /\ \A i \in 1..m : w[i] = v[p + i]
    <3>1. Len(w) = Len(v) - (p + 1) + 1 /\ \A i \in 1..(Len(v) - (p + 1) + 1) : w[i] = v[p + 1 + i - 1]
      BY <1>5, <1>8, <2>1, SubSeqProperties
    <3>2. Len(v) - (p + 1) + 1 = m /\ \A i \in 1..m : p + 1 + i - 1 = p + i
      BY <1>9
    <3> QED BY <3>1, <3>2
  <2> QED BY <1>11, <2>2, <2>3
<1> HIDE DEF m
<1> DEFINE d == q - p
<1>13. d \in 0..m /\ q = p + d /\ (\A i \in 1..d : s[i].ch # "$") /\ (d < m => s[d + 1].ch = "$")
  <2>1. \/ x = 0 /\ \A i \in 1..m : s[i].ch # "$"
        \/ x \in 1..m /\ s[x].ch = "$" /\ \A i \in 1..(x - 1) : s[i].ch # "$"
    <3>1. \/ x = 0 /\ \A i \in 1..Len(w) : w[i].ch # "$"
          \/ x \in 1..Len(w) /\ w[x].ch = "$" /\ \A i \in 1..(x - 1) : w[i].ch # "$"
      BY <1>8, <1>12, DollarIs
    <3> QED BY <1>9, <1>12, <3>1
  <2>2. CASE x = 0
    <3>1. d = m
      <4>1. q = Len(v) /\ Len(v) = p + m
        BY <1>7, <1>9, <2>2
      <4> QED BY <1>9, <4>1
    <3>2. q = p + d /\ d \in 0..m /\ ~(d < m)
      BY <1>7, <1>9, <2>2, <3>1
    <3>3. \A i \in 1..m : s[i].ch # "$"
      BY <2>1, <2>2
    <3> HIDE DEF d
    <3> QED BY <3>1, <3>2, <3>3
  <2>3. CASE x # 0
    <3>1. x \in 1..m /\ s[x].ch = "$" /\ \A i \in 1..(x - 1) : s[i].ch # "$"
      BY <2>1, <2>3
    <3>2. q = p + x - 1 /\ x \in Nat
      BY <1>7, <1>9, <2>3, <3>1
    <3>3. d = x - 1 /\ d + 1 = x /\ d \in 0..m /\ q = p + d
      BY <1>9, <3>1, <3>2
    <3> QED BY <3>1, <3>3
  <2> QED BY <2>2, <2>3
<1> HIDE DEF d
<1>14. rx_buf' = v /\ istart' = q /\ from' = q
  BY <1>1
<1>15. Start' = q /\ There' = Len(v) - q /\ Stream' = Laid(v, q, line', rest)
  BY <1>2, <1>14 DEF Start, There, Stream
<1>16. q \in 0..Len(v) /\ Len(v) - q = m - d /\ m - d \in Nat
  BY <1>9, <1>13
<1>17. LaidIs(Stream', m - d, v, q, line', rest)
  <2>1. LaidIs(Laid(v, q, line', rest), Len(v) - q, v, q, line', rest)
    BY <1>3, <1>5, <1>16, LaidOut
  <2> QED BY <1>15, <1>16, <2>1
<1>18. LaidIs(s, There, b, p, line, rest)
  BY <1>6
<1>19. Stream' \in Seq(Byte)
  BY <1>17 DEF LaidIs
<1> DEFINE u == m - d
<1>20. ShiftOf(s, Stream', d)
  <2>1. \A i \in 1..(m - d) : v[q + i] = s[d + i]
    <3> SUFFICES ASSUME NEW i \in 1..(m - d) PROVE v[q + i] = s[d + i]
      OBVIOUS
    <3>1. d + i \in 1..m /\ p + (d + i) = q + i
      BY <1>9, <1>13, <1>16
    <3> QED BY <1>11, <3>1
  <2>2. \A i \in 1..Len(line') : line'[i] = s[d + ((m - d) + i)]
    <3> DEFINE g == Len(line)
               f == Len(line')
    <3>1. f = g - k /\ g \in Nat /\ k \in 0..g /\ There \in Nat /\ m = There + k /\ d \in 0..m
          /\ (\A i \in 1..(g - k) : line'[i] = line[k + i]) /\ \A i \in 1..g : s[There + i] = line[i]
      BY <1>3, <1>4, <1>5, <1>9, <1>10, <1>13 DEF m
    <3> HIDE DEF g
    <3> SUFFICES ASSUME NEW i \in 1..f PROVE line'[i] = s[d + ((m - d) + i)]
      OBVIOUS
    <3> HIDE DEF f
    <3>2. k + i \in 1..g /\ i \in 1..(g - k) /\ There + (k + i) = d + ((m - d) + i)
      BY <3>1
    <3> QED BY <3>1, <3>2
  <2>3. There + Len(line) = d + ((m - d) + Len(line'))
    <3> DEFINE g == Len(line)
               f == Len(line')
               r == There
    <3>1. f = g - k /\ g \in Nat /\ k \in 0..g /\ r \in Nat /\ m = r + k /\ d \in 0..m
      BY <1>3, <1>4, <1>5, <1>9, <1>13 DEF m
    <3> HIDE DEF f, g, r
    <3>2. r + g = d + ((m - d) + f)
      BY <3>1
    <3> QED BY <3>2 DEF f, g, r
  <2>4. d \in Nat /\ q \in Nat /\ p \in Nat /\ There \in Nat /\ m - d \in Nat /\ line' \in Seq(Byte)
    BY <1>5, <1>9, <1>13, <1>16
  <2>5. line \in Seq(Byte) /\ rest \in Seq(Byte) /\ s \in Seq(Byte)
    BY <1>3
  <2>6. /\ LaidIs(Stream', u, v, q, line', rest) /\ u \in Nat /\ There + Len(line) = d + (u + Len(line'))
        /\ (\A i \in 1..u : v[q + i] = s[d + i]) /\ \A i \in 1..Len(line') : line'[i] = s[d + (u + i)]
    BY <1>17, <2>1, <2>2, <2>3, <2>4
  <2>7. PICK t, f, z, r : t = Stream' /\ f = line' /\ z = rest /\ r = There
    OBVIOUS
  <2> HIDE DEF u
  <2>8. /\ s \in Seq(Byte) /\ t \in Seq(Byte) /\ r \in Nat /\ u \in Nat /\ d \in Nat /\ p \in Nat /\ q \in Nat
        /\ line \in Seq(Byte) /\ f \in Seq(Byte) /\ z \in Seq(Byte)
    BY <1>19, <2>4, <2>5, <2>6, <2>7
  <2>9. LaidIs(s, r, b, p, line, z) /\ LaidIs(t, u, v, q, f, z) /\ r + Len(line) = d + (u + Len(f))
    BY <1>18, <2>6, <2>7, Zenon
  <2>10. (\A i \in 1..u : v[q + i] = s[d + i]) /\ \A i \in 1..Len(f) : f[i] = s[d + (u + i)]
    BY <2>6, <2>7, Zenon
  <2>11. ShiftOf(s, t, d)
    <3>1. LaidAnew(s, t, r, u, d, b, p, line, z, v, q, f)
      BY <2>8, <2>9, <2>10 DEF LaidAnew
    <3> QED BY <3>1, Shifts, Zenon
  <2> QED BY <2>7, <2>11, Zenon
<1>21. Fine(Stream', m - d, items, Heard, clean, steadily)
  <2>1. Fine(s, There, items, Heard, clean, steadily)
    BY <1>3
  <2>2. There \in 0..Len(s) /\ m \in There..Len(s)
    <3>1. Len(s) = There + (Len(line) + Len(rest))
      BY <1>18 DEF LaidIs
    <3> QED BY <1>3, <1>4, <1>9, <3>1 DEF m
  <2>3. s \in Seq(Byte) /\ d \in 0..m /\ (\A i \in 1..d : s[i].ch # "$") /\ (d < m => s[d + 1].ch = "$")
    BY <1>3, <1>13
  <2>4. items \in Nat /\ Heard \in SUBSET (1..items) /\ clean \in SUBSET (1..items) /\ steadily \in BOOLEAN
    BY <1>3
  <2>5. d \in Nat /\ u \in Nat /\ There <= d + u /\ d + u <= Len(s) /\ (u > 0 => s[d + 1].ch = "$")
    BY <1>9, <1>13, <2>2
  <2>6. Fine(Stream', u, items, Heard, clean, steadily)
    <3> HIDE DEF u
    <3>1. PICK t, r, h : t = Stream' /\ r = There /\ h = Heard
      OBVIOUS
    <3>2. /\ s \in Seq(Byte) /\ t \in Seq(Byte) /\ r \in 0..Len(s) /\ d \in Nat /\ u \in Nat /\ r <= d + u
          /\ d + u <= Len(s) /\ items \in Nat /\ h \in SUBSET (1..items) /\ clean \in SUBSET (1..items)
          /\ steadily \in BOOLEAN
      BY <1>19, <2>2, <2>3, <2>4, <2>5, <3>1
    <3>3. ShiftOf(s, t, d) /\ Fine(s, r, items, h, clean, steadily)
      BY <1>20, <2>1, <3>1, Zenon
    <3>4. (\A i \in 1..d : s[i].ch # "$") /\ (u > 0 => s[d + 1].ch = "$")
      BY <2>3, <2>5
    <3>5. BeginsAt(s, t, r, d, u) /\ Tallies(items, h, clean, steadily)
      BY <3>2, <3>3, <3>4 DEF BeginsAt, Tallies
    <3>6. Fine(t, u, items, h, clean, steadily)
      BY <3>3, <3>5, Begun, Zenon
    <3> QED BY <3>1, <3>6, Zenon
  <2> QED BY <2>6
<1>22. Heard' = Heard /\ There' = m - d
  BY <1>2, <1>15, <1>16 DEF Heard
<1>23. FineNow'
  BY <1>2, <1>21, <1>22 DEF FineNow
<1>24. GrType'
  BY <1>2, <1>3, <1>4, <1>5, <1>14, <1>15, <1>16 DEF GrType
<1>25. Searched'
  <2>1. q \in Nat
    BY <1>16, <1>9
  <2> QED BY <1>2, <1>14, <2>1 DEF Searched
<1>26. Increasing'
  BY <1>2 DEF GrInv, Increasing
<1> QED BY <1>23, <1>24, <1>25, <1>26 DEF GrInv

\* A byte that arrives is where it was in the stream.
LEMMA ByteArrives ==
  ASSUME NEW g \in Seq(Byte), NEW o \in Seq(Byte), o # << >>
  PROVE  Append(g, Head(o)) \in Seq(Byte) /\ Tail(o) \in Seq(Byte) /\ Append(g, Head(o)) \o Tail(o) = g \o o
<1>1. Head(o) \in Byte /\ Tail(o) \in Seq(Byte)
  BY HeadTailProperties
<1>2. Append(g, Head(o)) \in Seq(Byte)
  BY <1>1, AppendProperties
<1> DEFINE h == << Head(o) >>
<1>3. h \in Seq(Byte) /\ Append(g, Head(o)) = g \o h
  BY <1>1, AppendIsConcat
<1>4. h \o Tail(o) = o
  <2>1. Len(o) \in Nat \ {0}
    BY EmptySeq
  <2>2. 1 \in 1..Len(o) /\ Len(o) \in 1..Len(o)
    BY <2>1
  <2>3. SubSeq(o, 1, Len(o)) = << o[1] >> \o SubSeq(o, 1 + 1, Len(o))
    BY <2>2, SubSeqRecursiveFirst
  <2>4. SubSeq(o, 1, Len(o)) = o
    BY SubSeqFull
  <2>5. Tail(o) = SubSeq(o, 2, Len(o)) /\ Head(o) = o[1] /\ 1 + 1 = 2
    BY TailIsSubSeq
  <2> QED BY <2>3, <2>4, <2>5
<1> HIDE DEF h
<1>5. Associates(g, h, Tail(o))
  BY <1>1, <1>3, JoinAssociates, Zenon
<1>6. (g \o h) \o Tail(o) = g \o (h \o Tail(o))
  BY <1>5, Zenon DEF Associates
<1> QED BY <1>1, <1>2, <1>3, <1>4, <1>6, Zenon

\* A step that leaves the stream where it is and takes the parser from loop to loop or
\* from parse to parse.
LEMMA SameStream ==
  ASSUME GrInv, GrType', Stream' = Stream, There' = There,
         items' = items, handled' = handled, clean' = clean, steadily' = steadily,
         pc' = "loop" => pc = "loop",
         pc' \in {"parse", "print"} => pc \in {"parse", "print"} /\ istart' = istart /\ from' = from
  PROVE  GrInv'
<1>1. FineNow'
  <2>1. Heard' = Heard
    BY DEF Heard
  <2> QED BY <2>1, Zenon DEF GrInv, FineNow
<1>2. Searched'
  <2>1. pc' = "loop" => \A i \in 1..There' : Stream'[i].ch # "CR"
    BY DEF GrInv, Searched
  <2>2. pc' \in {"parse", "print"} /\ from' = istart' + 1 /\ Len(Stream') > 0 => Stream'[1].ch # "CR"
    BY DEF GrInv, Searched
  <2> QED BY <2>1, <2>2 DEF Searched
<1>3. Increasing'
  BY DEF GrInv, Increasing
<1> QED BY <1>1, <1>2, <1>3 DEF GrInv

\* A byte arrives.
LEMMA Arrived == ASSUME GrInv, Arrive PROVE GrInv'
<1>1. /\ rest # << >> /\ line' = Append(line, Head(rest)) /\ rest' = Tail(rest)
      /\ UNCHANGED <<pc, rx_buf, read_pos, istart, from, items, handled, clean, steadily>>
  BY DEF Arrive, parser, history
<1>2. line \in Seq(Byte) /\ rest \in Seq(Byte)
  BY DEF GrInv, GrType
<1>3. line' \in Seq(Byte) /\ rest' \in Seq(Byte) /\ line' \o rest' = line \o rest
  <2>1. Append(line, Head(rest)) \in Seq(Byte) /\ Tail(rest) \in Seq(Byte)
        /\ Append(line, Head(rest)) \o Tail(rest) = line \o rest
    BY <1>1, <1>2, ByteArrives
  <2> QED BY <1>1, <2>1
<1>4. Start' = Start
  BY <1>1 DEF Start
<1>5. There' = There
  BY <1>1, <1>4 DEF There
<1>6. Stream' = Stream
  BY <1>1, <1>3, <1>4, Zenon DEF Stream, Laid
<1>7. GrType'
  BY <1>1, <1>3, <1>4 DEF GrInv, GrType
<1> QED BY <1>1, <1>5, <1>6, <1>7, SameStream

\* The timer, the printing and the end of the program move no byte.
LEMMA NothingMoved ==
  ASSUME GrInv, Tick \/ Printed \/ RestartFails \/ UNCHANGED vars
  PROVE  GrInv'
<1>1. /\ UNCHANGED <<rx_buf, read_pos, istart, from, line, rest, items, handled, clean, steadily>>
      /\ pc' = pc \/ (pc = "print" /\ pc' = "parse") \/ (pc = "loop" /\ pc' = "exit")
  BY DEF Tick, Printed, RestartFails, vars, parser, sender, history
<1>2. Start' = Start
  BY <1>1 DEF Start
<1>3. There' = There
  BY <1>1, <1>2 DEF There
<1>4. Stream' = Stream
  BY <1>1, <1>2, Zenon DEF Stream
<1>5. pc \in {"loop", "parse", "print", "exit"}
  BY DEF GrInv, GrType
<1>6. pc' = "loop" => pc = "loop"
  BY <1>1
<1>7. pc' \in {"parse", "print"} => pc \in {"parse", "print"}
  BY <1>1
<1>8. GrType'
  BY <1>1, <1>2, <1>7 DEF GrInv, GrType
<1> QED BY <1>1, <1>3, <1>4, <1>6, <1>7, <1>8, SameStream

\* A failed read may have moved the bytes.
LEMMA ReadFailed == ASSUME GrInv, ReadError PROVE GrInv'
<1>1. PICK e \in Compacted : rx_buf' = e.buf /\ read_pos' = e.pos
  BY DEF ReadError
<1>2. /\ pc = "loop" /\ UNCHANGED <<pc, istart, from, line, rest, items, handled, clean, steadily>>
  BY DEF ReadError, sender, history
<1> DEFINE t == Laid(e.buf, e.pos, line, rest)
<1>3. /\ e.buf \in Seq(Byte) /\ Len(e.buf) <= Cap /\ e.pos \in 0..Len(e.buf) /\ Len(e.buf) - e.pos = There
      /\ t \in Seq(Byte) /\ Fine(t, There, items, Heard, clean, steadily)
      /\ \A i \in 1..There : t[i].ch # "CR"
  BY <1>2, Compact
<1>4. Start' = e.pos /\ There' = There
  BY <1>1, <1>2, <1>3 DEF Start, There
<1>5. Stream' = t
  BY <1>1, <1>2, <1>4 DEF Stream
<1> HIDE DEF t
<1>6. FineNow'
  <2>1. Heard' = Heard
    BY <1>2 DEF Heard
  <2> QED BY <1>2, <1>3, <1>4, <1>5, <2>1, Zenon DEF FineNow
<1>7. Searched'
  BY <1>2, <1>3, <1>4, <1>5 DEF Searched
<1>8. GrType'
  BY <1>1, <1>2, <1>3, <1>4 DEF GrInv, GrType
<1>9. Increasing'
  BY <1>2 DEF GrInv, Increasing
<1> QED BY <1>6, <1>7, <1>8, <1>9 DEF GrInv

\* parse_buf has found no more carriage returns.
LEMMA NothingLeftToParse == ASSUME GrInv, ParsedAll PROVE GrInv'
<1>1. /\ pc = "parse" /\ pc' = "loop" /\ Ends = {} /\ read_pos' = istart
      /\ UNCHANGED <<rx_buf, line, rest, items, handled, clean, steadily>>
  BY DEF ParsedAll, sender, history
<1>2. Start' = Start /\ Start = istart
  BY <1>1 DEF Start
<1>3. There' = There
  BY <1>1, <1>2 DEF There
<1>4. Stream' = Stream
  BY <1>1, <1>2, Zenon DEF Stream
<1>5. \A i \in 1..There : Stream[i].ch # "CR"
  <2> SUFFICES ASSUME NEW i \in 1..There PROVE Stream[i].ch # "CR"
    OBVIOUS
  <2>1. /\ Stream[i] = rx_buf[Start + i] /\ Len(rx_buf) \in Nat /\ Start \in 0..Len(rx_buf)
        /\ There \in 0..Len(Stream) /\ Len(Stream) \in Nat /\ There = Len(rx_buf) - Start
    BY StreamIs DEF GrInv, GrType, There
  <2>2. Start + i \in 1..Len(rx_buf) /\ Start + i > istart
    BY <1>2, <2>1
  <2>3. CASE Start + i > from
    <3>1. from \in {istart, istart + 1}
      BY <1>1 DEF GrInv, GrType
    <3>2. Start + i \in (from + 1)..Len(rx_buf)
      BY <1>2, <2>1, <2>2, <2>3, <3>1
    <3> QED BY <1>1, <2>1, <3>2 DEF Ends
  <2>4. CASE ~(Start + i > from)
    <3>1. from = istart + 1 /\ i = 1
      BY <1>1, <1>2, <2>1, <2>4 DEF GrInv, GrType
    <3>2. Len(Stream) > 0
      BY <2>1
    <3> QED BY <1>1, <3>1, <3>2 DEF GrInv, Searched
  <2> QED BY <2>3, <2>4
<1>6. FineNow'
  <2>1. Heard' = Heard
    BY <1>1 DEF Heard
  <2> QED BY <1>1, <1>3, <1>4, <2>1, Zenon DEF GrInv, FineNow
<1>7. Searched'
  BY <1>1, <1>3, <1>4, <1>5 DEF Searched
<1>8. GrType'
  BY <1>1, <1>2 DEF GrInv, GrType
<1>9. Increasing'
  BY <1>1 DEF GrInv, Increasing
<1> QED BY <1>6, <1>7, <1>8, <1>9 DEF GrInv

\* Where the end of the next packet is found.
LEMMA EndFound ==
  ASSUME GrInv, pc = "parse", Ends # {}
  PROVE  /\ NextEnd \in 1..Len(rx_buf) /\ NextEnd - Start \in 1..There /\ Start + (NextEnd - Start) = NextEnd
         /\ rx_buf[NextEnd].ch = "CR" /\ Stream[NextEnd - Start].ch = "CR"
         /\ \A i \in 1..(NextEnd - Start - 1) : Stream[i].ch # "CR"
<1>1. /\ Start = istart /\ There = Len(rx_buf) - Start /\ Start \in 0..Len(rx_buf) /\ Len(rx_buf) \in Nat
      /\ There \in 0..Len(Stream) /\ Len(Stream) \in Nat /\ There \in 0..Len(rx_buf)
      /\ \A i \in 1..There : Stream[i] = rx_buf[Start + i]
      /\ from \in {istart, istart + 1}
  BY StreamIs DEF GrInv, GrType, Start, There
<1>2. Ends \subseteq Nat
  BY <1>1 DEF Ends
<1>3. \E m \in Ends : \A j \in Ends : m <= j
  BY <1>2, LeastOfNats
<1>4. NextEnd \in Ends /\ \A j \in Ends : NextEnd <= j
  BY <1>3 DEF NextEnd
<1> DEFINE e == NextEnd
           x == e - Start
<1>5. e \in (from + 1)..Len(rx_buf) /\ rx_buf[e].ch = "CR"
  BY <1>4 DEF Ends
<1>6. \A j \in (from + 1)..Len(rx_buf) : rx_buf[j].ch = "CR" => e <= j
  BY <1>4 DEF Ends
<1> HIDE DEF e
<1>7. e \in 1..Len(rx_buf) /\ x \in 1..There /\ Start + x = e
  BY <1>1, <1>5
<1>8. Stream[x].ch = "CR"
  BY <1>1, <1>5, <1>7
<1>9. \A i \in 1..(x - 1) : Stream[i].ch # "CR"
  <2> SUFFICES ASSUME NEW i \in 1..(x - 1), Stream[i].ch = "CR" PROVE FALSE
    OBVIOUS
  <2>1. i \in 1..There /\ Start + i \in 1..Len(rx_buf) /\ Start + i < e
    BY <1>1, <1>7
  <2>2. rx_buf[Start + i].ch = "CR"
    BY <1>1, <2>1
  <2>3. Start + i \notin (from + 1)..Len(rx_buf)
    <3>1. ~(e <= Start + i)
      BY <1>1, <1>5, <2>1
    <3> QED BY <1>6, <2>2, <3>1
  <2>4. from = istart + 1 /\ i = 1
    BY <1>1, <2>1, <2>3
  <2>5. Len(Stream) > 0
    BY <1>1, <2>1
  <2>6. Searched
    BY DEF GrInv
  <2> QED BY <2>4, <2>5, <2>6 DEF Searched
<1> QED BY <1>5, <1>7, <1>8, <1>9 DEF e

\* What parse_packet makes of the bytes before it.
LEMMA PacketIs ==
  ASSUME GrInv, pc = "parse", Ends # {},
         NEW y, y = SubSeq(rx_buf, istart + 1, NextEnd - 1), NEW x, x = NextEnd - Start
  PROVE  /\ IsSentence(y) <=> x = 3 /\ Stream[1].ch = "$" /\ Stream[2].ch \in Kinds
         /\ IsSentence(y) => y[2].id = Stream[2].id /\ 2 \in 1..Len(Stream)
<1>1. /\ NextEnd \in 1..Len(rx_buf) /\ x \in 1..There /\ Start + x = NextEnd
  BY EndFound
<1>2. /\ Start = istart /\ There = Len(rx_buf) - Start /\ Start \in 0..Len(rx_buf) /\ Len(rx_buf) \in Nat
      /\ There \in 0..Len(rx_buf) /\ rx_buf \in Seq(Byte) /\ There \in 0..Len(Stream) /\ Len(Stream) \in Nat
      /\ \A i \in 1..There : Stream[i] = rx_buf[Start + i]
  BY StreamIs DEF GrInv, GrType, Start, There
<1>3. Len(y) = x - 1 /\ \A i \in 1..(x - 1) : y[i] = Stream[i]
  <2>1. istart + 1 \in 1..(Len(rx_buf) + 1) /\ NextEnd - 1 \in istart..Len(rx_buf)
    BY <1>1, <1>2
  <2>2. \A i \in (istart + 1)..(NextEnd - 1) : rx_buf[i] \in Byte
    <3>1. \A i \in 1..Len(rx_buf) : rx_buf[i] \in Byte
      BY <1>2, Bytes
    <3> QED BY <1>1, <1>2, <3>1
  <2>3. Len(y) = NextEnd - 1 - (istart + 1) + 1
    BY <1>2, <2>1, <2>2, SubSeqProperties
  <2>4. \A i \in 1..(NextEnd - 1 - (istart + 1) + 1) : y[i] = rx_buf[istart + 1 + i - 1]
    BY <1>2, <2>1, <2>2, SubSeqProperties
  <2>5. NextEnd - 1 - (istart + 1) + 1 = x - 1
    BY <1>1, <1>2
  <2>6. \A i \in 1..(x - 1) : istart + 1 + i - 1 = Start + i /\ i \in 1..There
    BY <1>1, <1>2
  <2>7. Len(y) = x - 1 /\ \A i \in 1..(x - 1) : y[i] = rx_buf[istart + 1 + i - 1]
    BY <2>3, <2>4, <2>5, Zenon
  <2>8. \A i \in 1..(x - 1) : y[i] = Stream[i]
    <3> SUFFICES ASSUME NEW i \in 1..(x - 1) PROVE y[i] = Stream[i]
      OBVIOUS
    <3>1. y[i] = rx_buf[istart + 1 + i - 1] /\ istart + 1 + i - 1 = Start + i /\ i \in 1..There
      BY <2>6, <2>7, Zenon
    <3>2. Stream[i] = rx_buf[Start + i]
      BY <1>2, <3>1
    <3> QED BY <3>1, <3>2, Zenon
  <2> QED BY <2>7, <2>8
<1>4. Len(y) = 2 <=> x = 3
  <2> DEFINE l == Len(y)
  <2>1. l = x - 1
    BY <1>3, Zenon
  <2> HIDE DEF l
  <2>3. \A m \in Nat : x \in 1..m => x \in Nat
    OBVIOUS
  <2>4. x \in Nat
    BY <1>1, <1>2, <2>3
  <2>2. l = 2 <=> x = 3
    BY <2>1, <2>4
  <2> QED BY <2>2 DEF l
<1>5. x = 3 => y[1] = Stream[1] /\ y[2] = Stream[2] /\ 2 \in 1..Len(Stream)
  <2> DEFINE l == Len(Stream)
             m == There
  <2>2. x \in 1..m /\ m \in 0..l /\ l \in Nat
    BY <1>1, <1>2, Zenon
  <2> HIDE DEF l, m
  <2>3. x = 3 => 1 \in 1..(x - 1) /\ 2 \in 1..(x - 1) /\ 2 \in 1..l
    BY <2>2
  <2>1. x = 3 => 1 \in 1..(x - 1) /\ 2 \in 1..(x - 1) /\ 2 \in 1..Len(Stream)
    BY <2>3, Zenon DEF l
  <2> QED BY <1>3, <2>1
<1> QED BY <1>4, <1>5 DEF IsSentence, Kinds

\* The carriage return is overwritten, and the search goes on behind the end of the line.
LEMMA EndPassed ==
  ASSUME GrInv, Packet, NEW x, x = NextEnd - Start
  PROVE  \E d \in 0..There :
           /\ d = IF x < There THEN x + 1 ELSE x
           /\ There' = There - d /\ ShiftOf(Stream, Stream', d)
           /\ Start' = Start + d /\ Start' \in 0..Len(rx_buf') /\ from' = istart' + 1
           /\ rx_buf' \in Seq(Byte) /\ Len(rx_buf') = Len(rx_buf)
<1>0. pc = "parse" /\ Ends # {} /\ pc' \in {"parse", "print"} /\ line' = line /\ rest' = rest
  BY DEF Packet, sender
<1>1. /\ NextEnd \in 1..Len(rx_buf) /\ x \in 1..There /\ Start + x = NextEnd
      /\ Stream[x].ch = "CR"
  BY <1>0, EndFound
<1>2. /\ Start = istart /\ There = Len(rx_buf) - Start /\ Start \in 0..Len(rx_buf) /\ Len(rx_buf) \in Nat
      /\ There \in 0..Len(rx_buf) /\ rx_buf \in Seq(Byte) /\ There \in 0..Len(Stream) /\ Len(Stream) \in Nat
      /\ \A i \in 1..There : Stream[i] = rx_buf[Start + i]
      /\ line \in Seq(Byte) /\ rest \in Seq(Byte) /\ Len(line) \in Nat
  BY <1>0, StreamIs DEF GrInv, GrType, Start, There
<1>3. rx_buf' = [rx_buf EXCEPT ![NextEnd].ch = "NUL"] /\ Skip(NextEnd)
  BY DEF Packet
<1>4. /\ rx_buf' \in Seq(Byte) /\ Len(rx_buf') = Len(rx_buf)
      /\ \A i \in 1..Len(rx_buf) : i # NextEnd => rx_buf'[i] = rx_buf[i]
  <2>1. rx_buf \in [1..Len(rx_buf) -> Byte]
    BY <1>2, LenProperties
  <2>2. rx_buf' \in [1..Len(rx_buf) -> Byte]
    <3>1. [rx_buf[NextEnd] EXCEPT !.ch = "NUL"] \in Byte
      <4>1. rx_buf[NextEnd] \in Byte
        BY <1>1, <2>1
      <4> QED BY <4>1 DEF Byte
    <3>2. rx_buf' = [rx_buf EXCEPT ![NextEnd] = [rx_buf[NextEnd] EXCEPT !.ch = "NUL"]]
      BY <1>3
    <3> QED BY <2>1, <3>1, <3>2
  <2>3. rx_buf' \in Seq(Byte)
    <3> DEFINE n == Len(rx_buf)
    <3>1. n \in Nat /\ rx_buf' \in [1..n -> Byte]
      BY <1>2, <2>2
    <3> HIDE DEF n
    <3>2. \E j \in Nat : rx_buf' \in [1..j -> Byte]
      BY <3>1
    <3> QED BY <3>2, SeqDef
  <2>4. Len(rx_buf') = Len(rx_buf)
    BY <1>2, <2>2, <2>3, LenProperties
  <2>5. \A i \in 1..Len(rx_buf) : i # NextEnd => rx_buf'[i] = rx_buf[i]
    BY <1>1, <1>3, <2>1
  <2> QED BY <2>3, <2>4, <2>5
<1> DEFINE d == IF x < There THEN x + 1 ELSE x
<1>5. (NextEnd < Len(rx_buf) /\ rx_buf[NextEnd + 1].ch = "LF") <=> x < There
  <2>1. NextEnd < Len(rx_buf) <=> x < There
    BY <1>1, <1>2
  <2>2. ASSUME x < There PROVE rx_buf[NextEnd + 1].ch = "LF"
    <3>1. Closed(Stream)
      BY DEF GrInv, FineNow, Fine
    <3>2. x \in 1..Len(Stream)
      BY <1>1, <1>2
    <3>3. Stream[x + 1].ch = "LF"
      BY <1>1, <3>1, <3>2 DEF Closed
    <3>4. x + 1 \in 1..There /\ Start + (x + 1) = NextEnd + 1
      BY <1>1, <1>2, <2>2
    <3> QED BY <1>2, <3>3, <3>4
  <2> QED BY <2>1, <2>2
<1>6. istart' = Start + d /\ from' = istart' + 1
  <2>1. /\ istart' = IF x < There THEN NextEnd + 1 ELSE NextEnd
        /\ from' = IF x < There THEN NextEnd + 2 ELSE NextEnd + 1
    BY <1>3, <1>5 DEF Skip
  <2> QED BY <1>1, <1>2, <2>1
<1>7. d \in 0..There /\ Start + d \in 0..Len(rx_buf)
  <2>1. d \in 0..There
    BY <1>1, <1>2
  <2> HIDE DEF d
  <2> QED BY <1>1, <1>2, <2>1
<1>8. Start' = istart'
  BY <1>0 DEF Start
<1> HIDE DEF d
<1>9. There' = There - d /\ ShiftOf(Stream, Stream', d)
  <2>1. There' = There - d
    BY <1>2, <1>4, <1>6, <1>7, <1>8 DEF There
  <2>2. LaidIs(Laid(rx_buf, Start, line, rest), Len(rx_buf) - Start, rx_buf, Start, line, rest)
    BY <1>2, LaidOut
  <2>3. LaidIs(Stream, There, rx_buf, Start, line, rest)
    BY <2>2, Zenon DEF Stream, There
  <2>4. PICK b, q, t, u : b = rx_buf' /\ q = Start' /\ t = Stream' /\ u = There'
    OBVIOUS
  <2>5. b \in Seq(Byte) /\ q \in 0..Len(b) /\ t = Laid(b, q, line, rest) /\ u = Len(b) - q
        /\ Len(b) = Len(rx_buf) /\ q = Start + d
    BY <1>0, <1>4, <1>6, <1>7, <1>8, <2>4 DEF Stream, There
  <2>6. LaidIs(t, u, b, q, line, rest)
    <3>1. LaidIs(Laid(b, q, line, rest), Len(b) - q, b, q, line, rest)
      BY <1>2, <2>5, LaidOut
    <3> QED BY <2>5, <3>1, Zenon
  <2>7. u \in Nat /\ u = There - d
    BY <1>2, <1>7, <2>1, <2>4
  <2>8. \A i \in 1..u : b[q + i] = Stream[d + i]
    <3> SUFFICES ASSUME NEW i \in 1..u PROVE b[q + i] = Stream[d + i]
      OBVIOUS
    <3>1. x \in 1..d
      BY <1>1, <1>2 DEF d
    <3>2. q + i \in 1..Len(rx_buf) /\ q + i # NextEnd /\ d + i \in 1..There /\ Start + (d + i) = q + i
      BY <1>1, <1>2, <1>7, <2>5, <2>7, <3>1
    <3>3. b[q + i] = rx_buf[q + i]
      BY <1>4, <2>4, <3>2
    <3> QED BY <1>2, <3>2, <3>3
  <2>9. \A i \in 1..Len(line) : line[i] = Stream[d + (u + i)]
    <3>1. \A i \in 1..Len(line) : Stream[There + i] = line[i]
      BY <2>3 DEF LaidIs
    <3>2. There = d + u
      BY <1>2, <1>7, <2>7
    <3>3. \A i \in 1..Len(line) : d + (u + i) = There + i
      BY <1>7, <2>7, <3>2
    <3> QED BY <3>1, <3>3
  <2>10. PICK s, r, p : s = Stream /\ r = There /\ p = Start
    OBVIOUS
  <2>11. /\ s \in Seq(Byte) /\ t \in Seq(Byte) /\ r \in Nat /\ u \in Nat /\ d \in Nat /\ p \in Nat /\ q \in Nat
         /\ line \in Seq(Byte) /\ rest \in Seq(Byte)
    <3>1. s \in Seq(Byte) /\ t \in Seq(Byte)
      BY <2>3, <2>6, <2>10 DEF LaidIs
    <3> QED BY <1>2, <1>7, <2>5, <2>7, <2>10, <3>1
  <2>12. LaidIs(s, r, rx_buf, p, line, rest) /\ r + Len(line) = d + (u + Len(line))
    <3>1. LaidIs(s, r, rx_buf, p, line, rest)
      BY <2>3, <2>10, Zenon
    <3>2. r + Len(line) = d + (u + Len(line))
      BY <1>2, <1>7, <2>7, <2>10
    <3> QED BY <3>1, <3>2
  <2>13. (\A i \in 1..u : b[q + i] = s[d + i]) /\ \A i \in 1..Len(line) : line[i] = s[d + (u + i)]
    BY <2>8, <2>9, <2>10, Zenon
  <2>14. LaidAnew(s, t, r, u, d, rx_buf, p, line, rest, b, q, line)
    BY <2>6, <2>11, <2>12, <2>13 DEF LaidAnew
  <2>15. ShiftOf(s, t, d)
    BY <2>14, Shifts, Zenon
  <2> QED BY <2>1, <2>4, <2>10, <2>15, Zenon
<1> QED BY <1>4, <1>6, <1>7, <1>8, <1>9 DEF d

\* The numbers that were heard.
Those(h) == {h[i] : i \in 1..Len(h)}

\* Of k items those in h were heard; n is younger than all of them.
Newest(k, h, n, g) ==
  /\ k \in Nat /\ h \in Seq(1..k) /\ n \in 1..k /\ g = Append(h, n)
  /\ \A i, j \in 1..Len(h) : i < j => h[i] < h[j]
  /\ \A i \in 1..Len(h) : h[i] < n

\* A sentence younger than all that were heard is heard.
LEMMA HeardNext ==
  ASSUME NEW k, NEW h, NEW n, NEW g, Newest(k, h, n, g)
  PROVE  /\ g \in Seq(1..k) /\ \A i, j \in 1..Len(g) : i < j => g[i] < g[j]
         /\ Those(g) = Those(h) \cup {n}
<1> USE DEF Newest, Those
<1> DEFINE l == Len(h)
<1>1. l \in Nat /\ \A i \in 1..l : h[i] \in 1..k
  BY ElementOfSeq, LenProperties
<1>2. g \in Seq(1..k) /\ Len(g) = l + 1 /\ (\A i \in 1..l : g[i] = h[i]) /\ g[l + 1] = n
  BY AppendProperties
<1>3. (\A i, j \in 1..l : i < j => h[i] < h[j]) /\ \A i \in 1..l : h[i] < n
  OBVIOUS
<1>4. {h[i] : i \in 1..Len(h)} = {h[i] : i \in 1..l}
  OBVIOUS
<1> HIDE DEF l
<1>5. \A i \in 1..(l + 1) : i \in 1..l \/ i = l + 1
  BY <1>1
<1>6. \A i, j \in 1..Len(g) : i < j => g[i] < g[j]
  <2> SUFFICES ASSUME NEW i \in 1..(l + 1), NEW j \in 1..(l + 1), i < j PROVE g[i] < g[j]
    BY <1>2
  <2>1. i \in 1..l
    BY <1>1
  <2>2. CASE j \in 1..l
    BY <1>2, <1>3, <2>1, <2>2
  <2>3. CASE j = l + 1
    BY <1>2, <1>3, <2>1, <2>3
  <2> QED BY <1>5, <2>2, <2>3
<1>7. {g[i] : i \in 1..(l + 1)} = {h[i] : i \in 1..l} \cup {n}
  <2>1. ASSUME NEW i \in 1..(l + 1) PROVE g[i] \in {h[j] : j \in 1..l} \cup {n}
    BY <1>2, <1>5
  <2>2. ASSUME NEW i \in 1..l PROVE h[i] \in {g[j] : j \in 1..(l + 1)}
    <3>1. i \in 1..(l + 1) /\ h[i] = g[i]
      BY <1>1, <1>2
    <3> QED BY <3>1
  <2>3. n \in {g[j] : j \in 1..(l + 1)}
    <3>1. l + 1 \in 1..(l + 1) /\ n = g[l + 1]
      BY <1>1, <1>2
    <3> QED BY <3>1
  <2> QED BY <2>1, <2>2, <2>3
<1> QED BY <1>2, <1>4, <1>6, <1>7

\* parse_buf hands a packet to parse_packet.
LEMMA PacketTaken == ASSUME GrInv, Packet PROVE GrInv'
<1> DEFINE z == SubSeq(rx_buf, istart + 1, NextEnd - 1)
           n == Stream[2].id
<1>1. PICK x, y : x = NextEnd - Start /\ y = z
  OBVIOUS
<1>2. /\ pc = "parse" /\ Ends # {} /\ pc' \in {"parse", "print"}
      /\ UNCHANGED <<line, rest, items, clean, steadily>>
  BY DEF Packet, sender
<1>3. handled' = IF IsSentence(y) THEN Append(handled, y[2].id) ELSE handled
  BY <1>1 DEF Packet
<1>4. x \in 1..There /\ Stream[x].ch = "CR" /\ \A i \in 1..(x - 1) : Stream[i].ch # "CR"
  BY <1>1, <1>2, EndFound
<1>5. /\ IsSentence(y) <=> x = 3 /\ Stream[1].ch = "$" /\ Stream[2].ch \in Kinds
      /\ IsSentence(y) => y[2].id = n /\ 2 \in 1..Len(Stream)
  BY <1>1, <1>2, PacketIs
<1>6. PICK d \in 0..There :
        /\ d = IF x < There THEN x + 1 ELSE x
        /\ There' = There - d /\ ShiftOf(Stream, Stream', d)
        /\ Start' = Start + d /\ Start' \in 0..Len(rx_buf') /\ from' = istart' + 1
        /\ rx_buf' \in Seq(Byte) /\ Len(rx_buf') = Len(rx_buf)
  BY <1>1, EndPassed
<1> HIDE DEF z
<1>7. /\ Stream \in Seq(Byte) /\ There \in 0..Len(Stream) /\ Len(Stream) \in Nat /\ There \in Nat
      /\ \A i \in 1..Len(Stream) : Stream[i].id \in Nat
  BY StreamIs, Bytes DEF GrInv
<1>8. /\ line \in Seq(Byte) /\ rest \in Seq(Byte) /\ Len(rx_buf) <= Cap /\ Len(handled) \in Nat
      /\ items \in Nat /\ handled \in Seq(1..items) /\ clean \in SUBSET (1..items) /\ steadily \in BOOLEAN
      /\ Heard \in SUBSET (1..items)
  BY StreamIs, LenProperties DEF GrInv, GrType
<1>9. Fine(Stream, There, items, Heard, clean, steadily)
  BY DEF GrInv, FineNow
<1>10. Stream' \in Seq(Byte)
  <2>1. line' \in Seq(Byte) /\ rest' \in Seq(Byte)
    BY <1>2, <1>8
  <2>2. PICK b, q, v, w : b = rx_buf' /\ q = Start' /\ v = line' /\ w = rest'
    OBVIOUS
  <2>3. LaidIs(Laid(b, q, v, w), Len(b) - q, b, q, v, w)
    BY <1>6, <2>1, <2>2, LaidOut
  <2>4. Stream' = Laid(b, q, v, w)
    BY <2>2, Zenon DEF Stream
  <2> QED BY <2>3, <2>4 DEF LaidIs
<1>11. ASSUME IsSentence(y)
       PROVE  /\ handled' \in Seq(1..items) /\ \A i, j \in 1..Len(handled') : i < j => handled'[i] < handled'[j]
              /\ Heard' = Heard \cup {n}
  <2>1. n \in 1..items
    <3>1. n \in Nat /\ n <= items /\ n # 0
      BY <1>5, <1>7, <1>9, <1>11 DEF Fine, Ordered
    <3> QED BY <1>8, <3>1
  <2>2. \A i \in 1..Len(handled) : handled[i] < n
    <3>1. \A i \in 1..Len(handled) : handled[i] \in Heard
      BY DEF Heard
    <3> QED BY <1>5, <1>9, <1>11, <3>1 DEF Fine, Passed
  <2>3. handled' = Append(handled, n)
    BY <1>3, <1>5, <1>11
  <2>4. \A i, j \in 1..Len(handled) : i < j => handled[i] < handled[j]
    BY DEF GrInv, Increasing
  <2>5. PICK g, m : g = handled' /\ m = n
    OBVIOUS
  <2>6. /\ g \in Seq(1..items) /\ \A i, j \in 1..Len(g) : i < j => g[i] < g[j]
        /\ Those(g) = Those(handled) \cup {m}
    <3> HIDE DEF n
    <3>1. m \in 1..items /\ g = Append(handled, m) /\ \A i \in 1..Len(handled) : handled[i] < m
      BY <2>1, <2>2, <2>3, <2>5
    <3>2. Newest(items, handled, m, g)
      BY <1>8, <2>4, <3>1 DEF Newest
    <3>3. g \in Seq(1..items)
      BY <3>2, HeardNext, Zenon
    <3>4. Those(g) = Those(handled) \cup {m}
      BY <3>2, HeardNext, SMT
    <3>5. \A i, j \in 1..Len(g) : i < j => g[i] < g[j]
      BY <3>2, HeardNext, Zenon
    <3> QED BY <3>3, <3>4, <3>5, Zenon
  <2> QED BY <2>5, <2>6, Zenon DEF Heard, Those
<1>12. ASSUME ~IsSentence(y)
       PROVE  /\ handled' \in Seq(1..items) /\ \A i, j \in 1..Len(handled') : i < j => handled'[i] < handled'[j]
              /\ Heard' = Heard
  BY <1>3, <1>8, <1>12, Zenon DEF GrInv, Increasing, Heard
<1>13. Heard' = (IF x = 3 /\ Stream[1].ch = "$" /\ Stream[2].ch \in Kinds THEN Heard \cup {n} ELSE Heard)
  BY <1>5, <1>11, <1>12, Zenon
<1>14. Heard' \subseteq Nat
  <2>1. Heard \subseteq Nat
    BY <1>8
  <2>2. IsSentence(y) => n \in Nat
    BY <1>5, <1>7
  <2> QED BY <1>11, <1>12, <2>1, <2>2
<1>15. /\ Fine(Stream', There - d, items, Heard', clean, steadily)
       /\ Len(Stream') > 0 => Stream'[1].ch # "CR"
  <2>1. PICK s, t, r, h, g : s = Stream /\ t = Stream' /\ r = There /\ h = Heard /\ g = Heard'
    OBVIOUS
  <2>2. /\ s \in Seq(Byte) /\ t \in Seq(Byte) /\ r \in 0..Len(s) /\ x \in 1..r /\ d \in Nat
        /\ d = (IF x < r THEN x + 1 ELSE x)
    BY <1>4, <1>6, <1>7, <1>10, <2>1
  <2>3. ShiftOf(s, t, d) /\ s[x].ch = "CR" /\ \A i \in 1..(x - 1) : s[i].ch # "CR"
    BY <1>4, <1>6, <2>1, Zenon
  <2>4. CutsAt(s, t, r, x, d)
    BY <2>2, <2>3, Zenon DEF CutsAt
  <2>5. Tallies(items, h, clean, steadily)
    BY <1>8, <2>1 DEF Tallies
  <2>6. Fine(s, r, items, h, clean, steadily) /\ g \subseteq Nat
    BY <1>9, <1>14, <2>1, Zenon
  <2>7. g = (IF x = 3 /\ s[1].ch = "$" /\ s[2].ch \in Kinds THEN h \cup {s[2].id} ELSE h)
    BY <1>13, <2>1, Zenon DEF n
  <2>8. Fine(t, r - d, items, g, clean, steadily) /\ (Len(t) > 0 => t[1].ch # "CR")
    BY <2>4, <2>5, <2>6, <2>7, Cutout, Zenon
  <2> QED BY <2>1, <2>8, Zenon
<1>16. FineNow'
  BY <1>2, <1>6, <1>15, Zenon DEF FineNow
<1>17. GrType'
  BY <1>2, <1>6, <1>8, <1>11, <1>12 DEF GrType
<1>18. Searched'
  BY <1>2, <1>15 DEF Searched
<1>19. Increasing'
  BY <1>11, <1>12, Zenon DEF Increasing
<1> QED BY <1>16, <1>17, <1>18, <1>19 DEF GrInv

\* The bytes of a sequence.
LEMMA BytesAre == ASSUME NEW a \in Seq(Byte) PROVE ToSet(a) = {a[i] : i \in 1..Len(a)}
BY LenProperties DEF ToSet, Range

\* The bytes of two sequences, one behind the other.
LEMMA BytesOfBoth ==
  ASSUME NEW a \in Seq(Byte), NEW b \in Seq(Byte)
  PROVE  a \o b \in Seq(Byte) /\ ToSet(a \o b) = ToSet(a) \cup ToSet(b)
<1> DEFINE w == a \o b
           g == Len(a)
           o == Len(b)
<1>1. /\ w \in Seq(Byte) /\ Len(w) = g + o /\ g \in Nat /\ o \in Nat
      /\ \A i \in 1..(g + o) : w[i] = IF i <= g THEN a[i] ELSE b[i - g]
  BY ConcatProperties, Bytes
<1>2. ToSet(w) = {w[i] : i \in 1..(g + o)} /\ ToSet(a) = {a[i] : i \in 1..g} /\ ToSet(b) = {b[i] : i \in 1..o}
  <2>1. ToSet(w) = {w[i] : i \in 1..Len(w)}
    <3> HIDE DEF w
    <3> QED BY <1>1, BytesAre
  <2> QED BY <1>1, <2>1, BytesAre
<1> HIDE DEF w, g, o
<1>3. ASSUME NEW i \in 1..g PROVE a[i] \in ToSet(w)
  BY <1>1, <1>2
<1>4. ASSUME NEW i \in 1..o PROVE b[i] \in ToSet(w)
  <2>1. g + i \in 1..(g + o) /\ ~(g + i <= g) /\ (g + i) - g = i
    BY <1>1
  <2> QED BY <1>1, <1>2, <2>1
<1>5. ASSUME NEW i \in 1..(g + o) PROVE w[i] \in ToSet(a) \cup ToSet(b)
  <2>1. CASE i <= g
    BY <1>1, <1>2, <2>1
  <2>2. CASE ~(i <= g)
    <3>1. i - g \in 1..o /\ w[i] = b[i - g]
      BY <1>1, <2>2
    <3> QED BY <1>2, <3>1
  <2> QED BY <2>1, <2>2
<1>6. ToSet(w) = ToSet(a) \cup ToSet(b)
  BY <1>2, <1>3, <1>4, <1>5
<1> QED BY <1>1, <1>6 DEF w

\* The line is opened again: the bytes may have moved, and what was received is lost.
LEMMA LineReopened == ASSUME GrInv, Restart PROVE GrInv'
<1>1. PICK e \in Compacted : rx_buf' = e.buf /\ read_pos' = e.pos
  BY DEF Restart
<1>2. /\ pc = "loop" /\ line' = << >> /\ steadily' = FALSE
      /\ clean' = clean \ {b.id : b \in ToSet(line \o rest)}
      /\ UNCHANGED <<pc, istart, from, rest, items, handled>>
  BY DEF Restart
<1> DEFINE s == Laid(e.buf, e.pos, line, rest)
           t == Laid(e.buf, e.pos, << >>, rest)
<1>3. /\ e.buf \in Seq(Byte) /\ Len(e.buf) <= Cap /\ e.pos \in 0..Len(e.buf) /\ Len(e.buf) - e.pos = There
      /\ s \in Seq(Byte) /\ Len(s) = Len(Stream) /\ Fine(s, There, items, Heard, clean, steadily)
      /\ \A i \in 1..There : s[i].ch # "CR"
  BY <1>2, Compact
<1>4. Start' = e.pos /\ There' = There
  BY <1>1, <1>2, <1>3 DEF Start, There
<1>5. Stream' = t
  BY <1>1, <1>2, <1>4 DEF Stream
<1>6. /\ line \in Seq(Byte) /\ rest \in Seq(Byte) /\ << >> \in Seq(Byte) /\ Len(<< >>) = 0
      /\ items \in Nat /\ clean \in SUBSET (1..items) /\ steadily \in BOOLEAN /\ Heard \in SUBSET (1..items)
      /\ Len(line) \in Nat /\ Len(rest) \in Nat /\ There \in Nat /\ handled \in Seq(1..items)
  <2>1. /\ line \in Seq(Byte) /\ rest \in Seq(Byte) /\ items \in Nat /\ clean \in SUBSET (1..items)
        /\ steadily \in BOOLEAN /\ handled \in Seq(1..items)
    BY DEF GrInv, GrType
  <2>2. << >> \in Seq(Byte) /\ Len(<< >>) = 0
    BY EmptySeq
  <2>3. Heard \in SUBSET (1..items) /\ There \in 0..Len(rx_buf)
    BY StreamIs DEF GrInv
  <2>4. Len(line) \in Nat /\ Len(rest) \in Nat
    BY <2>1, Bytes
  <2> QED BY <2>1, <2>2, <2>3, <2>4
<1>7. LaidIs(s, There, e.buf, e.pos, line, rest)
  <2>1. LaidIs(Laid(e.buf, e.pos, line, rest), Len(e.buf) - e.pos, e.buf, e.pos, line, rest)
    BY <1>3, <1>6, LaidOut
  <2> QED BY <1>3, <2>1
<1>8. LaidIs(t, There, e.buf, e.pos, << >>, rest)
  <2>1. LaidIs(Laid(e.buf, e.pos, << >>, rest), Len(e.buf) - e.pos, e.buf, e.pos, << >>, rest)
    BY <1>3, <1>6, LaidOut
  <2> QED BY <1>3, <2>1
<1> HIDE DEF s, t
<1> DEFINE g == Len(line)
           o == Len(rest)
           r == There
<1>9. /\ Len(s) = r + (g + o) /\ s \in Seq(Byte) /\ \A i \in 1..r : s[i] = e.buf[e.pos + i]
      /\ \A i \in 1..g : s[r + i] = line[i]
      /\ \A i \in 1..o : s[r + (g + i)] = rest[i]
  BY <1>7 DEF LaidIs
<1>10. /\ Len(t) = r + o /\ t \in Seq(Byte) /\ \A i \in 1..r : t[i] = e.buf[e.pos + i]
       /\ \A i \in 1..o : t[r + i] = rest[i]
  <2>1. /\ t \in Seq(Byte) /\ Len(t) = r + (0 + o) /\ \A i \in 1..r : t[i] = e.buf[e.pos + i]
        /\ \A i \in 1..o : t[r + (0 + i)] = rest[i]
    BY <1>6, <1>8 DEF LaidIs
  <2>2. 0 + o = o /\ \A i \in 1..o : 0 + i = i
    BY <1>6
  <2> QED BY <2>1, <2>2
<1>11. \A b : b \in ToSet(line \o rest) <=> (\E i \in 1..g : b = line[i]) \/ (\E i \in 1..o : b = rest[i])
  <2>1. ToSet(line \o rest) = ToSet(line) \cup ToSet(rest)
    BY <1>6, BytesOfBoth
  <2>2. ToSet(line) = {line[i] : i \in 1..g} /\ ToSet(rest) = {rest[i] : i \in 1..o}
    BY <1>6, BytesAre
  <2> QED BY <2>1, <2>2
<1> HIDE DEF g, o, r
<1>12. g \in Nat /\ o \in Nat /\ r \in Nat
  BY <1>6 DEF g, o, r
<1>13. Loses(s, t, r, g, clean, clean')
  <2>1. r \in 0..Len(s) /\ g \in 0..(Len(s) - r) /\ Len(t) = Len(s) - g
    BY <1>9, <1>10, <1>12
  <2>2. \A i \in 1..r : t[i] = s[i] /\ s[i].ch # "CR"
    BY <1>3, <1>9, <1>10 DEF r
  <2>3. ASSUME NEW i \in (r + 1)..Len(t) PROVE t[i] = s[i + g]
    <3>1. i - r \in 1..o /\ r + (i - r) = i /\ r + (g + (i - r)) = i + g
      BY <1>10, <1>12
    <3> QED BY <1>9, <1>10, <3>1
  <2>4. ASSUME NEW i \in (r + 1)..Len(s) PROVE s[i].id \notin clean'
    <3>1. s[i] \in ToSet(line \o rest)
      <4>1. CASE i <= r + g
        <5>1. i - r \in 1..g /\ r + (i - r) = i
          BY <1>12, <4>1
        <5> QED BY <1>9, <1>11, <5>1
      <4>2. CASE ~(i <= r + g)
        <5>1. i - r - g \in 1..o /\ r + (g + (i - r - g)) = i
          BY <1>9, <1>12, <4>2
        <5> QED BY <1>9, <1>11, <5>1
      <4> QED BY <4>1, <4>2
    <3> QED BY <1>2, <3>1
  <2>5. clean' \subseteq clean
    BY <1>2
  <2> QED BY <1>9, <1>10, <2>1, <2>2, <2>3, <2>4, <2>5 DEF Loses
<1>14. Fine(t, There, items, Heard, clean', FALSE)
  <2>1. PICK c, h : c = clean' /\ h = Heard
    OBVIOUS
  <2>2. Tallies(items, h, clean, steadily)
    BY <1>6, <2>1 DEF Tallies
  <2>3. Loses(s, t, r, g, clean, c) /\ Fine(s, r, items, h, clean, steadily)
    BY <1>3, <1>13, <2>1, Zenon DEF r
  <2>4. Fine(t, r, items, h, c, FALSE)
    BY <2>2, <2>3, Reopened, Zenon
  <2> QED BY <2>1, <2>4, Zenon DEF r
<1>15. FineNow'
  <2>1. Heard' = Heard
    BY <1>2 DEF Heard
  <2> QED BY <1>2, <1>4, <1>5, <1>14, <2>1, Zenon DEF FineNow
<1>16. GrType'
  <2>1. clean' \in SUBSET (1..items) /\ line' \in Seq(Byte)
    BY <1>2, <1>6
  <2>2. pc \in {"loop", "parse", "print", "exit"} /\ pc \notin {"parse", "print"}
    BY <1>2
  <2> QED BY <1>1, <1>2, <1>3, <1>4, <1>6, <2>1, <2>2 DEF GrType
<1>17. Searched'
  <2>1. \A i \in 1..There' : Stream'[i].ch # "CR"
    <3>1. \A i \in 1..r : t[i].ch # "CR"
      BY <1>13 DEF Loses
    <3> QED BY <1>4, <1>5, <3>1 DEF r
  <2> QED BY <1>2, <2>1 DEF Searched
<1>18. Increasing'
  BY <1>2 DEF GrInv, Increasing
<1> QED BY <1>15, <1>16, <1>17, <1>18 DEF GrInv

\* The bytes of item n: one kind at most, and a carriage return only before the line feed
\* that ends them.
Item(o, n) ==
  /\ o \in Seq(Byte)
  /\ \A i \in 1..Len(o) : o[i].id = n /\ o[i].ch # "NUL"
  /\ \A i, j \in 1..Len(o) : i < j => o[i].ch \notin Kinds \/ o[j].ch \notin Kinds
  /\ \A i \in 1..Len(o) : o[i].ch = "CR" => i # 1 /\ i + 1 = Len(o) /\ o[i + 1].ch = "LF"

\* An item that is sent stands behind the others.
LEMMA ItemSent ==
  ASSUME GrInv, rest = << >>, Item(rest', items + 1), items' = items + 1,
         UNCHANGED <<pc, rx_buf, read_pos, istart, from, line, handled>>
  PROVE  /\ Stream' \in Seq(Byte) /\ Len(Stream') = Len(Stream) + Len(rest') /\ Len(rest') \in Nat
         /\ \A i \in 1..Len(Stream) : Stream'[i] = Stream[i]
         /\ \A i \in 1..Len(rest') : Stream'[Len(Stream) + i] = rest'[i]
         /\ GrowsTo(Stream, Stream', There, items) /\ There' = There /\ Heard' = Heard /\ Searched' /\ Increasing'
<1>1. Start' = Start
  BY DEF Start
<1>2. There' = There
  BY <1>1 DEF There
<1>3. PICK o, s, t, r : o = rest' /\ s = Stream /\ t = Stream' /\ r = There
  OBVIOUS
<1>4. Item(o, items + 1) /\ o \in Seq(Byte) /\ Len(o) \in Nat
  BY <1>3, Bytes DEF Item
<1>5. /\ line \in Seq(Byte) /\ rx_buf \in Seq(Byte) /\ Start \in 0..Len(rx_buf) /\ r = Len(rx_buf) - Start
      /\ r \in Nat /\ Len(line) \in Nat /\ r \in 0..Len(s) /\ s \in Seq(Byte)
      /\ Len(s) = r + Len(line)
      /\ (\A i \in 1..r : s[i] = rx_buf[Start + i]) /\ \A i \in 1..Len(line) : s[r + i] = line[i]
  <2>1. Len(rest) = 0
    BY EmptySeq
  <2>2. /\ s \in Seq(Byte) /\ r \in 0..Len(rx_buf) /\ r \in 0..Len(s)
        /\ Len(s) = r + (Len(line) + Len(rest)) /\ Len(line) \in Nat
        /\ (\A i \in 1..r : s[i] = rx_buf[Start + i]) /\ \A i \in 1..Len(line) : s[r + i] = line[i]
    BY <1>3, StreamIs DEF GrInv
  <2>3. line \in Seq(Byte) /\ rx_buf \in Seq(Byte) /\ Start \in 0..Len(rx_buf) /\ r = Len(rx_buf) - Start
    BY <1>3 DEF GrInv, GrType, There
  <2> QED BY <2>1, <2>2, <2>3
<1>6. t = Laid(rx_buf, Start, line, o)
  BY <1>1, <1>3, Zenon DEF Stream
<1>7. LaidIs(t, r, rx_buf, Start, line, o)
  <2>1. LaidIs(Laid(rx_buf, Start, line, o), Len(rx_buf) - Start, rx_buf, Start, line, o)
    BY <1>4, <1>5, LaidOut
  <2> QED BY <1>5, <1>6, <2>1, Zenon
<1> DEFINE m == Len(s)
           lo == Len(o)
           lg == Len(line)
<1>8. /\ m \in Nat /\ lo \in Nat /\ lg \in Nat /\ r \in Nat /\ m = r + lg /\ Len(t) = r + (lg + lo)
      /\ (\A i \in 1..r : s[i] = rx_buf[Start + i]) /\ (\A i \in 1..lg : s[r + i] = line[i])
      /\ (\A i \in 1..r : t[i] = rx_buf[Start + i]) /\ (\A i \in 1..lg : t[r + i] = line[i])
      /\ (\A i \in 1..lo : t[r + (lg + i)] = o[i])
  <2>1. m \in Nat
    BY <1>5
  <2> QED BY <1>4, <1>5, <1>7, <2>1 DEF LaidIs
<1>9. t \in Seq(Byte)
  BY <1>7 DEF LaidIs
<1> HIDE DEF m, lo, lg
<1>10. Len(t) = m + lo
  BY <1>8
<1>11. ASSUME NEW i \in 1..m PROVE t[i] = s[i]
  <2>1. CASE i <= r
    BY <1>8, <2>1
  <2>2. CASE ~(i <= r)
    <3>1. i - r \in 1..lg /\ r + (i - r) = i
      BY <1>8, <2>2
    <3> QED BY <1>8, <3>1
  <2> QED BY <2>1, <2>2
<1>12. ASSUME NEW i \in 1..lo PROVE t[m + i] = o[i]
  <2>1. m + i = r + (lg + i)
    BY <1>8
  <2> QED BY <1>8, <2>1
<1>13. \A i \in (m + 1)..(m + lo) : i - m \in 1..lo /\ m + (i - m) = i /\ t[i] = o[i - m]
  <2>1. \A i \in (m + 1)..(m + lo) : i - m \in 1..lo /\ m + (i - m) = i
    BY <1>8
  <2> QED BY <1>12, <2>1
<1>14. /\ \A i \in 1..lo : o[i].id = items + 1 /\ o[i].ch # "NUL"
       /\ \A i, j \in 1..lo : i < j => o[i].ch \notin Kinds \/ o[j].ch \notin Kinds
       /\ \A i \in 1..lo : o[i].ch = "CR" => i # 1 /\ i + 1 = lo /\ o[i + 1].ch = "LF"
  BY <1>4 DEF Item, lo
<1>15. GrowsTo(s, t, r, items)
  <2>1. \A i \in (m + 1)..(m + lo) : t[i].id = items + 1 /\ t[i].ch # "NUL"
    BY <1>13, <1>14
  <2>2. ASSUME NEW i \in (m + 1)..(m + lo), NEW j \in (m + 1)..(m + lo), i < j
        PROVE  t[i].ch \notin Kinds \/ t[j].ch \notin Kinds
    <3>1. i - m \in 1..lo /\ j - m \in 1..lo /\ i - m < j - m
      BY <1>8, <2>2
    <3> QED BY <1>13, <1>14, <3>1
  <2>3. ASSUME NEW i \in (m + 1)..(m + lo), t[i].ch = "CR"
        PROVE  i # m + 1 /\ i + 1 = m + lo /\ t[i + 1].ch = "LF"
    <3>1. i - m \in 1..lo /\ t[i] = o[i - m]
      BY <1>13
    <3>2. i - m # 1 /\ (i - m) + 1 = lo /\ o[(i - m) + 1].ch = "LF"
      BY <1>14, <2>3, <3>1
    <3>3. i # m + 1 /\ i + 1 = m + lo /\ i + 1 \in (m + 1)..(m + lo) /\ (i + 1) - m = (i - m) + 1
      <4>1. i - m # 1 /\ (i - m) + 1 = lo /\ m \in Nat /\ lo \in Nat /\ i \in Int
        BY <1>8, <3>2
      <4> QED BY <4>1
    <3>4. t[i + 1] = o[(i - m) + 1]
      BY <1>13, <3>3
    <3> QED BY <3>2, <3>3, <3>4
  <2>4. r \in 0..m /\ m <= m + lo
    BY <1>8
  <2> QED BY <1>5, <1>9, <1>10, <1>11, <2>1, <2>2, <2>3, <2>4 DEF GrowsTo, m
<1>16. Searched'
  <2>1. pc = "loop" => \A i \in 1..r : t[i].ch # "CR"
    <3>1. pc = "loop" => \A i \in 1..r : s[i].ch # "CR"
      BY <1>3 DEF GrInv, Searched
    <3>2. \A i \in 1..r : i \in 1..m
      BY <1>8
    <3> QED BY <1>11, <3>1, <3>2
  <2>2. ASSUME pc \in {"parse", "print"}, from = istart + 1, Len(t) > 0 PROVE t[1].ch # "CR"
    <3>1. CASE m > 0
      <4>1. s[1].ch # "CR"
        BY <1>3, <2>2, <3>1 DEF GrInv, Searched, m
      <4>2. 1 \in 1..m
        BY <1>8, <3>1
      <4> QED BY <1>11, <4>1, <4>2
    <3>2. CASE ~(m > 0)
      <4>1. m = 0 /\ 1 \in 1..lo /\ m + 1 = 1
        BY <1>8, <1>10, <2>2, <3>2
      <4>2. t[1] = o[1] /\ o[1].ch # "CR"
        BY <1>12, <1>14, <4>1
      <4> QED BY <4>2
    <3> QED BY <3>1, <3>2
  <2> QED BY <1>2, <1>3, <2>1, <2>2 DEF Searched
<1>17. Heard' = Heard
  BY DEF Heard
<1>18. Increasing'
  BY DEF GrInv, Increasing
<1>19. /\ t \in Seq(Byte) /\ Len(t) = Len(s) + Len(o) /\ Len(o) \in Nat
       /\ (\A i \in 1..Len(s) : t[i] = s[i]) /\ \A i \in 1..Len(o) : t[Len(s) + i] = o[i]
  BY <1>4, <1>9, <1>10, <1>11, <1>12 DEF m, lo
<1> QED BY <1>2, <1>3, <1>15, <1>16, <1>17, <1>18, <1>19, Zenon

\* What was heard of k items was heard of more.
LEMMA HeardOfMore == ASSUME NEW k \in Nat, NEW h \in Seq(1..k) PROVE h \in Seq(1..(k + 1))
<1>1. 1..k \subseteq 1..(k + 1)
  OBVIOUS
<1>2. \A i \in 1..Len(h) : h[i] \in 1..(k + 1)
  BY <1>1, ElementOfSeq
<1>3. Len(h) \in Nat /\ h \in [1..Len(h) -> 1..k]
  BY LenProperties
<1>4. h \in [1..Len(h) -> 1..(k + 1)]
  BY <1>2, <1>3
<1> QED BY <1>3, <1>4, SeqDef

\* A tuple of bytes of one item.
LEMMA TupleIsItem ==
  ASSUME NEW n \in Nat, NEW kind \in Kinds
  PROVE  Item(Sentence(kind, n), n) /\ Len(Sentence(kind, n)) = 4
         /\ \A i \in 1..4 : Sentence(kind, n)[i] = [ch |-> <<"$", kind, "CR", "LF">>[i], id |-> n]
<1> DEFINE o == Sentence(kind, n)
           q == <<"$", kind, "CR", "LF">>
<1>1. o = [i \in 1..4 |-> [ch |-> q[i], id |-> n]]
  BY DEF Sentence
<1>2. \A i \in 1..4 : i = 1 \/ i = 2 \/ i = 3 \/ i = 4
  OBVIOUS
<1>3. q[1] = "$" /\ q[2] = kind /\ q[3] = "CR" /\ q[4] = "LF"
  OBVIOUS
<1>4. kind \in {"rmc", "gga"}
  BY DEF Kinds
<1> HIDE DEF q, o
<1>5. \A i \in 1..4 : q[i] \in {"$", "rmc", "gga", "CR", "LF"}
  BY <1>2, <1>3, <1>4
<1>6. o \in [1..4 -> Byte]
  BY <1>1, <1>5 DEF Byte
<1>7. o \in Seq(Byte)
  BY <1>6, SeqDef
<1>8. Len(o) = 4
  BY <1>6, <1>7, LenProperties
<1>9. \A i \in 1..4 : o[i] = [ch |-> q[i], id |-> n]
  BY <1>1
<1>10. \A i \in 1..4 : o[i].id = n /\ o[i].ch = q[i] /\ o[i].ch # "NUL"
  BY <1>5, <1>9
<1>11. \A i \in 1..4 : (o[i].ch \in Kinds => i = 2) /\ (o[i].ch = "CR" => i = 3)
  BY <1>2, <1>3, <1>4, <1>10 DEF Kinds
<1>12. o[3 + 1].ch = "LF" /\ 3 + 1 = 4
  BY <1>3, <1>10
<1>13. Item(o, n)
  <2>1. \A i, j \in 1..4 : i < j => o[i].ch \notin Kinds \/ o[j].ch \notin Kinds
    BY <1>11
  <2>2. \A i \in 1..4 : o[i].ch = "CR" => i # 1 /\ i + 1 = 4 /\ o[i + 1].ch = "LF"
    BY <1>11, <1>12
  <2> QED BY <1>7, <1>8, <1>10, <2>1, <2>2 DEF Item
<1> QED BY <1>8, <1>9, <1>13 DEF o, q

\* Noise is an item without a carriage return and without a kind.
LEMMA NoiseIsItem ==
  ASSUME NEW n \in Nat, NEW chs \in {<< "x" >>, << "$" >>, <<"x", "x", "x">>},
         NEW o, o = [i \in DOMAIN chs |-> [ch |-> chs[i], id |-> n]]
  PROVE  Item(o, n)
<1>1. PICK l \in 1..3 : DOMAIN chs = 1..l /\ \A i \in 1..l : chs[i] \in {"x", "$"}
  <2>1. CASE chs = << "x" >>
    BY <2>1
  <2>2. CASE chs = << "$" >>
    BY <2>2
  <2>3. CASE chs = <<"x", "x", "x">>
    BY <2>3
  <2> QED BY <2>1, <2>2, <2>3
<1>2. o \in [1..l -> Byte] /\ \A i \in 1..l : o[i].id = n /\ o[i].ch \in {"x", "$"}
  BY <1>1 DEF Byte
<1>3. o \in Seq(Byte) /\ Len(o) = l
  <2>1. l \in Nat
    OBVIOUS
  <2>2. \E j \in Nat : o \in [1..j -> Byte]
    BY <1>2, <2>1
  <2>3. o \in Seq(Byte)
    BY <2>2, SeqDef
  <2> QED BY <1>2, <2>1, <2>3, LenProperties
<1>4. \A i \in 1..l : o[i].ch # "NUL" /\ o[i].ch # "CR" /\ o[i].ch \notin Kinds
  BY <1>2 DEF Kinds
<1> QED BY <1>2, <1>3, <1>4 DEF Item

\* A sentence begins.
LEMMA SentenceBegun == ASSUME GrInv, NEW kind \in Kinds, BeginSentence(kind) PROVE GrInv'
<1>1. /\ rest = << >> /\ items' = items + 1 /\ rest' = Sentence(kind, items + 1)
      /\ clean' = (IF steadily THEN clean \union {items + 1} ELSE clean) /\ steadily' = TRUE
      /\ UNCHANGED <<pc, rx_buf, read_pos, istart, from, line, handled>>
  BY DEF BeginSentence, parser
<1>2. /\ items \in Nat /\ items + 1 \in Nat /\ clean \in SUBSET (1..items) /\ steadily \in BOOLEAN
      /\ handled \in Seq(1..items) /\ Heard \in SUBSET (1..items) /\ There \in Nat /\ line \in Seq(Byte)
      /\ There \in 0..Len(Stream)
  BY StreamIs DEF GrInv, GrType
<1>3. Item(rest', items + 1) /\ Len(rest') = 4
      /\ \A i \in 1..4 : rest'[i] = [ch |-> <<"$", kind, "CR", "LF">>[i], id |-> items + 1]
  BY <1>1, <1>2, TupleIsItem
<1>4. /\ Stream' \in Seq(Byte) /\ Len(Stream') = Len(Stream) + Len(rest')
      /\ \A i \in 1..Len(Stream) : Stream'[i] = Stream[i]
      /\ \A i \in 1..Len(rest') : Stream'[Len(Stream) + i] = rest'[i]
      /\ GrowsTo(Stream, Stream', There, items) /\ There' = There /\ Heard' = Heard /\ Searched' /\ Increasing'
  BY <1>1, <1>3, ItemSent
<1>5. PICK s, t, r, k, h, c : s = Stream /\ t = Stream' /\ r = There /\ k = items /\ h = Heard /\ c = clean'
  OBVIOUS
<1> DEFINE m == Len(s)
<1>6. m \in Nat /\ Len(t) = m + 4 /\ k \in Nat /\ r \in 0..m
      /\ \A i \in 1..4 : t[m + i] = [ch |-> <<"$", kind, "CR", "LF">>[i], id |-> k + 1]
  <2>1. m \in Nat
    BY <1>5, StreamIs DEF GrInv
  <2> QED BY <1>2, <1>3, <1>4, <1>5, <2>1
<1>7. /\ t[m + 1].ch = "$" /\ t[m + 1].id = k + 1 /\ t[m + 2].ch = kind /\ t[m + 2].id = k + 1
      /\ t[m + 3].ch = "CR" /\ t[m + 3].id = k + 1
  BY <1>6
<1>8. /\ Ordered(t, k + 1) /\ Closed(t) /\ Passed(t, r, h) /\ Awaited(t, r, clean, h)
      /\ steadily => Boundary(t, r, m + 1)
  <2>1. Tallies(k, h, clean, steadily)
    BY <1>2, <1>5 DEF Tallies
  <2>2. Fine(s, r, k, h, clean, steadily) /\ GrowsTo(s, t, r, k)
    BY <1>4, <1>5, Zenon DEF GrInv, FineNow
  <2> QED BY <2>1, <2>2, Grown, Zenon
<1>9. ASSUME steadily PROVE Ready(t, r, k + 1)
  <2> DEFINE q == m + 1
  <2>1. q \in 1..Len(t) /\ q + 2 <= Len(t) /\ q + 1 = m + 2 /\ q + 2 = m + 3
    <3> HIDE DEF m
    <3> QED BY <1>6
  <2>2. Boundary(t, r, q)
    BY <1>8, <1>9
  <2>3. \A i \in 1..Len(t) : t[i].id = k + 1 => q <= i
    <3> SUFFICES ASSUME NEW i \in 1..Len(t), t[i].id = k + 1, ~(q <= i) PROVE FALSE
      OBVIOUS
    <3>1. i \in 1..m
      <4> HIDE DEF m
      <4> QED BY <1>6
    <3>2. t[i] = s[i]
      BY <1>4, <1>5, <3>1
    <3>3. s[i].id <= k
      BY <1>5, <3>1 DEF GrInv, FineNow, Fine, Ordered
    <3> QED BY <1>6, <3>2, <3>3
  <2> HIDE DEF m, q
  <2>4. t[q].ch = "$" /\ t[q].id = k + 1 /\ t[q + 1].ch \in Kinds /\ t[q + 1].id = k + 1
        /\ t[q + 2].ch = "CR" /\ t[q + 2].id = k + 1
    BY <1>7, <2>1 DEF q
  <2> QED BY <2>1, <2>2, <2>3, <2>4 DEF Ready
<1>10. Boundary(t, r, Len(t) + 1)
  <2> DEFINE q == Len(t) + 1
  <2>1. q >= 3 /\ q - 2 = m + 3
    <3> HIDE DEF m
    <3> QED BY <1>6
  <2> HIDE DEF q, m
  <2>2. Boundary(t, r, q)
    BY <1>7, <2>1 DEF Boundary
  <2> QED BY <2>2 DEF q
<1>11. Awaited(t, r, c, h)
  <2>1. c = (IF steadily THEN clean \union {k + 1} ELSE clean)
    BY <1>1, <1>5
  <2> QED BY <1>8, <1>9, <2>1 DEF Awaited
<1>12. Fine(t, r, k + 1, h, c, TRUE)
  BY <1>8, <1>10, <1>11, Zenon DEF Fine
<1>13. FineNow'
  <2>1. items' = k + 1
    BY <1>1, <1>5
  <2>2. steadily' = TRUE
    BY <1>1
  <2> QED BY <1>4, <1>5, <1>12, <2>1, <2>2, Zenon DEF FineNow
<1>14. GrType'
  <2>1. Start' = Start
    BY <1>1 DEF Start
  <2>2. rest' \in Seq(Byte)
    BY <1>3 DEF Item
  <2>3. 1..items \subseteq 1..(items + 1) /\ items + 1 \in 1..(items + 1)
    BY <1>2
  <2>4. clean' \in SUBSET (1..(items + 1))
    BY <1>1, <1>2, <2>3
  <2>5. handled \in Seq(1..(items + 1))
    BY <1>2, HeardOfMore
  <2> QED BY <1>1, <1>2, <2>1, <2>2, <2>4, <2>5 DEF GrInv, GrType
<1> QED BY <1>4, <1>13, <1>14 DEF GrInv

\* Noise begins.
LEMMA NoiseBegun ==
  ASSUME GrInv, NEW chs \in {<< "x" >>, << "$" >>, <<"x", "x", "x">>}, Noise(chs)
  PROVE  GrInv'
<1>1. /\ rest = << >> /\ items' = items + 1 /\ steadily' = FALSE
      /\ rest' = [i \in DOMAIN chs |-> [ch |-> chs[i], id |-> items + 1]]
      /\ UNCHANGED <<pc, rx_buf, read_pos, istart, from, line, handled, clean>>
  BY DEF Noise, parser
<1>2. /\ items \in Nat /\ items + 1 \in Nat /\ clean \in SUBSET (1..items) /\ steadily \in BOOLEAN
      /\ handled \in Seq(1..items) /\ Heard \in SUBSET (1..items)
  BY StreamIs DEF GrInv, GrType
<1>3. Item(rest', items + 1)
  <2>1. PICK o, n : o = rest' /\ n = items + 1
    OBVIOUS
  <2>2. n \in Nat /\ o = [i \in DOMAIN chs |-> [ch |-> chs[i], id |-> n]]
    BY <1>1, <1>2, <2>1
  <2>3. Item(o, n)
    BY <2>2, NoiseIsItem
  <2> QED BY <2>1, <2>3, Zenon
<1>4. /\ GrowsTo(Stream, Stream', There, items) /\ There' = There /\ Heard' = Heard /\ Searched' /\ Increasing'
  BY <1>1, <1>3, ItemSent
<1>5. PICK s, t, r, k, h : s = Stream /\ t = Stream' /\ r = There /\ k = items /\ h = Heard
  OBVIOUS
<1>6. Ordered(t, k + 1) /\ Closed(t) /\ Passed(t, r, h) /\ Awaited(t, r, clean, h)
  <2>1. Tallies(k, h, clean, steadily)
    BY <1>2, <1>5 DEF Tallies
  <2>2. Fine(s, r, k, h, clean, steadily) /\ GrowsTo(s, t, r, k)
    BY <1>4, <1>5, Zenon DEF GrInv, FineNow
  <2> QED BY <2>1, <2>2, Grown, Zenon
<1>7. Fine(t, r, k + 1, h, clean, FALSE)
  BY <1>6 DEF Fine
<1>8. FineNow'
  <2>1. items' = k + 1
    BY <1>1, <1>5
  <2>2. steadily' = FALSE /\ clean' = clean
    BY <1>1
  <2> QED BY <1>4, <1>5, <1>7, <2>1, <2>2, Zenon DEF FineNow
<1>9. GrType'
  <2>1. Start' = Start
    BY <1>1 DEF Start
  <2>2. rest' \in Seq(Byte)
    BY <1>3 DEF Item
  <2>3. 1..items \subseteq 1..(items + 1)
    BY <1>2
  <2>4. handled \in Seq(1..(items + 1))
    BY <1>2, HeardOfMore
  <2> QED BY <1>1, <1>2, <2>1, <2>2, <2>3, <2>4 DEF GrInv, GrType
<1> QED BY <1>4, <1>8, <1>9 DEF GrInv

\* Nothing was sent yet.
LEMMA NothingSent == ASSUME Init PROVE GrInv
<1>1. /\ pc = "loop" /\ rx_buf = << >> /\ read_pos = 0 /\ rest = << >> /\ line = << >> /\ items = 0
      /\ handled = << >> /\ clean = {} /\ steadily = TRUE
  BY DEF Init
<1>2. << >> \in Seq(Byte) /\ << >> \in Seq(1..0) /\ Len(<< >>) = 0
  BY EmptySeq
<1>3. Start = 0 /\ There = 0
  BY <1>1, <1>2 DEF Start, There
<1>4. GrType
  BY <1>1, <1>2, <1>3, GpsAssumption DEF GrType
<1>5. Len(Stream) = 0
  <2>1. Len(Stream) = There + (Len(line) + Len(rest))
    BY <1>4, StreamIs
  <2> QED BY <1>1, <1>2, <1>3, <2>1
<1>6. FineNow
  <2> DEFINE s == Stream
  <2>1. Len(s) = 0 /\ 1..Len(s) = {}
    BY <1>5
  <2> HIDE DEF s
  <2>2. Ordered(s, items)
    BY <2>1 DEF Ordered
  <2>3. Closed(s)
    BY <2>1 DEF Closed
  <2>4. Passed(s, There, Heard)
    BY <2>1 DEF Passed
  <2>5. Awaited(s, There, clean, Heard)
    BY <1>1 DEF Awaited
  <2>6. Boundary(s, There, Len(s) + 1)
    BY <2>1 DEF Boundary
  <2>7. Fine(s, There, items, Heard, clean, steadily)
    BY <2>2, <2>3, <2>4, <2>5, <2>6, Zenon DEF Fine
  <2> QED BY <2>7, Zenon DEF FineNow, s
<1>7. Searched
  BY <1>1, <1>3 DEF Searched
<1>8. Increasing
  BY <1>1, <1>2 DEF Increasing
<1> QED BY <1>4, <1>6, <1>7, <1>8 DEF GrInv

\* Every step keeps the invariant.
LEMMA GpsStep == ASSUME GrInv, [Next]_vars PROVE GrInv'
<1>1. CASE \E kind \in {"rmc", "gga"} : BeginSentence(kind)
  BY <1>1, SentenceBegun DEF Kinds
<1>2. CASE \E chs \in {<< "x" >>, << "$" >>, <<"x", "x", "x">>} : Noise(chs)
  BY <1>2, NoiseBegun, Zenon
<1>3. CASE Arrive \/ Receive \/ Packet
  BY <1>3, Arrived, Received, PacketTaken
<1>4. CASE ParsedAll \/ ReadError \/ Restart
  BY <1>4, NothingLeftToParse, ReadFailed, LineReopened
<1>5. CASE Tick \/ Printed \/ RestartFails \/ UNCHANGED vars
  BY <1>5, NothingMoved
<1> QED BY <1>1, <1>2, <1>3, <1>4, <1>5 DEF Next

\* A clean sentence is heard, or its "$" is still to be read.
LEMMA CleanIsPending == ASSUME GrInv, pc = "loop" PROVE clean \ Pending \subseteq ToSet(handled)
<1>1. /\ rx_buf \in Seq(Byte) /\ line \in Seq(Byte) /\ rest \in Seq(Byte) /\ Start = read_pos
      /\ read_pos \in 0..Len(rx_buf) /\ Len(rx_buf) \in Nat /\ handled \in Seq(1..items)
  BY Bytes DEF GrInv, GrType, Start
<1>2. Unread \in Seq(Byte)
  BY <1>1, BytesBehind DEF Unread
<1>3. Stream = Unread \o (line \o rest)
  BY <1>1, Zenon DEF Stream, Laid, Unread
<1>4. line \o rest \in Seq(Byte) /\ rest \o line \in Seq(Byte)
      /\ ToSet(line \o rest) = ToSet(line) \cup ToSet(rest) /\ ToSet(rest \o line) = ToSet(rest) \cup ToSet(line)
  BY <1>1, BytesOfBoth
<1>5. ToSet(Unread \o (line \o rest)) = ToSet(Unread) \cup ToSet(line \o rest)
      /\ ToSet((rest \o line) \o Unread) = ToSet(rest \o line) \cup ToSet(Unread)
  <2> HIDE DEF Unread
  <2> QED BY <1>2, <1>4, BytesOfBoth
<1>6. ToSet(Stream) = ToSet(rest \o line \o Unread)
  BY <1>3, <1>4, <1>5
<1>7. ASSUME NEW n \in clean, n \notin Heard PROVE n \in Pending
  <2>1. Ready(Stream, There, n)
    BY <1>7 DEF GrInv, FineNow, Fine, Awaited
  <2>2. PICK q \in 1..Len(Stream) : Stream[q].ch = "$" /\ Stream[q].id = n
    BY <2>1 DEF Ready
  <2>3. Stream[q] \in ToSet(Stream)
    BY BytesAre, StreamIs DEF GrInv
  <2> HIDE DEF Unread
  <2>4. Stream[q] \in {p \in ToSet(rest \o line \o Unread) : p.ch # "LF"}
    BY <1>6, <2>2, <2>3
  <2> QED BY <2>2, <2>4 DEF Pending
<1>8. ToSet(handled) = Heard
  <2>1. DOMAIN handled = 1..Len(handled)
    BY <1>1, LenProperties
  <2> QED BY <2>1 DEF ToSet, Range, Heard
<1> QED BY <1>7, <1>8

\* A buffer without room begins with what parse_buf left, noise but for a last half sentence.
LEMMA FullOfNoise ==
  ASSUME GrInv, pc = "loop", \A c \in Compacted : Len(c.buf) = Cap
  PROVE  /\ \A b \in ToSet(rx_buf) : b.ch \notin {"CR", "NUL"}
         /\ Cardinality({i \in DOMAIN rx_buf : rx_buf[i].id \notin clean}) >= Cap - 2
<1>1. /\ rx_buf \in Seq(Byte) /\ Start = read_pos /\ read_pos \in 0..Len(rx_buf) /\ Len(rx_buf) \in Nat
      /\ Len(rx_buf) <= Cap /\ There = Len(rx_buf) - read_pos
      /\ There \in 0..Len(Stream) /\ Len(Stream) \in Nat /\ \A i \in 1..There : Stream[i] = rx_buf[Start + i]
      /\ Cap \in Nat /\ MinSize \in Nat \ {0} /\ MinSize + 3 <= Cap
  BY StreamIs, GpsAssumption DEF GrInv, GrType, Start, There
<1>2. read_pos = 0 /\ Len(rx_buf) = Cap /\ There = Cap
  <2>1. Len(Unread) = There
    BY <1>1, BytesBehind DEF Unread
  <2>2. CASE Cap - Len(rx_buf) >= MinSize
    <3>1. [buf |-> rx_buf, pos |-> read_pos] \in Compacted
      BY <2>2 DEF Compacted
    <3>2. Len(rx_buf) = Cap
      BY <3>1
    <3> QED BY <1>1, <2>2, <3>2
  <2>3. CASE ~(Cap - Len(rx_buf) >= MinSize)
    <3>1. [buf |-> Unread, pos |-> 0] \in Compacted
      BY <2>3 DEF Compacted
    <3>2. Len(Unread) = Cap
      BY <3>1
    <3> QED BY <1>1, <2>1, <3>2
  <2> QED BY <2>2, <2>3
<1>3. \A i \in 1..Cap : Stream[i] = rx_buf[i] /\ i \in 1..Len(Stream) /\ Stream[i].ch # "CR"
  <2>1. \A i \in 1..Cap : i \in 1..There /\ Start + i = i /\ i \in 1..Len(Stream)
    BY <1>1, <1>2
  <2>2. \A i \in 1..There : Stream[i].ch # "CR"
    BY DEF GrInv, Searched
  <2> QED BY <1>1, <2>1, <2>2
<1>4. \A i \in 1..Cap : rx_buf[i].ch \notin {"CR", "NUL"}
  <2>1. \A i \in 1..Len(Stream) : Stream[i].ch # "NUL"
    BY DEF GrInv, FineNow, Fine, Ordered
  <2> QED BY <1>3, <2>1
<1>5. ToSet(rx_buf) = {rx_buf[i] : i \in 1..Cap} /\ DOMAIN rx_buf = 1..Cap
  BY <1>1, <1>2, BytesAre, LenProperties
<1>6. ASSUME NEW i \in 1..(Cap - 2) PROVE rx_buf[i].id \notin clean
  <2> SUFFICES ASSUME rx_buf[i].id \in clean PROVE FALSE
    OBVIOUS
  <2>1. i \in 1..Cap /\ There # 0
    BY <1>1, <1>2
  <2>2. PICK n : n = Stream[i].id /\ n \in clean /\ i \in 1..Len(Stream)
    BY <1>3, <2>1
  <2>3. n \notin Heard
    BY <2>1, <2>2 DEF GrInv, FineNow, Fine, Passed
  <2>4. Ready(Stream, There, n)
    BY <2>2, <2>3 DEF GrInv, FineNow, Fine, Awaited
  <2>5. PICK q \in 1..Len(Stream) : Stream[q + 2].ch = "CR" /\ q <= i
    BY <2>2, <2>4 DEF Ready
  <2>6. q + 2 \in 1..Cap
    BY <1>1, <2>5
  <2> QED BY <1>3, <2>5, <2>6
<1> DEFINE N == {i \in DOMAIN rx_buf : rx_buf[i].id \notin clean}
<1>7. 1..(Cap - 2) \subseteq N /\ N \subseteq 1..Cap
  <2>1. \A i \in 1..(Cap - 2) : i \in 1..Cap
    BY <1>1
  <2> QED BY <1>5, <1>6, <2>1
<1>8. /\ IsFiniteSet(1..Cap) /\ IsFiniteSet(1..(Cap - 2)) /\ Cardinality(1..(Cap - 2)) = Cap - 2
  <2>1. Cap - 2 \in Nat /\ Cap \in Int /\ Cap - 2 \in Int /\ 1 \in Int
    BY <1>1
  <2>2. IsFiniteSet(1..Cap) /\ IsFiniteSet(1..(Cap - 2))
    BY <2>1, FS_Interval
  <2>3. Cardinality(1..(Cap - 2)) = IF 1 > Cap - 2 THEN 0 ELSE (Cap - 2) - 1 + 1
    BY <2>1, FS_Interval
  <2> QED BY <2>1, <2>2, <2>3
<1> HIDE DEF N
<1>9. IsFiniteSet(N)
  BY <1>7, <1>8, FS_Subset
<1>10. Cardinality(1..(Cap - 2)) <= Cardinality(N)
  BY <1>7, <1>9, FS_Subset
<1>11. Cardinality(N) \in Nat
  BY <1>9, FS_CardinalityType
<1>12. Cardinality(N) >= Cap - 2
  BY <1>1, <1>8, <1>10, <1>11
<1> QED BY <1>4, <1>5, <1>12 DEF N

\* read_gps.c never gives parse_packet a sentence twice or out of order, gives it each one
\* that came right behind a whole one, and runs out of room on noise only.
THEOREM SentencesOnce == Spec => []EachSentenceOnce
<1>1. Init => GrInv
  BY NothingSent
<1>2. GrInv /\ [Next]_vars => GrInv'
  BY GpsStep
<1>3. GrInv => EachSentenceOnce
  <2> SUFFICES ASSUME GrInv PROVE EachSentenceOnce
    OBVIOUS
  <2>1. DOMAIN handled = 1..Len(handled)
    BY LenProperties DEF GrInv, GrType
  <2>2. \A i, j \in DOMAIN handled : i < j => handled[i] < handled[j]
    BY <2>1 DEF GrInv, Increasing
  <2> QED BY <2>2, CleanIsPending, FullOfNoise, Zenon DEF EachSentenceOnce
<1> QED BY <1>1, <1>2, <1>3, PTL DEF Spec

\* No tick is owed while the position is printed for it.
TickInv == TicksRemembered /\ (pc = "print" => ~owed)

\* The timer's flag is set while a tick waits for a printing.
THEOREM TickKept == Spec => []TicksRemembered
<1>1. Init => TickInv
  BY DEF Init, TickInv, TicksRemembered
<1>2. ASSUME TickInv, [Next]_vars PROVE TickInv'
  <2>1. CASE Tick
    BY <1>2, <2>1 DEF Tick, TickInv, TicksRemembered, parser
  <2>2. CASE Packet
    BY <1>2, <2>2 DEF Packet, TickInv, TicksRemembered
  <2>3. CASE Printed
    BY <1>2, <2>3 DEF Printed, TickInv, TicksRemembered, history
  <2>4. CASE \E kind \in {"rmc", "gga"} : BeginSentence(kind)
    BY <1>2, <2>4 DEF BeginSentence, TickInv, TicksRemembered, parser
  <2>5. CASE \E chs \in {<< "x" >>, << "$" >>, <<"x", "x", "x">>} : Noise(chs)
    BY <1>2, <2>5 DEF Noise, TickInv, TicksRemembered, parser
  <2>6. CASE Arrive
    BY <1>2, <2>6 DEF Arrive, TickInv, TicksRemembered, parser, history
  <2>7. CASE ParsedAll
    BY <1>2, <2>7 DEF ParsedAll, TickInv, TicksRemembered, history
  <2>8. CASE ReadError \/ Restart \/ RestartFails
    BY <1>2, <2>8 DEF ReadError, Restart, RestartFails, TickInv, TicksRemembered, history
  <2>9. CASE Receive
    BY <1>2, <2>9 DEF Receive, TickInv, TicksRemembered, history
  <2>10. CASE UNCHANGED vars
    BY <1>2, <2>10 DEF vars, TickInv, TicksRemembered, parser, history
  <2> QED BY <1>2, <2>1, <2>2, <2>3, <2>4, <2>5, <2>6, <2>7, <2>8, <2>9, <2>10 DEF Next
<1>3. TickInv => TicksRemembered
  BY DEF TickInv
<1> QED BY <1>1, <1>2, <1>3, PTL DEF Spec
=============================================================================
