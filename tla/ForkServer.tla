----------------------------- MODULE ForkServer -----------------------------
(***************************************************************************)
(* The servers of socket/, socket/largedata/ and select/ that fork for     *)
(* every connection, and their clients.  The process that accepts never    *)
(* closes a connection it has handed to a child.  Two of the servers send  *)
(* the time until the client is gone and then leave; the child of the      *)
(* third reads all the client sends, closes the connection and, without a  *)
(* way out of the loop, accepts connections itself.                        *)
(*                                                                         *)
(* TCP and the kernel are external.  A connection has ended for its client *)
(* when no process has it open any more.                                   *)
(***************************************************************************)
EXTENDS Naturals, Sequences, FiniteSets

CONSTANTS
  Clients,
  Children,   \* processes that may be forked
  MaxConns,   \* connections a process may have open before accept fails with EMFILE
  Backlog,    \* connections that wait to be accepted
  Volume,     \* pieces a client of largedata writes
  Window      \* pieces a socket holds

ASSUME ForkAssumption ==
  /\ IsFiniteSet(Clients) /\ IsFiniteSet(Children) /\ "server" \notin Children
  /\ {MaxConns, Backlog, Volume, Window} \subseteq Nat \ {0}

VARIABLES
  service,    \* "time", "select" or "largedata"
  does,       \* by process: "unborn", "accept", "fork", "serve" or "exit"
  sfd,        \* by process: its variable sfd
  has,        \* by process: the connections it has open
  backlog,    \* connections not accepted yet
  client,     \* by client: "idle", "up", "closed" by itself, "over" when it read the end,
              \* or "refused"
  wire,       \* by client: pieces sent and not read
  posted, read, \* by client of largedata: pieces written, and pieces the server read
  by,         \* history, by client: the processes that served it
  orphan,     \* history: the clients for which fork failed
  broken,     \* history: the clients the server failed to read from
  full        \* history: the processes accept failed in

fsVars == <<service, does, sfd, has, backlog, client, wire, posted, read, by, orphan, broken, full>>

Servers == {"server"} \union Children
NoConn == "none"

FsInit ==
  /\ service \in {"time", "select", "largedata"}
  /\ does = [p \in Servers |-> IF p = "server" THEN "accept" ELSE "unborn"]
  /\ sfd = [p \in Servers |-> NoConn] /\ has = [p \in Servers |-> {}]
  /\ backlog = << >> /\ client = [c \in Clients |-> "idle"]
  /\ wire = [c \in Clients |-> 0] /\ posted = [c \in Clients |-> 0] /\ read = [c \in Clients |-> 0]
  /\ by = [c \in Clients |-> {}] /\ orphan = {} /\ broken = {} /\ full = {}

Running == {p \in Servers : does[p] \in {"accept", "fork", "serve"}}
\* The connections that still wait when p has left: none without a listener.
BacklogWithout(p) == IF Running = {p} THEN << >> ELSE backlog
Open(c) == \E p \in Servers : c \in has[p]
Queued(c) == \E i \in DOMAIN backlog : backlog[i] = c

processes == <<does, sfd, has>>
histories == <<by, orphan, broken, full>>

------------------------------------------------------------------------------
(* The clients.                                                            *)

\* The kernel completes a connection while a process has the listening socket.
Connect(c) ==
  /\ client[c] = "idle" /\ Running # {} /\ Len(backlog) < Backlog
  /\ client' = [client EXCEPT ![c] = "up"]
  /\ backlog' = Append(backlog, c)
  /\ UNCHANGED <<service, processes, wire, posted, read, histories>>

\* Of the two threads of select/client.c, each with a server of its own, one that is
\* refused ends the process of both.
ConnectRefused(c) ==
  /\ client[c] = "idle" /\ (Running = {} \/ service = "select")
  /\ client' = [d \in Clients |->
       IF d = c THEN "refused"
       ELSE IF service = "select" /\ client[d] = "up" THEN "closed" ELSE client[d]]
  /\ UNCHANGED <<service, processes, backlog, wire, posted, read, histories>>

\* A client of a time server reads what has come, or the end.
ReadTime(c) ==
  /\ client[c] = "up"
  /\ \/ wire[c] > 0 /\ wire' = [wire EXCEPT ![c] = 0] /\ UNCHANGED client
     \/ /\ wire[c] = 0 /\ ~Open(c) /\ ~Queued(c)
        /\ client' = [client EXCEPT ![c] = "over"]
        /\ UNCHANGED wire
  /\ UNCHANGED <<service, processes, backlog, posted, read, histories>>

ClientReads(c) == service = "time" /\ ReadTime(c)

\* One round of select and read in a thread of select/client.c.
MonitorReads(c) == service = "select" /\ ReadTime(c)

\* largedata/client1.c writes as much as the socket takes, and sleeps on EAGAIN.
WriteLarge(c) ==
  /\ service = "largedata" /\ client[c] = "up" /\ posted[c] < Volume /\ wire[c] < Window
  /\ Open(c) \/ Queued(c)
  /\ \E n \in 1..(Window - wire[c]) :
       /\ posted[c] + n <= Volume
       /\ posted' = [posted EXCEPT ![c] = @ + n] /\ wire' = [wire EXCEPT ![c] = @ + n]
  /\ UNCHANGED <<service, processes, backlog, client, read, histories>>

\* The client of largedata has written everything, or a write failed.
WrittenLarge(c) ==
  /\ service = "largedata" /\ client[c] = "up"
  /\ posted[c] = Volume \/ ~(Open(c) \/ Queued(c))
  /\ client' = [client EXCEPT ![c] = "closed"]
  /\ UNCHANGED <<service, processes, backlog, wire, posted, read, histories>>

\* The user stops a client.
StopClient(c) ==
  /\ client[c] = "up"
  /\ client' = [client EXCEPT ![c] = "closed"]
  /\ UNCHANGED <<service, processes, backlog, wire, posted, read, histories>>

------------------------------------------------------------------------------
(* The servers.                                                            *)

accept(p) ==
  /\ does[p] = "accept" /\ backlog # << >> /\ Cardinality(has[p]) < MaxConns
  /\ sfd' = [sfd EXCEPT ![p] = Head(backlog)]
  /\ has' = [has EXCEPT ![p] = @ \union {Head(backlog)}]
  /\ backlog' = Tail(backlog)
  /\ does' = [does EXCEPT ![p] = "fork"]
  /\ UNCHANGED <<service, client, wire, posted, read, histories>>

\* The client of a connection that waits may be gone: ECONNABORTED, and on with the loop.
AcceptAborted(p) ==
  /\ does[p] = "accept" /\ backlog # << >> /\ client[Head(backlog)] = "closed"
  /\ Cardinality(has[p]) < MaxConns
  /\ backlog' = Tail(backlog)
  /\ UNCHANGED <<service, processes, client, wire, posted, read, histories>>

\* Without a descriptor accept fails at once and the process leaves.
AcceptFails(p) ==
  /\ does[p] = "accept" /\ Cardinality(has[p]) = MaxConns
  /\ does' = [does EXCEPT ![p] = "exit"]
  /\ has' = [has EXCEPT ![p] = {}]
  /\ full' = full \union {p}
  /\ backlog' = BacklogWithout(p)
  /\ UNCHANGED <<service, sfd, client, wire, posted, read, by, orphan, broken>>

Forked(p, q, parent) ==
  /\ does[p] = "fork" /\ does[q] = "unborn"
  /\ does' = [does EXCEPT ![p] = parent, ![q] = "serve"]
  /\ sfd' = [sfd EXCEPT ![q] = sfd[p]] /\ has' = [has EXCEPT ![q] = has[p]]
  /\ by' = [by EXCEPT ![sfd[p]] = @ \union {q} \union (IF parent = "serve" THEN {p} ELSE {})]
  /\ UNCHANGED <<service, backlog, client, wire, posted, read, orphan, broken, full>>

\* Mutant of fork: the parent goes on into the loop of the child.
forkBoth(p, q) == Forked(p, q, "serve")

\* The child has a copy of every descriptor; the parent keeps its own and accepts again.
fork(p, q) == Forked(p, q, "accept")

ForkFails(p) ==
  /\ does[p] = "fork"
  /\ does' = [does EXCEPT ![p] = "accept"]
  /\ orphan' = orphan \union {sfd[p]}
  /\ UNCHANGED <<service, sfd, has, backlog, client, wire, posted, read, by, broken, full>>

\* One turn of the child of a time server.  A write to a client that is gone succeeds or
\* fails with ECONNRESET before it fails with EPIPE; only EPIPE ends the child.
WriteTime(p) ==
  /\ does[p] = "serve"
  /\ \/ /\ client[sfd[p]] = "up" /\ wire[sfd[p]] < Window
        /\ wire' = [wire EXCEPT ![sfd[p]] = @ + 1]
        /\ UNCHANGED <<does, has, backlog>>
     \/ /\ client[sfd[p]] = "closed"
        /\ does' = [does EXCEPT ![p] = "exit"] /\ has' = [has EXCEPT ![p] = {}]
        /\ backlog' = BacklogWithout(p)
        /\ UNCHANGED wire
  /\ UNCHANGED <<service, sfd, client, posted, read, histories>>

SendTime(p) == service = "time" /\ WriteTime(p)
SendTimeSlowly(p) == service = "select" /\ WriteTime(p)

\* The child of largedata reads what has come; at the end or after an error it closes the
\* connection and goes back to accept.
ReadLarge(p) ==
  /\ service = "largedata" /\ does[p] = "serve"
  /\ \/ /\ wire[sfd[p]] > 0
        /\ \E n \in 1..wire[sfd[p]] :
             /\ wire' = [wire EXCEPT ![sfd[p]] = @ - n] /\ read' = [read EXCEPT ![sfd[p]] = @ + n]
        /\ UNCHANGED <<does, has, broken>>
     \/ /\ \/ wire[sfd[p]] = 0 /\ client[sfd[p]] = "closed" /\ UNCHANGED broken
           \/ broken' = broken \union {sfd[p]}
        /\ has' = [has EXCEPT ![p] = @ \ {sfd[p]}]
        /\ does' = [does EXCEPT ![p] = "accept"]
        /\ UNCHANGED <<wire, read>>
  /\ UNCHANGED <<service, sfd, backlog, client, posted, by, orphan, full>>

FsNext ==
  \/ \E c \in Clients :
       \/ Connect(c) \/ ConnectRefused(c) \/ ClientReads(c) \/ MonitorReads(c)
       \/ WriteLarge(c) \/ WrittenLarge(c) \/ StopClient(c)
  \/ \E p \in Servers :
       \/ accept(p) \/ AcceptAborted(p) \/ AcceptFails(p) \/ ForkFails(p)
       \/ \E q \in Children : fork(p, q)
       \/ SendTime(p) \/ SendTimeSlowly(p) \/ ReadLarge(p)

FsSpec == FsInit /\ [][FsNext]_fsVars

------------------------------------------------------------------------------

\* A connection is served by one process only.  A client of a time server reads the end
\* only when no child was forked for it and the server has left, and the server leaves
\* only when it has had MaxConns connections, of which it never gave one back: as many
\* clients as that came, gone or not.  A child of largedata that has come to the end of
\* its connection, without an error, has read every piece the client wrote.
ConnectionsServed ==
  /\ \A c \in Clients : Cardinality(by[c]) <= 1 /\ (by[c] # {} => c \notin orphan)
  /\ service # "largedata" =>
       /\ \A c \in Clients : client[c] = "over" => c \in orphan \/ by[c] = {}
       /\ \A c \in Clients : client[c] = "over" => "server" \in full
       /\ "server" \notin full =>
            has["server"] = orphan \union {c \in Clients : by[c] # {}}
                              \union (IF does["server"] = "fork" THEN {sfd["server"]} ELSE {})
       /\ "server" \in full => Cardinality(orphan \union {c \in Clients : by[c] # {}}) = MaxConns
  /\ service = "largedata" =>
       \A p \in Children, c \in Clients : p \in by[c] /\ c \notin has[p] =>
         p \in full \/ c \in broken \/ (read[c] = posted[c] /\ client[c] # "up")
=============================================================================
