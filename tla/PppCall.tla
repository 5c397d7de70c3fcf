------------------------------- MODULE PppCall -------------------------------
(***************************************************************************)
(* LTE/ppp_call1: the supervisor that keeps a pppd process dialled in.     *)
(* Three parties share its state: the main loop, the SIGCHLD handler that  *)
(* may interrupt it between any two memory accesses, and the pppd          *)
(* processes, whose ip-up and ip-down scripts make and remove the link     *)
(* file the main loop polls.                                               *)
(*                                                                         *)
(* pppd_status is the set of its bits.  The two read-modify-write          *)
(* assignments of line 240-241 are split into load and store, reg holding  *)
(* the loaded value.  A call of system() is one step: it blocks SIGCHLD.   *)
(* Sleeps take no state; what may happen during them is what may happen    *)
(* between any two steps.  pppd_link_num, which is only counted and        *)
(* written into the link file, is left out.                                *)
(***************************************************************************)
EXTENDS Naturals, FiniteSets

CONSTANTS
  Pids,        \* the pppd processes that can exist at a time, zombies included
  StartTimeout, \* PPP_START_TIMEOUT
  PingCount     \* PING_COUNT

ASSUME PppCallAssumption ==
  /\ StartTimeout \in Nat \ {0}
  /\ PingCount \in Nat

VARIABLES
  pc, status, reg,   \* the main loop: its place, pppd_status, the loaded copy
  timeout, errors,   \* the local counters of pppd_start and main
  alive, doomed,     \* the pppd processes that run; those sent a SIGTERM
  up,                \* those that hold the line
  ipup, ipdown,      \* those whose ip-up, whose ip-down script has yet to act
  zombie, pending,   \* those that exited unreaped; a SIGCHLD is pending
  link               \* PPP_LINK_FILE exists

vars == <<pc, status, reg, timeout, errors, alive, doomed, up, ipup, ipdown, zombie, pending, link>>
main == <<pc, status, reg, timeout, errors>>
pppd == <<alive, doomed, up, ipup, ipdown, zombie, pending, link>>

STOP == "STOP"
START == "START"
ONLINE == "ONLINE"

Places == {"top", "kill_scripts", "kill_pppd", "unlink", "stopped", "test_start", "start_kill",
           "exec", "poll", "poll_status", "open", "clear_load", "clear_store",
           "set_load", "set_store", "test_online", "ping"}

\* The supervisor starts with no child of its own.  A link file may have been
\* left by an earlier run.
Init ==
  /\ pc = "top" /\ status = {START} /\ reg = {}
  /\ timeout = 0 /\ errors = 0
  /\ alive = {} /\ doomed = {} /\ up = {}
  /\ ipup = {} /\ ipdown = {}
  /\ zombie = {} /\ pending = FALSE
  /\ link \in BOOLEAN

Goto(from, to) == pc = from /\ pc' = to

------------------------------------------------------------------------------
(* The main loop.                                                          *)

TestStop ==
  /\ Goto("top", IF STOP \in status THEN "kill_scripts" ELSE "test_start")
  /\ UNCHANGED <<status, reg, timeout, errors, pppd>>

\* pppd_stop: killall ip-up and ip-down ...
StopScripts ==
  /\ Goto("kill_scripts", "kill_pppd")
  /\ ipup' = {} /\ ipdown' = {}
  /\ UNCHANGED <<status, reg, timeout, errors, alive, doomed, up, zombie, pending, link>>

\* Mutant of KillallPppd: the running pppd is left alone.
KillallNobody == UNCHANGED doomed

\* Every pppd gets a SIGTERM; it ends in its own time.
KillallPppd == doomed' = alive

\* ... killall pppd ...
StopPppd ==
  /\ Goto("kill_pppd", "unlink")
  /\ KillallPppd
  /\ UNCHANGED <<status, reg, timeout, errors, alive, up, ipup, ipdown, zombie, pending, link>>

\* ... unlink of the link file.
StopUnlink ==
  /\ Goto("unlink", "stopped")
  /\ link' = FALSE
  /\ UNCHANGED <<status, reg, timeout, errors, alive, doomed, up, ipup, ipdown, zombie, pending>>

\* pppd_status = PPPD_STATUS_START, whatever the handler stored meanwhile; then
\* reset_module, forty seconds of sleeping.
StopDone ==
  /\ Goto("stopped", "test_start")
  /\ status' = {START}
  /\ UNCHANGED <<reg, timeout, errors, pppd>>

TestStart ==
  /\ Goto("test_start", IF START \in status THEN "start_kill" ELSE "test_online")
  /\ UNCHANGED <<status, reg, timeout, errors, pppd>>

\* pppd_start
StartKill ==
  /\ Goto("start_kill", "exec")
  /\ KillallPppd
  /\ UNCHANGED <<status, reg, timeout, errors, alive, up, ipup, ipdown, zombie, pending, link>>

\* pppd_start returns -1 and main stores STOP.
StartFails(from) ==
  /\ Goto(from, "test_online")
  /\ status' = {STOP}

Exec ==
  /\ Goto("exec", "poll")
  /\ \E p \in Pids \ (alive \union zombie) : alive' = alive \union {p}
  /\ timeout' = StartTimeout
  /\ UNCHANGED <<status, reg, errors, doomed, up, ipup, ipdown, zombie, pending, link>>

ForkFails ==
  /\ StartFails("exec")
  /\ UNCHANGED <<reg, timeout, errors, pppd>>

\* One turn of the polling loop: the link file first, then, a second later, the
\* status and the time left.
Poll ==
  /\ Goto("poll", IF link THEN "open" ELSE "poll_status")
  /\ timeout' = IF link THEN timeout ELSE timeout - 1
  /\ UNCHANGED <<status, reg, errors, pppd>>

PollAgain ==
  /\ STOP \notin status /\ timeout > 0
  /\ Goto("poll_status", "poll")
  /\ UNCHANGED <<status, reg, timeout, errors, pppd>>

PollGivesUp ==
  /\ STOP \in status \/ timeout = 0
  /\ StartFails("poll_status")
  /\ UNCHANGED <<reg, timeout, errors, pppd>>

\* The link number is written, if the file is still there.
OpenLink ==
  /\ link
  /\ Goto("open", "clear_load")
  /\ UNCHANGED <<status, reg, timeout, errors, pppd>>

OpenLinkFails ==
  /\ ~link
  /\ StartFails("open")
  /\ UNCHANGED <<reg, timeout, errors, pppd>>

\* pppd_status &= ~START
ClearLoad ==
  /\ Goto("clear_load", "clear_store")
  /\ reg' = status
  /\ UNCHANGED <<status, timeout, errors, pppd>>

\* Mutant of ClearStore: START stays set.
ClearStoreNot ==
  /\ Goto("clear_store", "set_load")
  /\ status' = reg
  /\ UNCHANGED <<reg, timeout, errors, pppd>>

ClearStore ==
  /\ Goto("clear_store", "set_load")
  /\ status' = reg \ {START}
  /\ UNCHANGED <<reg, timeout, errors, pppd>>

\* pppd_status |= ONLINE
SetLoad ==
  /\ Goto("set_load", "set_store")
  /\ reg' = status
  /\ UNCHANGED <<status, timeout, errors, pppd>>

SetStore ==
  /\ Goto("set_store", "test_online")
  /\ status' = reg \union {ONLINE}
  /\ reg' = {}
  /\ UNCHANGED <<timeout, errors, pppd>>

TestOnline ==
  /\ Goto("test_online", IF status = {ONLINE} THEN "ping" ELSE "top")
  /\ UNCHANGED <<status, reg, timeout, errors, pppd>>

\* An answer needs a line: ip-up makes ppp0 the only default route.
PingOk ==
  /\ up # {}
  /\ Goto("ping", "top")
  /\ errors' = 0
  /\ UNCHANGED <<status, reg, timeout, pppd>>

\* Mutant of PingFails: the network is never reset.
PingFailsForgiven ==
  /\ Goto("ping", "top")
  /\ errors' = IF errors + 1 > PingCount THEN 0 ELSE errors + 1
  /\ UNCHANGED <<status, reg, timeout, pppd>>

\* The answer that makes one failure too many resets the count and the network.
PingFails ==
  /\ Goto("ping", "top")
  /\ IF errors + 1 > PingCount
     THEN status' = {STOP} /\ errors' = 0
     ELSE errors' = errors + 1 /\ UNCHANGED status
  /\ UNCHANGED <<reg, timeout, pppd>>

MainStep ==
  \/ TestStop \/ StopScripts \/ StopPppd \/ StopUnlink \/ StopDone
  \/ TestStart \/ StartKill \/ Exec \/ ForkFails
  \/ Poll \/ PollAgain \/ PollGivesUp \/ OpenLink \/ OpenLinkFails
  \/ ClearLoad \/ ClearStore \/ SetLoad \/ SetStore
  \/ TestOnline \/ PingOk \/ PingFails

------------------------------------------------------------------------------
(* The SIGCHLD handler.                                                    *)

\* Mutant of ChildSignal: one child is reaped per signal.
ChildSignalOnce ==
  /\ pending
  /\ pending' = FALSE
  /\ IF zombie = {}
     THEN UNCHANGED <<zombie, status>>
     ELSE \E p \in zombie : zombie' = zombie \ {p} /\ status' = {STOP}
  /\ UNCHANGED <<pc, reg, timeout, errors, alive, doomed, up, ipup, ipdown, link>>

\* child_signal_handler: reaps every child that has exited, and stores STOP for
\* each of them.
ChildSignal ==
  /\ pending
  /\ pending' = FALSE
  /\ zombie' = {}
  /\ status' = IF zombie # {} THEN {STOP} ELSE status
  /\ UNCHANGED <<pc, reg, timeout, errors, alive, doomed, up, ipup, ipdown, link>>

------------------------------------------------------------------------------
(* The pppd processes (option persist, one at a time on the tty: lock).    *)

\* The link comes up and pppd starts the ip-up script, after its ip-down, if one
\* is still at work.
LinkUp(p) ==
  /\ p \in alive /\ up = {}
  /\ up' = {p}
  /\ ipup' = ipup \union {p}
  /\ UNCHANGED <<main, alive, doomed, ipdown, zombie, pending, link>>

IpUp(p) ==
  /\ p \in ipup
  /\ p \in alive => p \notin ipdown
  /\ ipup' = ipup \ {p}
  /\ link' = TRUE
  /\ UNCHANGED <<main, alive, doomed, up, ipdown, zombie, pending>>

\* The link drops: pppd starts ip-down and dials again (persist).
LinkDown(p) ==
  /\ p \in up
  /\ up' = {}
  /\ ipdown' = ipdown \union {p}
  /\ UNCHANGED <<main, alive, doomed, ipup, zombie, pending, link>>

IpDown(p) ==
  /\ p \in ipdown
  /\ ipdown' = ipdown \ {p}
  /\ link' = FALSE
  /\ UNCHANGED <<main, alive, doomed, up, ipup, zombie, pending>>

\* pppd ends, killed or by itself; with the link up, in order (ip-down is
\* started) or not (the link file stays).
Die(p) ==
  /\ p \in alive
  /\ alive' = alive \ {p} /\ doomed' = doomed \ {p}
  /\ zombie' = zombie \union {p} /\ pending' = TRUE
  /\ up' = up \ {p}
  /\ ipdown' \in IF p \in up THEN {ipdown, ipdown \union {p}} ELSE {ipdown}
  /\ UNCHANGED <<main, ipup, link>>

PppdStep ==
  \E p \in Pids : LinkUp(p) \/ IpUp(p) \/ LinkDown(p) \/ IpDown(p) \/ Die(p)

Next == MainStep \/ ChildSignal \/ PppdStep

\* The main loop and signal delivery go on; a pppd that was sent SIGTERM ends; a
\* fork succeeds if it is tried again and again.  Nothing is assumed of a pppd that
\* is left alone: it may dial for ever, hold the line or die.
Spec == Init /\ [][Next]_vars

FairSpec ==
  /\ Spec
  /\ WF_vars(MainStep) /\ WF_vars(ChildSignal)
  /\ \A p \in Pids : WF_vars(p \in doomed /\ Die(p))
  /\ SF_vars(Exec)

------------------------------------------------------------------------------
(* Properties.                                                             *)

TypeOK ==
  /\ pc \in Places
  /\ status \subseteq {STOP, START, ONLINE} /\ reg \subseteq {STOP, START, ONLINE}
  /\ timeout \in 0..StartTimeout /\ errors \in 0..PingCount
  /\ alive \subseteq Pids /\ doomed \subseteq alive /\ up \subseteq alive
  /\ ipup \subseteq Pids /\ ipdown \subseteq Pids
  /\ zombie \subseteq Pids \ alive
  /\ pending \in BOOLEAN /\ link \in BOOLEAN

\* However the handler interrupts the main loop, pppd_status never ends up at a
\* value that no branch of the loop acts on (ppp_call.c:186, 230-257): when the loop
\* starts over, STOP is there, or it is exactly START or exactly ONLINE.
LoopHasABranch ==
  pc = "top" => STOP \in status \/ status \in {{START}, {ONLINE}}

\* At most one pppd that was not told to end, however starts, failed starts and
\* stops follow each other (ppp_call.c:92, 106, 111): two would fight for the tty.
OneDialer == Cardinality(alive \ doomed) <= 1

\* One signal for several children is enough to reap them all (ppp_call.c:185).
ZombiesReaped == zombie # {} ~> zombie = {}

\* A supervisor without a pppd dials again (ppp_call.c:230-257), even if the main
\* loop overwrote the STOP that told it so: then the pings find out.
DialsAgain == alive = {} ~> alive # {}
==============================================================================
