------------------------------- MODULE SigChld -------------------------------
(***************************************************************************)
(* process/sigchld.c: a parent forks its children, then installs a SIGCHLD *)
(* handler that reaps every child that has exited by the time it runs.     *)
(*                                                                         *)
(* SIGCHLD is not queued: however many children exit before the handler    *)
(* runs, one signal is pending.  Before the handler is installed the       *)
(* default action discards it.                                             *)
(***************************************************************************)
EXTENDS Naturals, FiniteSets

CONSTANTS Children  \* the children to fork, 10 in the source

ASSUME SigChldAssumption == IsFiniteSet(Children)

VARIABLES
  child,      \* per child: "unborn", "running", "zombie" or "reaped"
  installed,  \* sigaction has been called
  pending,    \* a SIGCHLD waits to be delivered
  handler     \* the parent is "out" of do_sig_child, in its "loop" or "leaving" it

sigVars == <<child, installed, pending, handler>>

In(s) == {c \in Children : child[c] = s}

SigInit ==
  /\ child = [c \in Children |-> "unborn"]
  /\ installed = FALSE /\ pending = FALSE /\ handler = "out"

\* The loop of main.  The lines that block SIGCHLD around it are only comments.
Fork(c) ==
  /\ child[c] = "unborn"
  /\ child' = [child EXCEPT ![c] = "running"]
  /\ UNCHANGED <<installed, pending, handler>>

Sigaction ==
  /\ In("unborn") = {}
  /\ ~installed
  /\ installed' = TRUE
  /\ UNCHANGED <<child, pending, handler>>

\* Mutant of Exit: a signal sent while the handler runs is lost, as it would be
\* were SIGCHLD ignored there instead of masked.
ExitUnheard(c) ==
  /\ child[c] = "running"
  /\ child' = [child EXCEPT ![c] = "zombie"]
  /\ pending' = (pending \/ (installed /\ handler = "out"))
  /\ UNCHANGED <<installed, handler>>

\* A child returns from main after its second; an uncaught SIGCHLD is discarded.
Exit(c) ==
  /\ child[c] = "running"
  /\ child' = [child EXCEPT ![c] = "zombie"]
  /\ pending' = installed
  /\ UNCHANGED <<installed, handler>>

\* The kernel interrupts the parent, with SIGCHLD masked while the handler runs.
Deliver ==
  /\ pending /\ installed /\ handler = "out"
  /\ pending' = FALSE
  /\ handler' = "loop"
  /\ UNCHANGED <<child, installed>>

\* One turn of while (waitpid(0, &status, WNOHANG) > 0).
Reap ==
  /\ handler = "loop"
  /\ \E c \in In("zombie") : child' = [child EXCEPT ![c] = "reaped"]
  /\ UNCHANGED <<installed, pending, handler>>

\* waitpid finds no zombie: the loop ends; what exits from now on is a new signal.
ReapNone ==
  /\ handler = "loop"
  /\ In("zombie") = {}
  /\ handler' = "leaving"
  /\ UNCHANGED <<child, installed, pending>>

Return ==
  /\ handler = "leaving"
  /\ handler' = "out"
  /\ UNCHANGED <<child, installed, pending>>

\* No step is left only when every child has been forked and has exited and the
\* handler has nothing to do: the parent sleeps.
Asleep ==
  /\ installed /\ In("running") = {} /\ ~pending /\ handler = "out"
  /\ UNCHANGED sigVars

SigNext ==
  \/ \E c \in Children : Fork(c) \/ Exit(c)
  \/ Sigaction
  \/ Deliver
  \/ Reap
  \/ ReapNone
  \/ Return
  \/ Asleep

\* The parent runs on, each child ends (its loop has one turn), and a pending
\* unmasked signal is delivered.
SigFairness ==
  /\ \A c \in Children : WF_sigVars(Fork(c)) /\ WF_sigVars(Exit(c))
  /\ WF_sigVars(Sigaction) /\ WF_sigVars(Deliver) /\ WF_sigVars(Reap)
  /\ WF_sigVars(ReapNone) /\ WF_sigVars(Return)

SigSpec == SigInit /\ [][SigNext]_sigVars /\ SigFairness

------------------------------------------------------------------------------
(* Properties.                                                             *)

\* What the while loop is there for (sigchld.c:19-21): although the signals of
\* several children merge into one, every child that exits once the handler is
\* installed is reaped, and with it those that had ended before sigaction, because
\* the loop takes every zombie it finds and an exit during it is signalled again.
OneLateExitReapsAll ==
  (installed /\ In("running") # {}) ~> (In("zombie") = {} /\ In("running") = {})

\* The comments at sigchld.c:33 and 55 say that SIGCHLD is blocked from before the
\* first fork until the handler is installed; then every child is reaped.
EveryChildReaped == <>[](In("reaped") = Children)
==============================================================================
