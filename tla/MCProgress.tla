----------------------------- MODULE MCProgress ------------------------------
(***************************************************************************)
(* TLC instance of the programs in which something must happen.  They      *)
(* share nothing: one of them is chosen at the start and runs, and the     *)
(* state of the others stays as it is.                                     *)
(*                                                                         *)
(* SemBuffer passes its ring more than twice, and a second run follows a   *)
(* crash at any point of the first one.                                    *)
(***************************************************************************)
EXTENDS SemBuffer, RwLock, SigChld, AtModem

VARIABLE program

progVars == <<program, vars, rwVars, sigVars, atVars>>

ProgInit ==
  /\ program \in {"sem_pc", "rwlock", "sigchld", "mat"}
  /\ program # "mat" => api = "get_sim"
  /\ Init /\ RwInit /\ SigInit /\ AtInit

Sem == program = "sem_pc" /\ Next /\ UNCHANGED <<program, rwVars, sigVars, atVars>>
Rw == program = "rwlock" /\ RwNext /\ UNCHANGED <<program, vars, sigVars, atVars>>
Sig == program = "sigchld" /\ SigNext /\ UNCHANGED <<program, vars, rwVars, atVars>>
Mat == program = "mat" /\ AtNext /\ UNCHANGED <<program, vars, rwVars, sigVars>>

ProgNext == Sem \/ Rw \/ Sig \/ Mat

\* The fairness of SemBuffer's FairSpec, RwFairness, SigFairness and AtFairness, each for
\* the steps of its program when that is the one that runs.
ProgFairness ==
  /\ WF_vars(program = "sem_pc" /\ ProducerStep)
  /\ WF_vars(program = "sem_pc" /\ ConsumerStep)
  /\ WF_vars(program = "sem_pc" /\ MainStep)
  /\ \A t \in Threads : /\ WF_rwVars(program = "rwlock" /\ ThreadSteps(t))
                        /\ SF_rwVars(program = "rwlock" /\ Acquire(t))
  /\ []<>(program = "rwlock" => \A t \in Threads : tpc[t] # "hold")
  /\ WF_rwVars(program = "rwlock" /\ (MainStarts \/ MainCancels \/ MainJoins))
  /\ \A c \in Children : /\ WF_sigVars(program = "sigchld" /\ Fork(c))
                         /\ WF_sigVars(program = "sigchld" /\ Exit(c))
  /\ WF_sigVars(program = "sigchld" /\ (Sigaction \/ Reap \/ ReapNone \/ Return))
  /\ WF_sigVars(program = "sigchld" /\ Deliver)
  /\ WF_atVars(program = "mat" /\ DriverStep)
  /\ WF_atVars(program = "mat" /\ Arrive)

ProgSpec == ProgInit /\ [][ProgNext]_progVars /\ ProgFairness

\* CleanRunEnds of SemBuffer, in the behaviours in which that program runs
\* (sem_pc.c:51-89).
OwnRunEnds == program = "sem_pc" => CleanRunEnds

\* MainEnds of RwLock, in the behaviours in which that program runs (rwlock.c:54-65).
LockDemoEnds == program = "rwlock" => MainEnds

\* OneLateExitReapsAll of SigChld, in the behaviours in which that program runs
\* (sigchld.c:19-21).
LateExitReapsAll == program = "sigchld" => OneLateExitReapsAll

\* Resyncs of AtModem, in the behaviours in which that program runs (mat.c:63).
DriverResyncs == program = "mat" => Resyncs
==============================================================================
