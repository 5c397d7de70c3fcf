------------------------------- MODULE KvFile -------------------------------
(***************************************************************************)
(* parsekv.c: a file of key=value lines that file_get_value reads and      *)
(* file_update_value rewrites, by processes that follow each other and may *)
(* be killed at any point.  A line is a key and its value; blanks and the  *)
(* search within a line are left out.  The last line may lack its newline, *)
(* as in a file written by hand.                                           *)
(***************************************************************************)
EXTENDS Naturals, Sequences, FiniteSets, SequencesExt

CONSTANTS
  Keys, Values,
  DAMAGED,   \* the value of a line that was cut off or had another one appended to it
  MaxOpen    \* files a process may have open

ASSUME KvAssumption == DAMAGED \notin Values /\ MaxOpen \in Nat \ {0}

VARIABLES
  file,      \* its lines
  ended,     \* the last line ends with a newline
  kvpc,      \* "rest" between calls, or where an update is: "read", "append", "closed", "trunc"
  kvkey, kvval,  \* the arguments of the update under way
  filebuf,   \* the lines it is going to write
  opened,    \* files the process has open
  want,      \* history: what completed updates say of each key
  spoiled    \* history: why the file may be otherwise: "torn", "joined"

kvVars == <<file, ended, kvpc, kvkey, kvval, filebuf, opened, want, spoiled>>

MISSING == "MISSING"

Found(f, k) == SelectInSeq(f, LAMBDA l : l[1] = k)
ValueOf(f, k) == IF Found(f, k) = 0 THEN MISSING ELSE f[Found(f, k)][2]

KvInit ==
  /\ file \in {<< >>} \union {<<<<k, v>>>> : k \in Keys, v \in Values}
  /\ ended \in BOOLEAN /\ (file = << >> => ended)
  /\ kvpc = "rest" /\ kvkey \in Keys /\ kvval \in Values
  /\ filebuf = << >> /\ opened = 0
  /\ want = [k \in Keys |-> ValueOf(file, k)]
  /\ spoiled = {}

\* The early return for a key that is not there leaves the file open.
GetMissing(k) ==
  /\ kvpc = "rest" /\ opened < MaxOpen
  /\ Found(file, k) = 0
  /\ opened' = opened + 1
  /\ UNCHANGED <<file, ended, kvpc, kvkey, kvval, filebuf, want, spoiled>>

UpdateOpen(k, v) ==
  /\ kvpc = "rest" /\ opened < MaxOpen
  /\ kvpc' = "read" /\ kvkey' = k /\ kvval' = v
  /\ opened' = opened + 1
  /\ UNCHANGED <<file, ended, filebuf, want, spoiled>>

\* malloc fails: the file stays open.
UpdateNoMemory ==
  /\ kvpc = "read"
  /\ kvpc' = "rest"
  /\ UNCHANGED <<file, ended, kvkey, kvval, filebuf, opened, want, spoiled>>

\* Mutant of Changed: only lines before the key are copied.
ChangedShort(f, k, v) == [i \in 1..Found(f, k) |-> IF f[i][1] = k THEN <<k, v>> ELSE f[i]]

Changed(f, k, v) == [i \in DOMAIN f |-> IF f[i][1] = k THEN <<k, v>> ELSE f[i]]

UpdateRead ==
  /\ kvpc = "read"
  /\ IF Found(file, kvkey) = 0
     THEN kvpc' = "append" /\ UNCHANGED <<filebuf, opened>>
     ELSE /\ kvpc' = "closed" /\ opened' = opened - 1
          /\ filebuf' = Changed(file, kvkey, kvval)
  /\ UNCHANGED <<file, ended, kvkey, kvval, want, spoiled>>

\* The new line is written where the file ends, newline or not.
UpdateAppend ==
  /\ kvpc = "append"
  /\ IF ended
     THEN /\ file' = Append(file, <<kvkey, kvval>>)
          /\ want' = [want EXCEPT ![kvkey] = kvval]
          /\ UNCHANGED spoiled
     ELSE /\ file' = [file EXCEPT ![Len(file)][2] = DAMAGED]
          /\ spoiled' = spoiled \union {"joined"}
          /\ UNCHANGED want
  /\ ended' = TRUE
  /\ opened' = opened - 1 /\ kvpc' = "rest"
  /\ UNCHANGED <<kvkey, kvval, filebuf>>

\* fopen with "w+" empties the file, or fails.
UpdateTruncate ==
  /\ kvpc = "closed"
  /\ \/ kvpc' = "trunc" /\ file' = << >> /\ opened' = opened + 1
        /\ ended' = (ended \/ Found(filebuf, kvkey) = Len(filebuf))
     \/ kvpc' = "rest" /\ UNCHANGED <<file, opened, ended>>
  /\ UNCHANGED <<kvkey, kvval, filebuf, want, spoiled>>

UpdateWrite ==
  /\ kvpc = "trunc"
  /\ file' = filebuf
  /\ want' = [want EXCEPT ![kvkey] = kvval]
  /\ opened' = opened - 1 /\ kvpc' = "rest"
  /\ UNCHANGED <<ended, kvkey, kvval, filebuf, spoiled>>

\* The process ends or is killed, and another one begins.  What was being written
\* may be there in part, the last line of it without its end.
KvRestart ==
  /\ kvpc' = "rest" /\ opened' = 0
  /\ IF kvpc = "trunc"
     THEN \E n \in 0..Len(filebuf), cut \in BOOLEAN :
            /\ cut => n > 0
            /\ file' = [i \in 1..n |-> IF cut /\ i = n THEN <<filebuf[i][1], DAMAGED>> ELSE filebuf[i]]
            /\ ended' = (~cut /\ (n < Len(filebuf) \/ ended))
            /\ want' = [want EXCEPT ![kvkey] = kvval]
            /\ spoiled' = spoiled \union {"torn"}
     ELSE UNCHANGED <<file, ended, want, spoiled>>
  /\ UNCHANGED <<kvkey, kvval, filebuf>>

KvNext ==
  \/ \E k \in Keys : GetMissing(k) \/ \E v \in Values : UpdateOpen(k, v)
  \/ UpdateNoMemory
  \/ UpdateRead
  \/ UpdateAppend
  \/ UpdateTruncate
  \/ UpdateWrite
  \/ KvRestart

KvSpec == KvInit /\ [][KvNext]_kvVars

\* Between two calls every key has the value of the last update that reached the
\* file (parsekv.c:227, 234, 241), through failures and restarts.  A process killed
\* between truncating the file and closing it may cost any key its line, but brings
\* no old value back; only a line appended to one without a newline does worse.
KvKeepsUpdates ==
  kvpc = "rest" /\ "joined" \notin spoiled =>
    \A k \in Keys :
      \/ ValueOf(file, k) = want[k]
      \/ "torn" \in spoiled /\ ValueOf(file, k) \in {MISSING, DAMAGED}
=============================================================================
