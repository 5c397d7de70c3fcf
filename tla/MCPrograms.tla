----------------------------- MODULE MCPrograms -----------------------------
(***************************************************************************)
(* TLC instance of the programs and libraries of which only safety is      *)
(* asked.  They share nothing, but for the dates of the GPS reader: one of *)
(* them is chosen at the start and runs, and the state of the others stays *)
(* as it is.                                                               *)
(***************************************************************************)
EXTENDS KvFile, SqlStore, BeijingTime, MsgQueue, Codec, MCJson, MCJsonPatch,
        SerialLine, SerialTool, ForkServer, EpollBlock, GpsFix

\* What an older line may have left in tx_buf behind the one typed.
MCTails == {<<32>>, <<49, 32>>, <<49, 65, 32>>, <<120, 49, 65, 10, 0, 32>>}

MCRequests ==
  {[speed |-> 9600, bits |-> 8, parity |-> "n", stop |-> 1]}
    \union [speed : {115200, 9600, 7}, bits : {7, 9}, parity : {"N", "o", "e", "s", "x"}, stop : {2}]

\* A whole RMC of each of two moments, one without its date and one without its time,
\* one without a position, one that is not valid; a GGA with and without a fix.
MCRmcSentences ==
  LET rmc(st, h, lat, lon, d) ==
        <<h, <<st>>, lat, IF lat = EMPTY THEN EMPTY ELSE <<"N">>, lon,
          IF lon = EMPTY THEN EMPTY ELSE <<"E">>, <<1>>, EMPTY, d, EMPTY, EMPTY, <<"N">>>>
      here == <<31143000>>
      there == <<121285020>>
  IN  {rmc("A", <<15>>, here, there, <<28, 2, 20>>), rmc("A", <<16>>, there, here, <<31, 12, 99>>),
       rmc("A", <<16>>, here, there, EMPTY), rmc("A", EMPTY, <<5960>>, <<9500>>, <<28, 2, 19>>),
       rmc("A", <<23>>, EMPTY, EMPTY, <<29, 2, 20>>), rmc("V", <<17>>, there, here, <<1, 3, 20>>)}

MCGgaSentences ==
  {<<EMPTY, EMPTY, EMPTY, EMPTY, EMPTY, <<q>>, sats, <<9>>, height, EMPTY>> :
     q \in 0..1, sats \in {EMPTY, <<7>>}, height \in {<<5>>, <<40>>}}

VARIABLE program

vars ==
  <<program, kvVars, sqlVars, btVars, mqVars, cVars, jtVars, jpVars, mkVars, slVars,
    stVars, fsVars, ebVars, gfVars>>

Init ==
  /\ program \in {"parsekv", "sqlite", "utc2btc", "msg_queue", "codec", "json_text",
                  "json_patch", "mkey", "serial_line", "serial_tool", "fork_server",
                  "epoll_block", "gps_fix"}
  /\ program # "parsekv" => /\ file = << >>
                            /\ kvkey = CHOOSE k \in Keys : TRUE
                            /\ kvval = CHOOSE v \in Values : TRUE
  /\ program # "serial_line" => /\ user = "muart" /\ tty = Default /\ forgetful = FALSE
                                /\ asked = CHOOSE r \in Requests : TRUE
  /\ program # "msg_queue" => older = FALSE
  /\ program # "serial_tool" => tool = "init_uart" /\ hex = TRUE
  /\ program # "fork_server" => service = "time"
  /\ program # "epoll_block" => mode = [edge |-> TRUE, block |-> FALSE]
  /\ KvInit /\ SqlInit /\ BtInit /\ MqInit /\ CodecInit /\ JtInit
     /\ JpInit /\ MkInit /\ SlInit /\ StInit /\ FsInit /\ EbInit /\ GfInit

Kv ==
  /\ program = "parsekv" /\ KvNext
  /\ UNCHANGED <<program, sqlVars, btVars, mqVars, cVars, jtVars, jpVars, mkVars,
                 slVars, stVars, fsVars, ebVars, fixVars>>

Sql ==
  /\ program = "sqlite" /\ SqlNext
  /\ UNCHANGED <<program, kvVars, btVars, mqVars, cVars, jtVars, jpVars, mkVars,
                 slVars, stVars, fsVars, ebVars, fixVars>>

Bt ==
  /\ program = "utc2btc" /\ BtNext
  /\ UNCHANGED <<program, kvVars, sqlVars, mqVars, cVars, jtVars, jpVars, mkVars,
                 slVars, stVars, fsVars, ebVars, fixVars>>

Mq ==
  /\ program = "msg_queue" /\ MqNext
  /\ UNCHANGED <<program, kvVars, sqlVars, btVars, cVars, jtVars, jpVars, mkVars,
                 slVars, stVars, fsVars, ebVars, fixVars>>

Cd ==
  /\ program = "codec" /\ CodecNext
  /\ UNCHANGED <<program, kvVars, sqlVars, btVars, mqVars, jtVars, jpVars, mkVars,
                 slVars, stVars, fsVars, ebVars, fixVars>>

Jt ==
  /\ program = "json_text" /\ JtNext
  /\ UNCHANGED <<program, kvVars, sqlVars, btVars, mqVars, cVars, jpVars, mkVars,
                 slVars, stVars, fsVars, ebVars, fixVars>>

Jp ==
  /\ program = "json_patch" /\ JpNext
  /\ UNCHANGED <<program, kvVars, sqlVars, btVars, mqVars, cVars, jtVars, mkVars,
                 slVars, stVars, fsVars, ebVars, fixVars>>

Mk ==
  /\ program = "mkey" /\ MkNext
  /\ UNCHANGED <<program, kvVars, sqlVars, btVars, mqVars, cVars, jtVars, jpVars,
                 slVars, stVars, fsVars, ebVars, fixVars>>

Sl ==
  /\ program = "serial_line" /\ SlNext
  /\ UNCHANGED <<program, kvVars, sqlVars, btVars, mqVars, cVars, jtVars, jpVars,
                 mkVars, stVars, fsVars, ebVars, fixVars>>

St ==
  /\ program = "serial_tool" /\ StNext
  /\ UNCHANGED <<program, kvVars, sqlVars, btVars, mqVars, cVars, jtVars, jpVars,
                 mkVars, slVars, fsVars, ebVars, fixVars>>

Fs ==
  /\ program = "fork_server" /\ FsNext
  /\ UNCHANGED <<program, kvVars, sqlVars, btVars, mqVars, cVars, jtVars, jpVars,
                 mkVars, slVars, stVars, ebVars, fixVars>>

Eb ==
  /\ program = "epoll_block" /\ EbNext
  /\ UNCHANGED <<program, kvVars, sqlVars, btVars, mqVars, cVars, jtVars, jpVars,
                 mkVars, slVars, stVars, fsVars, fixVars>>

Gf ==
  /\ program = "gps_fix" /\ GfNext
  /\ UNCHANGED <<program, kvVars, sqlVars, mqVars, cVars, jtVars, jpVars, mkVars,
                 slVars, stVars, fsVars, ebVars>>

Next == Kv \/ Sql \/ Bt \/ Mq \/ Cd \/ Jt \/ Jp \/ Mk \/ Sl \/ St \/ Fs \/ Eb \/ Gf

Spec == Init /\ [][Next]_vars
=============================================================================
