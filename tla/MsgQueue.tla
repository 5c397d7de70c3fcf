------------------------------ MODULE MsgQueue ------------------------------
(***************************************************************************)
(* ipc/queue/msg_queue.c: System V messages sent with retries and received *)
(* in three ways: polling until a time has passed, once, or blocking; and  *)
(* its older version bak/mmsg.c, which sends only if there is room, all    *)
(* messages with one type and one length, and receives blocking.           *)
(*                                                                         *)
(* The queue is the kernel's: msgrcv takes the first message of the type   *)
(* asked for (of any type for 0), and fails without taking one that is     *)
(* longer than the buffer.  A message is its type, its length and, to tell *)
(* it from the others, its number.                                         *)
(***************************************************************************)
EXTENDS Naturals, Sequences, SequencesExt

CONSTANTS
  Types,      \* message types, positive
  Lengths,    \* lengths of messages
  BufLen,     \* length of the receivers' buffers
  Receivers,
  QueueCap,   \* messages the kernel keeps
  Retries,    \* count in msq_send, 3
  Polls,      \* count in msq_recv_timeout
  MaxSent     \* messages sent in all

ASSUME MqAssumption ==
  /\ Types \subseteq Nat \ {0} /\ Types # {} /\ Lengths \subseteq Nat
  /\ {BufLen, QueueCap, Retries, Polls, MaxSent} \subseteq Nat

VARIABLES
  older,      \* the programs that use the queue are those of bak/
  mqueue,     \* the messages in the queue
  removed,    \* msgctl has removed it
  sending,    \* the message msq_send works on, or << >>
  tries,      \* times it has left to try
  receiving,  \* per receiver: "no", "poll" or "block", or "receive" in msg_queue_receive
  mtype,      \* per receiver: the type it asks for, 0 when it does not
  count,      \* per receiver: polls left
  sent,       \* history: the messages msq_send returned 0 for
  given,      \* history: the messages receivers were given, in order
  lost        \* history: the messages taken from the queue and not given to anyone

mqVars == <<older, mqueue, removed, sending, tries, receiving, mtype, count, sent, given, lost>>

\* msgget, and in bak/ msgctl sets how much the queue may hold.
msg_queue_init == mqueue = << >> /\ removed = FALSE

MqInit ==
  /\ older \in BOOLEAN
  /\ msg_queue_init
  /\ sending = << >> /\ tries = 0
  /\ receiving = [r \in Receivers |-> "no"]
  /\ mtype = [r \in Receivers |-> 0] /\ count = [r \in Receivers |-> 0]
  /\ sent = << >> /\ given = << >> /\ lost = {}

msq_send(t, n) ==
  /\ ~older /\ sending = << >> /\ Len(sent) < MaxSent
  /\ sending' = <<[type |-> t, len |-> n, no |-> Len(sent) + 1]>>
  /\ tries' = Retries
  /\ UNCHANGED <<older, mqueue, removed, receiving, mtype, count, sent, given, lost>>

\* Mutant of Sent: the loop goes on although msgsnd succeeded.
SentAgain ==
  /\ sending # << >> /\ tries > 0 /\ ~removed /\ Len(mqueue) < QueueCap
  /\ mqueue' = mqueue \o sending
  /\ tries' = tries - 1
  /\ IF tries = 1 THEN sending' = << >> /\ sent' = sent \o sending ELSE UNCHANGED <<sending, sent>>
  /\ UNCHANGED <<older, removed, receiving, mtype, count, given, lost>>

\* msgsnd waits for room.
Sent ==
  /\ sending # << >> /\ tries > 0 /\ ~removed /\ Len(mqueue) < QueueCap
  /\ mqueue' = mqueue \o sending
  /\ sent' = sent \o sending
  /\ sending' = << >> /\ tries' = 0
  /\ UNCHANGED <<older, removed, receiving, mtype, count, given, lost>>

\* A signal interrupts it, or the queue is gone; after the last try msq_send fails.
SendFails ==
  /\ sending # << >> /\ tries > 0
  /\ tries' = tries - 1
  /\ sending' = IF tries = 1 THEN << >> ELSE sending
  /\ UNCHANGED <<older, mqueue, removed, receiving, mtype, count, sent, given, lost>>

\* Where the message is that msgrcv takes, or 0.
Found1st(t) == SelectInSeq(mqueue, LAMBDA m : t = 0 \/ m.type = t)
Fits(t) == ~removed /\ Found1st(t) # 0 /\ mqueue[Found1st(t)].len <= BufLen
Message(t) == mqueue[Found1st(t)]

Give(t) == given' = Append(given, Message(t)) /\ UNCHANGED lost
Lose(t) == lost' = lost \union {Message(t)} /\ UNCHANGED given
Take(t) == mqueue' = RemoveAt(mqueue, Found1st(t)) /\ UNCHANGED <<older, removed, sending, tries, sent>>
NotTaken == UNCHANGED <<older, mqueue, removed, sending, tries, sent, given, lost>>

Waits(r, how, t, n) ==
  /\ receiving' = [receiving EXCEPT ![r] = how]
  /\ mtype' = [mtype EXCEPT ![r] = t] /\ count' = [count EXCEPT ![r] = n]
Returns(r) == Waits(r, "no", 0, 0)

msq_recv_timeout(r, t) ==
  /\ ~older /\ receiving[r] = "no"
  /\ Waits(r, "poll", t, Polls)
  /\ NotTaken

\* A message of length 0 is taken for none.
PollTakes(r) ==
  /\ receiving[r] = "poll" /\ count[r] > 0 /\ Fits(mtype[r])
  /\ Take(mtype[r])
  /\ IF Message(mtype[r]).len > 0
     THEN Give(mtype[r]) /\ Returns(r)
     ELSE Lose(mtype[r]) /\ Waits(r, "poll", mtype[r], count[r] - 1)

PollFails(r) ==
  /\ receiving[r] = "poll" /\ count[r] > 0 /\ ~Fits(mtype[r])
  /\ Waits(r, "poll", mtype[r], count[r] - 1)
  /\ NotTaken

PollEnds(r) ==
  /\ receiving[r] = "poll" /\ count[r] = 0
  /\ Returns(r)
  /\ NotTaken

\* Length 0 is an answer here; a failure changes nothing.
msq_recv_noblock(r, t) ==
  /\ ~older /\ receiving[r] = "no" /\ Fits(t)
  /\ Take(t) /\ Give(t)
  /\ UNCHANGED <<receiving, mtype, count>>

msq_recv_block(r, t) ==
  /\ ~older /\ receiving[r] = "no"
  /\ Waits(r, "block", t, 0)
  /\ NotTaken

\* Length 0 is a failure here.
BlockTakes(r) ==
  /\ receiving[r] = "block" /\ Fits(mtype[r])
  /\ Take(mtype[r]) /\ Returns(r)
  /\ IF Message(mtype[r]).len > 0 THEN Give(mtype[r]) ELSE Lose(mtype[r])

\* A signal, a message too long, or the queue is removed.
BlockFails(r) ==
  /\ receiving[r] = "block"
  /\ Returns(r)
  /\ NotTaken

\* MSG_TYPE, and a buffer as long as every message.
OldMessage == [type |-> CHOOSE t \in Types : TRUE, len |-> BufLen, no |-> Len(sent) + 1]

\* With IPC_NOWAIT it fails where there is no room, and only a signal has it try again.
msg_queue_send ==
  /\ older /\ Len(sent) < MaxSent /\ ~removed /\ Len(mqueue) < QueueCap
  /\ mqueue' = Append(mqueue, OldMessage) /\ sent' = Append(sent, OldMessage)
  /\ UNCHANGED <<older, removed, sending, tries, receiving, mtype, count, given, lost>>

msg_queue_receive(r) ==
  /\ older /\ receiving[r] = "no"
  /\ Waits(r, "receive", OldMessage.type, 0)
  /\ NotTaken

\* Any length is an answer here.
ReceiveTakes(r) ==
  /\ receiving[r] = "receive" /\ Fits(mtype[r])
  /\ Take(mtype[r]) /\ Give(mtype[r]) /\ Returns(r)

\* Not a signal: the queue is gone.
ReceiveFails(r) ==
  /\ receiving[r] = "receive" /\ removed
  /\ Returns(r)
  /\ NotTaken

\* Or ipcrm, for the programs of bak/.
msq_close ==
  /\ ~removed
  /\ removed' = TRUE /\ mqueue' = << >>
  /\ UNCHANGED <<older, sending, tries, receiving, mtype, count, sent, given, lost>>

MqNext ==
  \/ \E t \in Types, n \in Lengths : msq_send(t, n)
  \/ Sent
  \/ SendFails
  \/ \E r \in Receivers :
       \/ \E t \in Types \union {0} :
            \/ msq_recv_timeout(r, t)
            \/ msq_recv_noblock(r, t)
            \/ msq_recv_block(r, t)
       \/ PollTakes(r)
       \/ PollFails(r)
       \/ PollEnds(r)
       \/ BlockTakes(r)
       \/ BlockFails(r)
       \/ msg_queue_receive(r)
       \/ ReceiveTakes(r)
       \/ ReceiveFails(r)
  \/ msg_queue_send
  \/ msq_close

MqSpec == MqInit /\ [][MqNext]_mqVars

\* What was taken from the queue and handed out, and behind it what is still to be.
Out == given \o mqueue

\* Through retries, interrupted calls, messages too long and receivers that race for
\* them, each message msq_send reported is given out once and in the order of its type
\* (msg_queue.c:44, 77, 105, 126), except those of length 0, which two of the three
\* ways to receive take from the queue and report as a failure (msg_queue.c:78, 126).
\* When the queue is removed the last ones of each type may be gone with it.
MessagesGivenOnce ==
  /\ \A m \in lost : m.len = 0
  /\ \A i, j \in 1..Len(Out) : i < j /\ Out[i].type = Out[j].type => Out[i].no < Out[j].no
  /\ \A i \in 1..Len(Out) : Out[i] \notin lost /\ Out[i].no \in 1..Len(sent) /\ sent[Out[i].no] = Out[i]
  /\ \A n \in 1..Len(sent) :
       \/ sent[n] \in lost
       \/ \E i \in 1..Len(Out) : Out[i] = sent[n]
       \/ removed /\ \A i \in 1..Len(Out) : Out[i].type = sent[n].type => Out[i].no < n
=============================================================================
