------------------------------ MODULE KafkaServer ------------------------------
(***************************************************************************)
(* The message hub of internal/service/chat in Kafka mode: Read publishes  *)
(* every frame to a topic, the reader goroutine of KafkaServer.Start takes *)
(* them back one by one, stores a row and pushes them under the mutex, and *)
(* the Start loop registers the connections that log in over an unbuffered *)
(* channel.  The process may crash and start again: the topic, the offset  *)
(* the group committed and the rows survive it, nothing else does.         *)
(*                                                                         *)
(* The Logout branch of the loop has no caller: ClientLogout looks a user  *)
(* up in the map of the other mode, finds nobody and answers that all is   *)
(* well.  The lists of messages in Redis are extended only when they exist *)
(* and nothing creates them.  Both are left out.                           *)
(***************************************************************************)
EXTENDS Queues, Integers, FiniteSets

CONSTANTS
  Users, Conns,   \* user ids; websocket connections (Client objects)
  Owner,          \* Owner[c]: the user connection c logs in
  Group,          \* a group id ...
  Members,        \* ... and its member list
  Talk,           \* bound: the kinds and addressees the n-th frame of c may have: Talk[c][n]
  ChannelSize,    \* CHANNEL_SIZE, of every SendBack
  Partitions,     \* number of partitions of the topic
  HashOfKey,      \* the partition the constant key of Read hashes to
  MaxCrashes,     \* bound: crashes of the process
  MaxReadErrors,  \* bound: ReadMessage answers with an error
  Breaks,         \* connections whose peer may vanish
  None            \* nil

FrameKinds == {"text", "file", "call"}

ASSUME KafkaAssumption ==
  /\ Owner \in [Conns -> Users]
  /\ Members \in Seq(Users)
  /\ Group \notin Users /\ None \notin Users \cup Conns \cup {Group}
  /\ Talk \in [Conns -> Seq(SUBSET (FrameKinds \X (Users \cup {Group})))]
  /\ ChannelSize \in Nat \ {0}
  /\ Partitions \in Nat /\ HashOfKey \in 1..Partitions
  /\ MaxCrashes \in Nat /\ MaxReadErrors \in Nat
  /\ Breaks \subseteq Conns

VARIABLES
  topic,               \* the log of each partition
  position,            \* the next offset to fetch, per partition
  asked, committed,    \* offset ReadMessage asked to commit; that of the broker; -1: none yet
  Clients,             \* the map from a user to its connection, None if absent
  mutex,               \* who holds KafkaServer.mutex
  start,               \* the login loop: the connection in hand, None in select
  consumer,            \* the goroutine that reads the topic
  reader, writer,      \* NewClientInit then Read; Write - per connection
  socket,              \* Conn: open, broken
  SendBack,            \* the channel to the writer of a connection
  db,                  \* message rows, and those with status Sent
  frames,              \* number of frames read so far, per connection
  life, readErrors,    \* crashes, and errors of ReadMessage, so far
  skipped,             \* history: records a restart without a committed offset passed over
  handled,             \* history: records the consumer took up, with the life it did
  due, written         \* history: who was online at dispatch; what reached each socket

brokerVars == <<topic, position, asked, committed>>
connVars   == <<reader, writer, socket, SendBack, frames>>
faults     == <<life, readErrors, skipped>>
history    == <<handled, due, written>>
vars == <<brokerVars, Clients, mutex, start, consumer, connVars, db, faults, history>>

NoMsg == [conn |-> None, n |-> 0, kind |-> "none", to |-> None]
Msg   == [conn : Conns, n : Nat \ {0}, kind : FrameKinds, to : Users \cup {Group}]
From(m) == Owner[m.conn]
InLife(m) == [msg |-> m, life |-> life]

\* Who can hold the mutex.
Free     == <<"free">>
Consumer == <<"consumer">>
R(c)     == <<"conn", c>>

Idle == [pc |-> "read", item |-> NoMsg, todo |-> <<>>]

Init ==
  /\ topic = [p \in 1..Partitions |-> <<>>]
  /\ position = [p \in 1..Partitions |-> 0]
  /\ asked = [p \in 1..Partitions |-> -1]
  /\ committed = [p \in 1..Partitions |-> -1]
  /\ Clients = [u \in Users |-> None]
  /\ mutex = Free /\ start = None /\ consumer = Idle
  /\ reader = [c \in Conns |-> [pc |-> "new", frame |-> NoMsg]]
  /\ writer = [c \in Conns |-> [pc |-> "off", hand |-> NoMsg]]
  /\ socket = [c \in Conns |-> "open"]
  /\ SendBack = [c \in Conns |-> <<>>]
  /\ db = [stored |-> {}, sent |-> {}]
  /\ frames = [c \in Conns |-> 0]
  /\ life = 0 /\ readErrors = 0 /\ skipped = {}
  /\ handled = {} /\ due = {} /\ written = [c \in Conns |-> <<>>]
-----------------------------------------------------------------------------
(* Logging in: NewClientInit and the loop of Start                           *)

SetReader(c, pc) == reader' = [reader EXCEPT ![c].pc = pc]

\* A browser opens a websocket.
Connect(c) ==
  /\ reader[c].pc = "new"
  /\ SetReader(c, "lock")
  /\ UNCHANGED <<brokerVars, Clients, mutex, start, consumer, writer, socket, SendBack, frames,
                 db, faults, history>>

LockLogin(c) ==
  /\ reader[c].pc = "lock"
  /\ mutex = Free
  /\ mutex' = R(c)
  /\ SetReader(c, "login")
  /\ UNCHANGED <<brokerVars, Clients, start, consumer, writer, socket, SendBack, frames, db,
                 faults, history>>

\* The channel has no buffer: the request keeps the mutex until the loop is back
\* in its select.  It then unlocks, and Read and Write start - before the loop has
\* locked the mutex and put the connection into the map.
SendClientToLogin(c) ==
  /\ reader[c].pc = "login"
  /\ start = None
  /\ start' = c
  /\ mutex' = Free
  /\ SetReader(c, "read")
  /\ writer' = [writer EXCEPT ![c].pc = "range"]
  /\ UNCHANGED <<brokerVars, Clients, consumer, socket, SendBack, frames, db, faults, history>>

AddClient ==
  /\ start # None
  /\ mutex = Free
  /\ Clients' = [Clients EXCEPT ![Owner[start]] = start]
  /\ start' = None
  /\ UNCHANGED <<brokerVars, mutex, consumer, connVars, db, faults, history>>
-----------------------------------------------------------------------------
(* A connection: Read and Write                                              *)

\* What a browser sends; the sender of the message is the owner of the connection.
Frames(c) ==
  LET n == frames[c] + 1
  IN  {[conn |-> c, n |-> n, kind |-> kt[1], to |-> kt[2]] : kt \in Talk[c][n]}

ReadFrame(c) ==
  /\ reader[c].pc = "read"
  /\ socket[c] = "open"
  /\ frames[c] < Len(Talk[c])
  /\ \E m \in Frames(c) : reader' = [reader EXCEPT ![c] = [pc |-> "publish", frame |-> m]]
  /\ frames' = [frames EXCEPT ![c] = @ + 1]
  /\ UNCHANGED <<brokerVars, Clients, mutex, start, consumer, writer, socket, SendBack, db,
                 faults, history>>

\* The error ends Read; the connection stays in the map.
ReadFails(c) ==
  /\ reader[c].pc = "read"
  /\ socket[c] # "open"
  /\ SetReader(c, "done")
  /\ UNCHANGED <<brokerVars, Clients, mutex, start, consumer, writer, socket, SendBack, frames,
                 db, faults, history>>

\* Mutant: no key, the records go round the partitions.
PartitionByTurns(m) == (m.n % Partitions) + 1

\* Balancer Hash and a key that is the same for every frame.
PartitionOf(m) == HashOfKey

\* WriteMessages is synchronous, but asks the broker for no acknowledgement: the
\* frame is in the log when it returns, or lost.
Publish(c) ==
  LET m == reader[c].frame
  IN  /\ reader[c].pc = "publish"
      /\ \/ topic' = [topic EXCEPT ![PartitionOf(m)] = Append(@, m)]
         \/ UNCHANGED topic
      /\ reader' = [reader EXCEPT ![c] = [pc |-> "read", frame |-> NoMsg]]
      /\ UNCHANGED <<position, asked, committed, Clients, mutex, start, consumer, writer,
                     socket, SendBack, frames, db, faults, history>>

\* The peer vanishes: reads and writes on the socket fail from now on.
Disconnect(c) ==
  /\ c \in Breaks
  /\ socket[c] = "open"
  /\ reader[c].pc \in {"read", "publish"}
  /\ socket' = [socket EXCEPT ![c] = "broken"]
  /\ UNCHANGED <<brokerVars, Clients, mutex, start, consumer, reader, writer, SendBack, frames,
                 db, faults, history>>

TakeBack(c) ==
  /\ writer[c].pc = "range"
  /\ SendBack[c] # <<>>
  /\ writer' = [writer EXCEPT ![c] = [pc |-> "write", hand |-> Head(SendBack[c])]]
  /\ SendBack' = [SendBack EXCEPT ![c] = Tail(@)]
  /\ UNCHANGED <<brokerVars, Clients, mutex, start, consumer, reader, socket, frames, db, faults,
                 history>>

\* The frame is written and its row marked Sent; a failed write ends the goroutine
\* and nobody drains SendBack any more.
WriteBack(c) ==
  /\ writer[c].pc = "write"
  /\ IF socket[c] = "open"
       THEN LET m == writer[c].hand
            IN  /\ written' = [written EXCEPT ![c] = Append(@, m)]
                /\ db' = [db EXCEPT !.sent = @ \cup ({InLife(m)} \cap db.stored)]
                /\ writer' = [writer EXCEPT ![c] = [pc |-> "range", hand |-> NoMsg]]
       ELSE /\ writer' = [writer EXCEPT ![c].pc = "done"]
            /\ UNCHANGED <<written, db>>
  /\ UNCHANGED <<brokerVars, Clients, mutex, start, consumer, reader, socket, SendBack, frames,
                 faults, handled, due>>
-----------------------------------------------------------------------------
(* The goroutine that reads the topic                                        *)

\* ReadMessage returns the next record of some partition and queues the commit of
\* its offset, before the record is handled.
ReadMessage(p) ==
  /\ consumer.pc = "read"
  /\ position[p] < Len(topic[p])
  /\ position' = [position EXCEPT ![p] = @ + 1]
  /\ asked' = [asked EXCEPT ![p] = position[p] + 1]
  /\ consumer' = [Idle EXCEPT !.pc = "store", !.item = topic[p][position[p] + 1]]
  /\ UNCHANGED <<topic, committed, Clients, mutex, start, connVars, db, faults, history>>

\* Mutant: the end of the log is committed, not what was read.
CommitEnd(p) ==
  /\ asked[p] > committed[p]
  /\ committed' = [committed EXCEPT ![p] = Len(topic[p])]
  /\ UNCHANGED <<topic, position, asked, Clients, mutex, start, consumer, connVars, db, faults,
                 history>>

\* What was asked for reaches the broker at some later tick of CommitInterval.
Commit(p) ==
  /\ asked[p] > committed[p]
  /\ committed' = [committed EXCEPT ![p] = asked[p]]
  /\ UNCHANGED <<topic, position, asked, Clients, mutex, start, consumer, connVars, db, faults,
                 history>>

\* An error is only logged and the empty record handled: it decodes to a text
\* from nobody to nobody, whose row is stored; the index into its empty ReceiveId
\* panics, and the recover in the goroutine's defer is the goroutine's end.
ReadError ==
  /\ consumer.pc = "read"
  /\ readErrors < MaxReadErrors
  /\ readErrors' = readErrors + 1
  /\ db' = [db EXCEPT !.stored = @ \cup {InLife(NoMsg)}]
  /\ consumer' = [Idle EXCEPT !.pc = "dead"]
  /\ UNCHANGED <<brokerVars, Clients, mutex, start, connVars, life, skipped, history>>

\* Who a text is pushed to, in order: the receiver, then the echo to the sender;
\* the member list of a group.
TextTargets(m) ==
  CASE m.to \in Users -> <<m.to, From(m)>>
    [] m.to = Group   -> Members
    [] OTHER          -> <<>>

\* A file: whatever is not a user is taken for a group.
FileTargets(m) == IF m.to \in Users THEN <<m.to, From(m)>> ELSE Members

\* A call rings at the receiver alone, and not in a group.
CallTargets(m) == IF m.to \in Users THEN <<m.to>> ELSE <<>>

Targets(m) == CASE m.kind = "text" -> TextTargets(m)
                [] m.kind = "file" -> FileTargets(m)
                [] m.kind = "call" -> CallTargets(m)

\* The rows a record may leave: of the signals of a call only the start, the
\* answer and the refusal get one.
Rows(m) == IF m.kind = "call" THEN {{}, {InLife(m)}} ELSE {{InLife(m)}}

Store ==
  LET m == consumer.item
  IN  /\ consumer.pc = "store"
      /\ handled' = handled \cup {InLife(m)}
      /\ \E rows \in Rows(m) : db' = [db EXCEPT !.stored = @ \cup rows]
      /\ consumer' = IF Targets(m) = <<>> THEN Idle
                     ELSE [consumer EXCEPT !.pc = "lock", !.todo = Targets(m)]
      /\ UNCHANGED <<brokerVars, Clients, mutex, start, connVars, faults, due, written>>

Online(us) == {Clients[u] : u \in Ran(us)} \ {None}

\* While the consumer holds the mutex the map does not change: the connections
\* found in it now are the ones the message in hand is due to.
LockPush ==
  /\ consumer.pc = "lock"
  /\ mutex = Free
  /\ mutex' = Consumer
  /\ consumer' = [consumer EXCEPT !.pc = "push"]
  /\ due' = due \cup {<<consumer.item, c>> : c \in Online(consumer.todo)}
  /\ UNCHANGED <<brokerVars, Clients, start, connVars, db, faults, handled, written>>

\* Mutant: the last push leaves the mutex locked.
RestForgetsUnlock ==
  /\ consumer' = IF Len(consumer.todo) > 1 THEN [consumer EXCEPT !.todo = Tail(@)] ELSE Idle
  /\ UNCHANGED mutex

\* The end of the critical section is part of the last push.
Rest == IF Len(consumer.todo) > 1
          THEN consumer' = [consumer EXCEPT !.todo = Tail(@)] /\ UNCHANGED mutex
          ELSE consumer' = Idle /\ mutex' = Free

Echo == consumer.item.kind # "call" /\ Head(consumer.todo) = From(consumer.item)

\* Mutant: a full SendBack loses the message instead of holding up the consumer.
PushOrDrop ==
  /\ consumer.pc = "push"
  /\ LET c == Clients[Head(consumer.todo)]
     IN  /\ c = None => ~ Echo
         /\ SendBack' = IF c = None \/ Len(SendBack[c]) >= ChannelSize
                          THEN SendBack
                          ELSE [SendBack EXCEPT ![c] = Append(@, consumer.item)]
  /\ Rest
  /\ UNCHANGED <<brokerVars, Clients, start, reader, writer, socket, frames, db, faults, history>>

\* Mutant: the goroutine is left without the panic, and without the Unlock, when
\* the receiver is not in the map.
PushGivesUp ==
  /\ consumer.pc = "push"
  /\ LET c == Clients[Head(consumer.todo)]
     IN  \/ /\ c = None
            /\ consumer' = Idle
            /\ UNCHANGED <<SendBack, mutex>>
         \/ /\ c # None
            /\ Len(SendBack[c]) < ChannelSize
            /\ SendBack' = [SendBack EXCEPT ![c] = Append(@, consumer.item)]
            /\ Rest
  /\ UNCHANGED <<brokerVars, Clients, start, reader, writer, socket, frames, db, faults, history>>

\* A receiver may be offline.  Clients[SendId] is used without a look whether it is
\* there: the panic is recovered where the goroutine ends, so nothing is read any
\* more, and nobody unlocks the mutex.
Push ==
  /\ consumer.pc = "push"
  /\ LET c == Clients[Head(consumer.todo)]
     IN  \/ /\ c = None /\ ~ Echo
            /\ Rest
            /\ UNCHANGED SendBack
         \/ /\ c = None /\ Echo
            /\ consumer' = [consumer EXCEPT !.pc = "dead"]
            /\ UNCHANGED <<SendBack, mutex>>
         \/ /\ c # None
            /\ Len(SendBack[c]) < ChannelSize
            /\ SendBack' = [SendBack EXCEPT ![c] = Append(@, consumer.item)]
            /\ Rest
  /\ UNCHANGED <<brokerVars, Clients, start, reader, writer, socket, frames, db, faults, history>>
-----------------------------------------------------------------------------
(* The process dies and is started again                                     *)

\* The group goes on at the offset it committed, and at the end of the log where
\* it never committed one (StartOffset: LastOffset).  The connections of the old
\* life are gone; browsers come back on new ones.
Crash ==
  LET first(p) == IF committed[p] = -1 THEN Len(topic[p]) ELSE committed[p]
      opened   == {c \in Conns : reader[c].pc # "new"}
  IN  /\ life < MaxCrashes
      /\ life' = life + 1
      /\ position' = [p \in 1..Partitions |-> first(p)]
      /\ asked' = [p \in 1..Partitions |-> -1]
      /\ skipped' = skipped \cup
                      UNION {{p} \X (position[p] + 1 .. Len(topic[p])) :
                               p \in {q \in 1..Partitions : committed[q] = -1}}
      /\ Clients' = [u \in Users |-> None]
      /\ mutex' = Free /\ start' = None /\ consumer' = Idle
      /\ reader' = [c \in Conns |-> IF c \in opened THEN [pc |-> "done", frame |-> NoMsg]
                                                    ELSE reader[c]]
      /\ writer' = [c \in Conns |-> IF c \in opened THEN [pc |-> "done", hand |-> NoMsg]
                                                    ELSE writer[c]]
      /\ SendBack' = [c \in Conns |-> <<>>]
      /\ due' = {}
      /\ UNCHANGED <<topic, committed, socket, db, frames, readErrors, handled, written>>
-----------------------------------------------------------------------------
ConnStep(c) ==
  \/ Connect(c) \/ LockLogin(c) \/ SendClientToLogin(c)
  \/ ReadFrame(c) \/ ReadFails(c) \/ Publish(c)
WriterStep(c)  == TakeBack(c) \/ WriteBack(c)
ConsumerStep   == \/ \E p \in 1..Partitions : ReadMessage(p)
                  \/ Store \/ LockPush \/ Push

Next ==
  \/ AddClient
  \/ \E c \in Conns : ConnStep(c) \/ WriterStep(c) \/ Disconnect(c)
  \/ ConsumerStep
  \/ \E p \in 1..Partitions : Commit(p)
  \/ ReadError
  \/ Crash

Spec == Init /\ [][Next]_vars

\* Goroutines that can run do run.  Browsers need not write, errors and crashes
\* need not happen, and the broker need not have the commit in time.
Fairness ==
  /\ WF_vars(AddClient) /\ WF_vars(ConsumerStep)
  /\ \A c \in Conns : /\ WF_vars(LockLogin(c)) /\ WF_vars(SendClientToLogin(c))
                      /\ WF_vars(ReadFails(c)) /\ WF_vars(Publish(c)) /\ WF_vars(WriterStep(c))

FairSpec == Spec /\ Fairness
-----------------------------------------------------------------------------
(* Properties                                                                *)

\* What the order of delivery rests on, besides the code: nobody writes to himself,
\* and nobody is twice on the member list.
DistinctTargets ==
  /\ \A c \in Conns : \A n \in DOMAIN Talk[c] : \A kt \in Talk[c][n] : kt[2] # Owner[c]
  /\ NoDup(Members)

Row == [msg : Msg \cup {NoMsg}, life : Nat]

\* Types and bounds: offsets stay within the log, a SendBack within its capacity.
TypeOK ==
  /\ topic \in [1..Partitions -> Seq(Msg)]
  /\ position \in [1..Partitions -> Nat]
  /\ asked \in [1..Partitions -> Nat \cup {-1}]
  /\ committed \in [1..Partitions -> Nat \cup {-1}]
  /\ \A p \in 1..Partitions : /\ asked[p] <= position[p] /\ committed[p] <= position[p]
                              /\ position[p] <= Len(topic[p])
  /\ Clients \in [Users -> Conns \cup {None}]
  /\ mutex \in {Free, Consumer} \cup {R(c) : c \in Conns}
  /\ start \in Conns \cup {None}
  /\ consumer \in [pc : {"read", "store", "lock", "push", "dead"}, item : Msg \cup {NoMsg},
                   todo : Seq(Users)]
  /\ reader \in [Conns -> [pc : {"new", "lock", "login", "read", "publish", "done"},
                           frame : Msg \cup {NoMsg}]]
  /\ writer \in [Conns -> [pc : {"off", "range", "write", "done"}, hand : Msg \cup {NoMsg}]]
  /\ socket \in [Conns -> {"open", "broken"}]
  /\ SendBack \in [Conns -> Seq(Msg)]
  /\ \A c \in Conns : Len(SendBack[c]) <= ChannelSize
  /\ db \in [stored : SUBSET Row, sent : SUBSET Row]
  /\ frames \in [Conns -> Nat]
  /\ life \in 0..MaxCrashes /\ readErrors \in 0..MaxReadErrors
  /\ skipped \subseteq (1..Partitions) \X Nat
  /\ handled \subseteq Row
  /\ due \subseteq Msg \X Conns
  /\ written \in [Conns -> Seq(Msg)]

\* The mutex is held by a request on its way to the login loop, by the consumer
\* while it pushes, or for good by the consumer that panicked at an echo - and then
\* the sender it missed is never put into the map again.
MutexHeld ==
  \/ mutex = Free
  \/ \E c \in Conns : mutex = R(c) /\ reader[c].pc = "login"
  \/ mutex = Consumer /\ consumer.pc = "push"
  \/ mutex = Consumer /\ consumer.pc = "dead" /\ Clients[From(consumer.item)] = None

\* Everything on its way to a socket, oldest first.
Outgoing(c) ==
  written[c] \o (IF writer[c].pc = "write" THEN <<writer[c].hand>> ELSE <<>>) \o SendBack[c]

\* From socket to socket: what one connection sent arrives at another in the order
\* it was sent and once, through the topic, the consumer, the pushes and the writer,
\* and whatever is delivered again after a restart.
DeliveredInSendOrder ==
  \A c \in Conns : \A i, j \in 1..Len(Outgoing(c)) :
    LET out == Outgoing(c)
    IN  i < j /\ out[i].conn = out[j].conn => out[i].n < out[j].n

\* The records before the offsets pos, as pairs of a partition and a place in it.
Upto(pos) == UNION {{p} \X (1..pos[p]) : p \in 1..Partitions}

\* The records that were passed without being handled, in any life.
Lost == {pi \in Upto(position) \ skipped : ~ \E r \in handled : r.msg = topic[pi[1]][pi[2]]}

\* The commit is asked for before the record is handled, so a crash may lose a
\* record that was in the consumer's hands - one for each crash, and besides it only
\* what a restart without a committed offset passed over.
OneLostPerCrash == Cardinality(Lost) <= life + (IF consumer.pc = "store" THEN 1 ELSE 0)

\* A message is not lost for a user in the map when the consumer locks it: it has
\* been written, is on its way, was in the hands of a Write goroutine whose socket
\* failed, or waits behind the echo at which the consumer stopped.
DueMessageArrives ==
  \A d \in due :
    LET m == d[1]
        c == d[2]
    IN  \/ m \in Ran(Outgoing(c)) \/ m = writer[c].hand
        \/ consumer.item = m /\ Owner[c] \in Ran(consumer.todo)

\* What stops the hub for the rest of the process's life: a second login that took
\* the mutex while the loop was about to lock it; a connection without a Write
\* goroutine whose SendBack is full; the consumer's panic with the mutex held.
Stuck ==
  \/ start # None /\ \E c \in Conns : mutex = R(c)
  \/ /\ consumer.pc = "push"
     /\ LET c == Clients[Head(consumer.todo)]
        IN  c # None /\ writer[c].pc = "done" /\ Len(SendBack[c]) >= ChannelSize
  \/ consumer.pc = "dead" /\ mutex = Consumer

\* Nothing else stops it: a connection that asked for the login gets into the map
\* (or its process ends), and every record is fetched unless the consumer has died.
HubKeepsRunning ==
  /\ \A c \in Conns : reader[c].pc = "lock" ~>
       \/ Clients[Owner[c]] # None \/ reader[c].pc = "done" \/ Stuck
  /\ \A p \in 1..Partitions : position[p] < Len(topic[p]) ~>
       \/ position[p] = Len(topic[p]) \/ consumer.pc = "dead" \/ Stuck
=============================================================================
