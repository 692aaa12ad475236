------------------------------ MODULE ChatServer ------------------------------
(***************************************************************************)
(* The message hub of internal/service/chat in channel mode: the Start     *)
(* loop, the Read and Write goroutines of every connection, the HTTP       *)
(* handlers that log a connection in and out, and the AI tasks Start hands *)
(* to the goroutine pool.  They meet at one mutex, three channels, the     *)
(* Clients map and two channels per connection.                            *)
(*                                                                         *)
(* A step is what happens between two points where a goroutine can be      *)
(* overtaken in a way another one notices.  Text and File share their      *)
(* handling and are the kinds "user" and "group"; "call" is AudioOrVideo;  *)
(* "ai" is a text ShouldHandleByAI accepts.  The Redis message lists and   *)
(* the JSON codecs are left out; server_seq is the order of `dispatched`   *)
(* (module SessionSequencer has the counters).  A panic outside the pool   *)
(* ends the process: `down` names it and nothing moves after it.           *)
(***************************************************************************)
EXTENDS Queues, Integers, FiniteSets

CONSTANTS
  Users, Conns,   \* user ids; websocket connections (Client objects)
  Owner,          \* Owner[c]: the user connection c logs in
  Group,          \* a group id ...
  Members,        \* ... and its member list
  Logouts,        \* requests to /user/wsLogout ...
  LogoutOf,       \* ... and the user each names
  Kinds,          \* bound: Kinds[c][n] is the set of kinds the n-th frame of c may have
  ChannelSize,    \* CHANNEL_SIZE, of every channel
  PoolRoom,       \* workers and queue places of the AI pool
  Breaks,         \* connections whose peer may vanish
  None            \* nil

FrameKinds == {"user", "group", "call", "ai"}

ASSUME ChatAssumption ==
  /\ Owner \in [Conns -> Users]
  /\ Members \in Seq(Users)
  /\ Group \notin Users /\ None \notin Users \cup Conns \cup {Group}
  /\ LogoutOf \in [Logouts -> Users]
  /\ Kinds \in [Conns -> Seq(SUBSET FrameKinds)]
  /\ ChannelSize \in Nat \ {0} /\ PoolRoom \in Nat
  /\ Breaks \subseteq Conns

VARIABLES
  Clients,                  \* the map from a user to its connection, None if absent
  mutex,                    \* who holds Server.mutex
  Transmit, Login, Logout,  \* the three channels of the server
  start,                    \* the Start goroutine
  socket,                   \* Conn: open, broken (the peer is gone), closed (by us)
  reader, writer,           \* NewClientInit then Read; Write - per connection
  SendTo, SendBack,         \* the two channels of a connection
  chansClosed,              \* connections whose two channels are closed
  logout,                   \* ClientLogout requests
  tasks,                    \* AI closures not finished yet
  db,                       \* message rows, and those with status Sent
  frames,                   \* number of frames read so far, per connection
  refused,                  \* history: frames answered with the "busy" notice
  dispatched,               \* history: what Start took from Transmit, in order
  due, written,             \* history: who was online at dispatch; what reached each socket
  down                      \* "up", or the panic that ended the process

serverVars == <<Clients, Transmit, Login, Logout, start>>
connVars   == <<socket, reader, writer, SendTo, SendBack, chansClosed>>
history    == <<frames, refused, dispatched, due, written>>
vars == <<serverVars, mutex, connVars, logout, tasks, db, history, down>>

NoMsg == [conn |-> None, n |-> 0, kind |-> "none", to |-> None]
Msg   == [conn : Conns, n : Nat \ {0}, kind : FrameKinds \cup {"reply"},
          to : Users \cup {Group, None}]
From(m) == Owner[m.conn]

\* Who can hold the mutex; every goroutine that takes it is named here.
Free     == <<"free">>
Starter  == <<"start">>
R(c)     == <<"conn", c>>
L(l)     == <<"logout", l>>
A(t)     == <<"ai", t>>

Init ==
  /\ Clients = [u \in Users |-> None]
  /\ mutex = Free
  /\ Transmit = <<>> /\ Login = <<>> /\ Logout = <<>>
  /\ start = [pc |-> "select", item |-> NoMsg, todo |-> <<>>]
  /\ socket = [c \in Conns |-> "open"]
  /\ reader = [c \in Conns |-> [pc |-> "new", frame |-> NoMsg]]
  /\ writer = [c \in Conns |-> [pc |-> "off", hand |-> NoMsg]]
  /\ SendTo = [c \in Conns |-> <<>>]
  /\ SendBack = [c \in Conns |-> <<>>]
  /\ chansClosed = {}
  /\ logout = [l \in Logouts |-> [pc |-> "new", client |-> None]]
  /\ tasks = {}
  /\ db = [stored |-> {}, sent |-> {}]
  /\ frames = [c \in Conns |-> 0] /\ refused = {}
  /\ dispatched = <<>>
  /\ due = {}
  /\ written = [c \in Conns |-> <<>>]
  /\ down = "up"

Online(us) == {Clients[u] : u \in Ran(us)} \ {None}
-----------------------------------------------------------------------------
(* The mutex: Lock waits until it is free; every critical section below ends  *)
(* with Unlock in the step that finishes it.                                  *)

Lock(p) == mutex = Free /\ mutex' = p
Unlock(p) == mutex = p /\ mutex' = Free

\* The process has not panicked.
Up == down = "up"

\* The goroutines that stand in front of mutex.Lock().
Waiting ==
  (IF start.pc = "select" THEN {} ELSE {Starter})
    \cup {R(c) : c \in {d \in Conns : reader[d].pc \in {"new", "carry", "direct"}}}
    \cup {L(l) : l \in {k \in Logouts : logout[k].pc = "send"}}
    \cup {A(t) : t \in {s \in tasks : s.pc = "push"}}

\* While Start holds the mutex the map does not change: the connections found
\* in it now are the ones the message in hand is due to.
Acquire ==
  /\ Up
  /\ \E p \in Waiting :
       /\ Lock(p)
       /\ due' = IF p # Starter THEN due
                 ELSE due \cup {<<start.item, c>> : c \in Online(start.todo)}
  /\ UNCHANGED <<serverVars, connVars, logout, tasks, db, frames, refused, dispatched,
                 written, down>>
-----------------------------------------------------------------------------
(* A connection: NewClientInit, Read                                         *)

\* SendClientToLogin, then the two goroutines of the connection start - before
\* Start has taken the client from the Login channel.
NewClientInit(c) ==
  /\ Up
  /\ reader[c].pc = "new"
  /\ Len(Login) < ChannelSize
  /\ Login' = Append(Login, c)
  /\ Unlock(R(c))
  /\ reader' = [reader EXCEPT ![c].pc = "read"]
  /\ writer' = [writer EXCEPT ![c].pc = "range"]
  /\ UNCHANGED <<Clients, Transmit, Logout, start, socket, SendTo, SendBack, chansClosed,
                 logout, tasks, db, history, down>>

\* What a browser sends; the sender of the message is the owner of the connection.
Frames(c) ==
  LET n == frames[c] + 1
      addressees(k) == CASE k \in {"user", "call"} -> Users \ {Owner[c]}
                         [] k = "group"           -> {Group}
                         [] k = "ai"              -> {None}
  IN  {[conn |-> c, n |-> n, kind |-> kt[1], to |-> kt[2]] :
         kt \in UNION {{k} \X addressees(k) : k \in Kinds[c][n]}}

ReadMessage(c) ==
  /\ Up
  /\ reader[c].pc = "read"
  /\ \/ /\ socket[c] = "open"
        /\ frames[c] < Len(Kinds[c])
        /\ \E m \in Frames(c) : reader' = [reader EXCEPT ![c] = [pc |-> "fill", frame |-> m]]
        /\ frames' = [frames EXCEPT ![c] = @ + 1]
     \/ /\ socket[c] # "open"              \* the error ends Read; nothing is cleaned up
        /\ reader' = [reader EXCEPT ![c].pc = "done"]
        /\ UNCHANGED frames
  /\ UNCHANGED <<serverVars, mutex, socket, writer, SendTo, SendBack, chansClosed, logout,
                 tasks, db, refused, dispatched, due, written, down>>

\* The loop condition: len(Transmit) is looked at without the mutex.
FillCheck(c) ==
  /\ Up
  /\ reader[c].pc = "fill"
  /\ reader' = [reader EXCEPT ![c].pc =
                  IF Len(Transmit) < ChannelSize /\ SendTo[c] # <<>> THEN "carry" ELSE "route"]
  /\ UNCHANGED <<serverVars, mutex, socket, writer, SendTo, SendBack, chansClosed, logout,
                 tasks, db, history, down>>

\* Mutant: the frame is copied from SendTo, not taken out of it.
CarryCopies(c) ==
  /\ Up
  /\ reader[c].pc = "carry"
  /\ Len(Transmit) < ChannelSize
  /\ Transmit' = Append(Transmit, Head(SendTo[c]))
  /\ Unlock(R(c))
  /\ reader' = [reader EXCEPT ![c].pc = "fill"]
  /\ UNCHANGED <<Clients, Login, Logout, start, socket, writer, SendTo, SendBack, chansClosed,
                 logout, tasks, db, history, down>>

\* SendMessageToTransmit(sendToMessage): blocks with the mutex while Transmit is full.
Carry(c) ==
  /\ Up
  /\ reader[c].pc = "carry"
  /\ Len(Transmit) < ChannelSize
  /\ Transmit' = Append(Transmit, Head(SendTo[c]))
  /\ SendTo' = [SendTo EXCEPT ![c] = Tail(@)]
  /\ Unlock(R(c))
  /\ reader' = [reader EXCEPT ![c].pc = "fill"]
  /\ UNCHANGED <<Clients, Login, Logout, start, socket, writer, SendBack, chansClosed,
                 logout, tasks, db, history, down>>

\* The new frame: straight to Transmit, into SendTo, or refused with a notice.
RouteFrame(c) ==
  /\ Up
  /\ reader[c].pc = "route"
  /\ \/ /\ Len(Transmit) < ChannelSize
        /\ reader' = [reader EXCEPT ![c].pc = "direct"]
        /\ UNCHANGED <<SendTo, refused, down>>
     \/ /\ Len(Transmit) >= ChannelSize
        /\ Len(SendTo[c]) < ChannelSize
        /\ UNCHANGED refused
        /\ IF c \in chansClosed
             THEN down' = "sendOnClosed" /\ UNCHANGED <<SendTo, reader>>
             ELSE /\ SendTo' = [SendTo EXCEPT ![c] = Append(@, reader[c].frame)]
                  /\ reader' = [reader EXCEPT ![c] = [pc |-> "read", frame |-> NoMsg]]
                  /\ UNCHANGED down
     \/ /\ Len(Transmit) >= ChannelSize
        /\ Len(SendTo[c]) >= ChannelSize
        /\ reader' = [reader EXCEPT ![c] = [pc |-> "read", frame |-> NoMsg]]
        /\ refused' = refused \cup {reader[c].frame}
        /\ UNCHANGED <<SendTo, down>>
  /\ UNCHANGED <<serverVars, mutex, socket, writer, SendBack, chansClosed, logout, tasks, db,
                 frames, dispatched, due, written>>

\* Mutant: a Transmit that grows without a bound.
DirectUnbounded(c) ==
  /\ Up
  /\ reader[c].pc = "direct"
  /\ Transmit' = Append(Transmit, reader[c].frame)
  /\ Unlock(R(c))
  /\ reader' = [reader EXCEPT ![c] = [pc |-> "read", frame |-> NoMsg]]
  /\ UNCHANGED <<Clients, Login, Logout, start, socket, writer, SendTo, SendBack, chansClosed,
                 logout, tasks, db, history, down>>

\* SendMessageToTransmit(jsonMessage)
Direct(c) ==
  /\ Up
  /\ reader[c].pc = "direct"
  /\ Len(Transmit) < ChannelSize
  /\ Transmit' = Append(Transmit, reader[c].frame)
  /\ Unlock(R(c))
  /\ reader' = [reader EXCEPT ![c] = [pc |-> "read", frame |-> NoMsg]]
  /\ UNCHANGED <<Clients, Login, Logout, start, socket, writer, SendTo, SendBack, chansClosed,
                 logout, tasks, db, history, down>>

\* The peer vanishes: reads and writes on the socket fail from now on.
Disconnect(c) ==
  /\ Up
  /\ c \in Breaks
  /\ socket[c] = "open"
  /\ reader[c].pc # "new"
  /\ socket' = [socket EXCEPT ![c] = "broken"]
  /\ UNCHANGED <<serverVars, mutex, reader, writer, SendTo, SendBack, chansClosed, logout,
                 tasks, db, history, down>>
-----------------------------------------------------------------------------
(* A connection: Write                                                       *)

\* Mutant: the writer puts the message back behind the queue when it finds more.
TakeBackRequeues(c) ==
  /\ Up
  /\ writer[c].pc = "range"
  /\ SendBack[c] # <<>>
  /\ LET q == SendBack[c]
     IN  \/ /\ writer' = [writer EXCEPT ![c] = [pc |-> "write", hand |-> Head(q)]]
            /\ SendBack' = [SendBack EXCEPT ![c] = Tail(q)]
         \/ /\ writer' = [writer EXCEPT ![c] = [pc |-> "write", hand |-> Head(q)]]
            /\ SendBack' = [SendBack EXCEPT ![c] = Append(Tail(q), Head(q))]
  /\ UNCHANGED <<serverVars, mutex, socket, reader, SendTo, chansClosed, logout, tasks, db,
                 history, down>>

\* for messageBack := range SendBack; the loop ends when it is closed and drained.
TakeBack(c) ==
  /\ Up
  /\ writer[c].pc = "range"
  /\ IF SendBack[c] # <<>>
       THEN /\ writer' = [writer EXCEPT ![c] = [pc |-> "write", hand |-> Head(SendBack[c])]]
            /\ SendBack' = [SendBack EXCEPT ![c] = Tail(@)]
       ELSE /\ c \in chansClosed
            /\ writer' = [writer EXCEPT ![c].pc = "done"]
            /\ UNCHANGED SendBack
  /\ UNCHANGED <<serverVars, mutex, socket, reader, SendTo, chansClosed, logout, tasks, db,
                 history, down>>

\* Mutant: the row is marked before the write is known to have worked.
WriteBackMarksFirst(c) ==
  /\ Up
  /\ writer[c].pc = "write"
  /\ LET m == writer[c].hand
         ok == socket[c] = "open"
     IN  /\ db' = [db EXCEPT !.sent = @ \cup ({m} \cap db.stored)]
         /\ written' = IF ok THEN [written EXCEPT ![c] = Append(@, m)] ELSE written
         /\ writer' = [writer EXCEPT ![c] =
                         [pc |-> IF ok THEN "range" ELSE "done", hand |-> NoMsg]]
  /\ UNCHANGED <<serverVars, mutex, socket, reader, SendTo, SendBack, chansClosed, logout,
                 tasks, frames, refused, dispatched, due, down>>

\* The frame is written and the row marked Sent - whichever connection wrote it;
\* a failed write ends the goroutine and nobody drains SendBack any more.
WriteBack(c) ==
  /\ Up
  /\ writer[c].pc = "write"
  /\ IF socket[c] = "open"
       THEN LET m == writer[c].hand
            IN  /\ written' = [written EXCEPT ![c] = Append(@, m)]
                /\ db' = [db EXCEPT !.sent = @ \cup ({m} \cap db.stored)]
                /\ writer' = [writer EXCEPT ![c] = [pc |-> "range", hand |-> NoMsg]]
       ELSE /\ writer' = [writer EXCEPT ![c].pc = "done"]
            /\ UNCHANGED <<written, db>>
  /\ UNCHANGED <<serverVars, mutex, socket, reader, SendTo, SendBack, chansClosed, logout,
                 tasks, frames, refused, dispatched, due, down>>
-----------------------------------------------------------------------------
(* ClientLogout                                                              *)

\* The map is read without the mutex: while Start writes it the runtime may
\* stop the process.
LookupClient(l) ==
  /\ Up
  /\ logout[l].pc = "new"
  /\ \/ /\ logout' = [logout EXCEPT ![l] =
                        IF Clients[LogoutOf[l]] = None
                          THEN [pc |-> "done", client |-> None]
                          ELSE [pc |-> "send", client |-> Clients[LogoutOf[l]]]]
        /\ UNCHANGED down
     \/ /\ mutex = Starter /\ start.pc \in {"add", "remove"}
        /\ down' = "mapRace"
        /\ UNCHANGED logout
  /\ UNCHANGED <<serverVars, mutex, connVars, tasks, db, history>>

SendClientToLogout(l) ==
  /\ Up
  /\ logout[l].pc = "send"
  /\ Len(Logout) < ChannelSize
  /\ Logout' = Append(Logout, logout[l].client)
  /\ Unlock(L(l))
  /\ logout' = [logout EXCEPT ![l].pc = "close"]
  /\ UNCHANGED <<Clients, Transmit, Login, start, connVars, tasks, db, history, down>>

\* Conn.Close fails when another request has closed it: the channels are then
\* left alone, so they are closed once.
CloseConn(l) ==
  LET c == logout[l].client
  IN  /\ Up
      /\ logout[l].pc = "close"
      /\ logout' = [logout EXCEPT ![l].pc = IF socket[c] = "closed" THEN "done" ELSE "chans"]
      /\ socket' = [socket EXCEPT ![c] = "closed"]
      /\ UNCHANGED <<serverVars, mutex, reader, writer, SendTo, SendBack, chansClosed, tasks,
                     db, history, down>>

CloseChans(l) ==
  /\ Up
  /\ logout[l].pc = "chans"
  /\ logout' = [logout EXCEPT ![l].pc = "done"]
  /\ chansClosed' = chansClosed \cup {logout[l].client}
  /\ UNCHANGED <<serverVars, mutex, socket, reader, writer, SendTo, SendBack, tasks, db,
                 history, down>>
-----------------------------------------------------------------------------
(* Start: one select over three channels                                     *)

Goto(pc, item, todo) == start' = [pc |-> pc, item |-> item, todo |-> todo]

TakeLogin ==
  /\ Up
  /\ start.pc = "select"
  /\ Login # <<>>
  /\ Goto("add", [NoMsg EXCEPT !.conn = Head(Login)], <<>>)
  /\ Login' = Tail(Login)
  /\ UNCHANGED <<Clients, Transmit, Logout, mutex, connVars, logout, tasks, db, history, down>>

AddClient ==
  /\ Up
  /\ start.pc = "add"
  /\ Unlock(Starter)
  /\ Clients' = [Clients EXCEPT ![From(start.item)] = start.item.conn]
  /\ Goto("select", NoMsg, <<>>)
  /\ UNCHANGED <<Transmit, Login, Logout, connVars, logout, tasks, db, history, down>>

TakeLogout ==
  /\ Up
  /\ start.pc = "select"
  /\ Logout # <<>>
  /\ Goto("remove", [NoMsg EXCEPT !.conn = Head(Logout)], <<>>)
  /\ Logout' = Tail(Logout)
  /\ UNCHANGED <<Clients, Transmit, Login, mutex, connVars, logout, tasks, db, history, down>>

\* The user is removed whichever of its connections logged out.
RemoveClient ==
  /\ Up
  /\ start.pc = "remove"
  /\ Unlock(Starter)
  /\ Clients' = [Clients EXCEPT ![From(start.item)] = None]
  /\ Goto("select", NoMsg, <<>>)
  /\ UNCHANGED <<Transmit, Login, Logout, connVars, logout, tasks, db, history, down>>

\* Who a message is pushed to, in order: the receiver, then the echo to the
\* sender; the member list of a group; the receiver alone for a call.
Targets(m) ==
  CASE m.kind = "user"  -> <<m.to, From(m)>>
    [] m.kind = "group" -> Members
    [] m.kind = "call"  -> <<m.to>>

\* The message gets its server_seq and its row (a call only when it starts or
\* ends one), and is pushed next; a text for the AI becomes a task instead.
TakeTransmit ==
  /\ Up
  /\ start.pc = "select"
  /\ Transmit # <<>>
  /\ LET m == Head(Transmit)
     IN  /\ Transmit' = Tail(Transmit)
         /\ dispatched' = Append(dispatched, m)
         /\ IF m.kind = "ai"
              THEN /\ db' = [stored |-> db.stored \cup {m}, sent |-> db.sent \cup {m}]
                   /\ LET pooled == {t \in tasks : t.by = "pool"}
                          by     == IF Cardinality(pooled) < PoolRoom THEN "pool" ELSE "bare"
                      IN  tasks' = tasks \cup {[msg |-> m, by |-> by, pc |-> "think"]}
                   /\ UNCHANGED start
              ELSE /\ \E row \in IF m.kind = "call" THEN {{}, {m}} ELSE {{m}} :
                        db' = [db EXCEPT !.stored = @ \cup row]
                   /\ Goto("push", m, Targets(m))
                   /\ UNCHANGED tasks
  /\ UNCHANGED <<Clients, Login, Logout, mutex, connVars, logout, frames, refused, due, written,
                 down>>

\* The end of the critical section is part of the last push.
Rest == IF Len(start.todo) > 1
          THEN Goto("push", start.item, Tail(start.todo)) /\ UNCHANGED mutex
          ELSE Goto("select", NoMsg, <<>>) /\ Unlock(Starter)

\* Whose turn it is; nobody in a group without members.
Receiver == IF start.todo = <<>> THEN None ELSE Clients[Head(start.todo)]

Echo == start.todo # <<>> /\ start.item.kind # "call" /\ Head(start.todo) = From(start.item)

\* Mutant: the push has a default branch, a full SendBack loses the message.
PushOrDrop ==
  /\ Up
  /\ start.pc = "push"
  /\ LET c == Receiver
     IN  SendBack' = IF c = None \/ c \in chansClosed \/ Len(SendBack[c]) >= ChannelSize
                       THEN SendBack
                       ELSE [SendBack EXCEPT ![c] = Append(@, start.item)]
  /\ mutex = Starter
  /\ Rest
  /\ UNCHANGED <<Clients, Transmit, Login, Logout, socket, reader, writer, SendTo, chansClosed,
                 logout, tasks, db, history, down>>

\* Clients[SendId] is used without a look whether it is there.
Push ==
  /\ Up
  /\ start.pc = "push"
  /\ mutex = Starter
  /\ LET c == Receiver
     IN  \/ /\ c = None
            /\ IF Echo THEN down' = "nilSender" /\ UNCHANGED <<start, mutex>>
                       ELSE Rest /\ UNCHANGED down
            /\ UNCHANGED SendBack
         \/ /\ c # None /\ c \in chansClosed
            /\ down' = "sendOnClosed"
            /\ UNCHANGED <<start, mutex, SendBack>>
         \/ /\ c # None /\ c \notin chansClosed
            /\ Len(SendBack[c]) < ChannelSize
            /\ SendBack' = [SendBack EXCEPT ![c] = Append(@, start.item)]
            /\ Rest
            /\ UNCHANGED down
  /\ UNCHANGED <<Clients, Transmit, Login, Logout, socket, reader, writer, SendTo, chansClosed,
                 logout, tasks, db, history>>
-----------------------------------------------------------------------------
(* The closure Start submits for an AI text: on a pool worker, or on a bare    *)
(* goroutine when the pool refuses it                                          *)

\* HandleAIMessage fails, or returns the reply to be pushed.
Think(t) ==
  /\ Up
  /\ t.pc = "think"
  /\ \/ tasks' = tasks \ {t}
     \/ tasks' = (tasks \ {t}) \cup {[t EXCEPT !.pc = "push"]}
  /\ UNCHANGED <<serverVars, mutex, connVars, logout, db, history, down>>

\* Mutant: an early return for a user who has left, without the Unlock.
PushReplyReturnsLocked(t) ==
  LET c == Clients[From(t.msg)]
  IN  /\ Up
      /\ t.pc = "push"
      /\ mutex = A(t)
      /\ IF c # None /\ c \notin chansClosed
           THEN /\ Len(SendBack[c]) < ChannelSize
                /\ SendBack' = [SendBack EXCEPT ![c] = Append(@, [t.msg EXCEPT !.kind = "reply"])]
                /\ Unlock(A(t))
           ELSE UNCHANGED <<SendBack, mutex>>
      /\ tasks' = tasks \ {t}
      /\ UNCHANGED <<serverVars, socket, reader, writer, SendTo, chansClosed, logout, db,
                     history, down>>

\* The reply carries the row id of the question.  A panic inside the pool is
\* recovered there, after which nobody unlocks the mutex; on a bare goroutine it
\* ends the process.
PushReply(t) ==
  LET c == Clients[From(t.msg)]
  IN  /\ Up
      /\ t.pc = "push"
      /\ mutex = A(t)
      /\ \/ /\ c = None
            /\ Unlock(A(t))
            /\ UNCHANGED <<SendBack, down>>
         \/ /\ c # None /\ c \in chansClosed
            /\ down' = IF t.by = "bare" THEN "sendOnClosed" ELSE down
            /\ UNCHANGED <<SendBack, mutex>>
         \/ /\ c # None /\ c \notin chansClosed
            /\ Len(SendBack[c]) < ChannelSize
            /\ SendBack' = [SendBack EXCEPT ![c] = Append(@, [t.msg EXCEPT !.kind = "reply"])]
            /\ Unlock(A(t))
            /\ UNCHANGED down
      /\ tasks' = tasks \ {t}
      /\ UNCHANGED <<serverVars, socket, reader, writer, SendTo, chansClosed, logout, db,
                     history>>
-----------------------------------------------------------------------------
ConnStep(c) ==
  \/ NewClientInit(c) \/ ReadMessage(c) \/ FillCheck(c)
  \/ Carry(c) \/ RouteFrame(c) \/ Direct(c)
WriterStep(c) == TakeBack(c) \/ WriteBack(c)
LogoutStep(l) == LookupClient(l) \/ SendClientToLogout(l) \/ CloseConn(l) \/ CloseChans(l)
StartStep     == TakeLogin \/ AddClient \/ TakeLogout \/ RemoveClient \/ TakeTransmit \/ Push
TaskStep(t)   == Think(t) \/ PushReply(t)

Next ==
  \/ Acquire
  \/ \E c \in Conns : ConnStep(c) \/ WriterStep(c) \/ Disconnect(c)
  \/ \E l \in Logouts : LogoutStep(l)
  \/ StartStep
  \/ \E t \in tasks : TaskStep(t)

Spec == Init /\ [][Next]_vars
-----------------------------------------------------------------------------
(* Properties                                                                *)

\* What the order of delivery rests on, besides the code: nobody is twice on the
\* member list.
DistinctMembers == NoDup(Members)

\* Types and bounds: no channel holds more than its capacity.
TypeOK ==
  /\ Clients \in [Users -> Conns \cup {None}]
  /\ Transmit \in Seq(Msg) /\ Login \in Seq(Conns) /\ Logout \in Seq(Conns)
  /\ \A q \in {Transmit, Login, Logout} : Len(q) <= ChannelSize
  /\ start \in [pc : {"select", "add", "remove", "push"},
                item : Msg \cup [conn : Conns, n : {0}, kind : {"none"}, to : {None}] \cup {NoMsg},
                todo : Seq(Users)]
  /\ socket \in [Conns -> {"open", "broken", "closed"}]
  /\ reader \in [Conns -> [pc : {"new", "read", "fill", "carry", "route", "direct", "done"},
                           frame : Msg \cup {NoMsg}]]
  /\ writer \in [Conns -> [pc : {"off", "range", "write", "done"}, hand : Msg \cup {NoMsg}]]
  /\ SendTo \in [Conns -> Seq(Msg)] /\ SendBack \in [Conns -> Seq(Msg)]
  /\ \A c \in Conns : Len(SendTo[c]) <= ChannelSize /\ Len(SendBack[c]) <= ChannelSize
  /\ chansClosed \subseteq Conns
  /\ logout \in [Logouts -> [pc : {"new", "send", "close", "chans", "done"},
                             client : Conns \cup {None}]]
  /\ tasks \subseteq [msg : Msg, by : {"pool", "bare"}, pc : {"think", "push"}]
  /\ db \in [stored : SUBSET Msg, sent : SUBSET Msg]
  /\ frames \in [Conns -> Nat] /\ refused \subseteq Msg /\ dispatched \in Seq(Msg)
  /\ due \subseteq Msg \X Conns /\ written \in [Conns -> Seq(Msg)]
  /\ down \in {"up", "nilSender", "sendOnClosed", "mapRace"}

\* Nobody walks away with the mutex: its holder is always a goroutine inside the
\* critical section it locked it for.  The one exception is a pool task whose
\* panic was recovered by the pool: it sent on the closed channel of the asker.
NoLockLeak ==
  LET recovered(m) == A([msg |-> m, by |-> "pool", pc |-> "push"])
      closedOn     == {m \in Ran(dispatched) : \E c \in chansClosed : Owner[c] = From(m)}
  IN  Up => mutex \in {Free} \cup Waiting \cup {recovered(m) : m \in closedOn}

\* Between a socket and Start a frame is in one place, once: in the reader's hand,
\* in SendTo, in Transmit, or dispatched - unless it was answered with the notice
\* that the server is busy.  Nothing is lost or doubled when SendTo overflows into
\* Transmit.
FrameInOnePlace ==
  LET count(q, c, n) == Cardinality({i \in 1..Len(q) : q[i].conn = c /\ q[i].n = n})
      inHand(c, n)   == IF reader[c].frame.n = n THEN 1 ELSE 0
  IN  \A c \in Conns : \A n \in 1..frames[c] :
        inHand(c, n) + count(SendTo[c], c, n) + count(Transmit, c, n) + count(dispatched, c, n)
          = IF \E m \in refused : m.conn = c /\ m.n = n THEN 0 ELSE 1

\* Everything on its way to a socket, oldest first.
Outgoing(c) ==
  written[c] \o (IF writer[c].pc = "write" THEN <<writer[c].hand>> ELSE <<>>) \o SendBack[c]

\* A connection gets its messages (AI replies apart) in the order of server_seq,
\* and each of them once, whatever the other connections, logouts and AI tasks do
\* in the meantime.
OutgoingInServerOrder ==
  \A c \in Conns :
    LET out    == Outgoing(c)
        pos(m) == CHOOSE i \in 1..Len(dispatched) : dispatched[i] = m
    IN  \A i, j \in 1..Len(out) :
          i < j /\ out[i].kind # "reply" /\ out[j].kind # "reply" => pos(out[i]) < pos(out[j])

\* A message is not lost for a user who is in the map when Start locks it: it has
\* been written, is on its way, is still to be pushed, or was in the hands of the
\* Write goroutine whose socket failed.
DueMessageArrives ==
  Up =>
    \A d \in due :
      LET m == d[1]
          c == d[2]
      IN  \/ m \in Ran(Outgoing(c)) \/ m = writer[c].hand
          \/ start.item = m /\ Owner[c] \in Ran(start.todo)

\* Only a connection of an addressee or of the sender turns a row to Sent, by
\* having written the message; the row of a question to the AI is born Sent.
SentMeansWritten ==
  \A m \in db.sent :
    m.kind = "ai" \/ \E c \in Conns : m \in Ran(written[c]) /\ Owner[c] \in Ran(Targets(m))

\* The comment above the echo (server.go:260): the sender is online for sure.
SenderIsOnline ==
  mutex = Starter /\ start.pc = "push" /\ Echo => Receiver # None

\* The comment in Read (client.go:87): a frame goes straight to Transmit when the
\* server is not full and SendTo is empty.  A reader that finds Transmit full when
\* it has the mutex keeps it, and Start can take nothing out any more.
DirectFindsRoom ==
  \A c \in Conns : mutex = R(c) /\ reader[c].pc = "direct" =>
    Len(Transmit) < ChannelSize /\ SendTo[c] = <<>>

\* README.md:109: client_seq and server_seq guarantee ordered delivery - the
\* messages of one connection are dispatched in the order it sent them.
DispatchedInClientOrder ==
  \A i, j \in 1..Len(dispatched) :
    i < j /\ dispatched[i].conn = dispatched[j].conn => dispatched[i].n < dispatched[j].n

\* AGENT_ARCHITECTURE.md:7: no AI reasoning may block the websocket main link -
\* Start never waits for a mutex an AI task will not give back.
AINeverBlocksStart ==
  ~ /\ start.pc # "select"
    /\ mutex # Free /\ mutex[1] = "ai"
    /\ \/ \A t \in tasks : mutex # A(t)
       \/ \E t \in tasks : /\ mutex = A(t)
                           /\ LET c == Clients[From(t.msg)]
                              IN  /\ c # None /\ c \notin chansClosed /\ writer[c].pc = "done"
                                  /\ Len(SendBack[c]) >= ChannelSize
=============================================================================
