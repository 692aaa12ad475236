---------------------------- MODULE ChatServerProofs ----------------------------
(***************************************************************************)
(* For any number of users, connections, logouts and AI tasks, any channel *)
(* size and any pool.                                                      *)
(***************************************************************************)
EXTENDS ChatServer, QueueLemmas

\* What a browser may send: a message that is no reply, and not to its sender.
FrameMsg ==
  {m \in Msg : /\ m.kind # "reply"
               /\ m.kind \in {"user", "call"} => m.to \in Users \ {From(m)}}

FrameOf(c) == {m \in FrameMsg : m.conn = c}

\* The reader has a frame in hand.
Holding == {"fill", "carry", "route", "direct"}

\* What a goroutine holds where its next step uses it.
HandInv ==
  /\ \A c \in Conns :
       /\ reader[c].pc \in Holding => reader[c].frame \in FrameMsg /\ reader[c].frame.conn = c
       /\ reader[c].pc \notin Holding => reader[c].frame = NoMsg
       /\ reader[c].pc = "carry" => SendTo[c] # <<>>
       /\ reader[c].pc = "new" => writer[c].pc = "off"
       /\ writer[c].pc = "write" => writer[c].hand \in Msg
       /\ writer[c].pc \in {"off", "range"} => writer[c].hand = NoMsg
  /\ start.pc \in {"add", "remove"} => start.item.conn \in Conns
  /\ start.pc = "push" => start.item \in FrameMsg /\ start.item.kind # "ai"
  /\ start.pc # "push" => start.todo = <<>>
  /\ \A l \in Logouts : logout[l].pc \in {"send", "close", "chans"} => logout[l].client \in Conns

\* What is in the queues, and in the history.
QueueInv ==
  /\ Transmit \in Seq(FrameMsg) /\ dispatched \in Seq(FrameMsg)
  /\ \A c \in Conns : SendTo[c] \in Seq(FrameOf(c))
  /\ refused \subseteq FrameMsg /\ db.stored \subseteq FrameMsg
  /\ \A t \in tasks : t.msg \in Ran(dispatched)

TypeInv == TypeOK /\ HandInv /\ QueueInv

ItemOK   == Msg \cup [conn : Conns, n : {0}, kind : {"none"}, to : {None}] \cup {NoMsg}
StartOK  == [pc : {"select", "add", "remove", "push"}, item : ItemOK, todo : Seq(Users)]
ReaderPc == {"new", "read", "fill", "carry", "route", "direct", "done"}
ReaderOK == [pc : ReaderPc, frame : Msg \cup {NoMsg}]
WriterOK == [pc : {"off", "range", "write", "done"}, hand : Msg \cup {NoMsg}]
LogoutOK == [pc : {"new", "send", "close", "chans", "done"}, client : Conns \cup {None}]
TaskOK   == [msg : Msg, by : {"pool", "bare"}, pc : {"think", "push"}]
DbOK     == [stored : SUBSET Msg, sent : SUBSET Msg]
DownOK   == {"up", "nilSender", "sendOnClosed", "mapRace"}

LEMMA NoMessage == NoMsg \notin Msg /\ NoMsg.n = 0
BY DEF NoMsg, Msg

LEMMA SenderKnown == \A m \in Msg : From(m) \in Users
BY ChatAssumption DEF Msg, From

LEMMA FramesAreMessages == FrameMsg \subseteq Msg
BY DEF FrameMsg

\* A frame is a message of the connection that reads it.
LEMMA FrameTypes ==
  ASSUME NEW c \in Conns, frames[c] \in Nat, frames[c] < Len(Kinds[c]), NEW m \in Frames(c)
  PROVE  m \in FrameMsg /\ m.conn = c /\ m.n = frames[c] + 1
<1>1. Kinds[c] \in Seq(SUBSET FrameKinds) /\ Owner[c] \in Users
  BY ChatAssumption
<1>2. Kinds[c][frames[c] + 1] \subseteq FrameKinds
  <2>1. frames[c] + 1 \in DOMAIN Kinds[c]
    BY <1>1
  <2>2. QED BY <1>1, <2>1
<1> DEFINE addressees(k) == CASE k \in {"user", "call"} -> Users \ {Owner[c]}
                              [] k = "group"           -> {Group}
                              [] k = "ai"              -> {None}
<1>3. PICK kt \in UNION {{k} \X addressees(k) : k \in Kinds[c][frames[c] + 1]} :
             m = [conn |-> c, n |-> frames[c] + 1, kind |-> kt[1], to |-> kt[2]]
  BY DEF Frames
<1>4. PICK k \in Kinds[c][frames[c] + 1] : kt \in {k} \X addressees(k)
  BY <1>3
<1>5. k \in FrameKinds /\ kt[1] = k /\ kt[2] \in addressees(k)
  BY <1>2, <1>4
<1>6. /\ k \in {"user", "call"} => kt[2] \in Users \ {Owner[c]}
      /\ k = "group" => kt[2] = Group
      /\ k = "ai" => kt[2] = None
  BY <1>5
<1>7. kt[2] \in Users \cup {Group, None}
  BY <1>5, <1>6 DEF FrameKinds
<1>8. m.conn = c /\ m.n = frames[c] + 1 /\ m.kind = k /\ m.to = kt[2]
  BY <1>3, <1>5
<1>9. m \in Msg /\ m.kind # "reply"
  BY <1>3, <1>5, <1>7 DEF Msg, FrameKinds
<1>10. QED BY <1>6, <1>8, <1>9 DEF FrameMsg, From

\* Who a frame is pushed to are users.
LEMMA TargetTypes ==
  ASSUME NEW m \in FrameMsg, m.kind # "ai"
  PROVE  Targets(m) \in Seq(Users)
<1>1. m.kind \in {"user", "group", "call"} /\ From(m) \in Users /\ Members \in Seq(Users)
  BY SenderKnown, ChatAssumption DEF FrameMsg, Msg, FrameKinds
<1>2. m.kind \in {"user", "call"} => m.to \in Users
  BY DEF FrameMsg
<1>3. m.to \in Users => <<m.to, From(m)>> \in Seq(Users) /\ <<m.to>> \in Seq(Users)
  BY <1>1
<1>4. QED BY <1>1, <1>2, <1>3 DEF Targets

LEMMA InitTypes == Init => TypeInv
<1> SUFFICES ASSUME Init PROVE TypeInv
  OBVIOUS
<1>1. \A c \in Conns : reader[c] \in ReaderOK /\ writer[c] \in WriterOK
  BY DEF Init, ReaderOK, ReaderPc, WriterOK
<1>2. reader \in [Conns -> ReaderOK] /\ writer \in [Conns -> WriterOK]
  BY <1>1 DEF Init
<1>3. start \in StartOK
  <2>1. <<>> \in Seq(Users)
    OBVIOUS
  <2>2. QED BY <2>1 DEF Init, StartOK, ItemOK
<1>4. logout \in [Logouts -> LogoutOK]
  BY DEF Init, LogoutOK
<1>5. TypeOK
  BY <1>2, <1>3, <1>4, ChatAssumption
     DEF Init, TypeOK, StartOK, ItemOK, ReaderOK, ReaderPc, WriterOK, LogoutOK
<1>6. HandInv
  BY DEF Init, HandInv, Holding
<1>7. QueueInv
  BY DEF Init, QueueInv
<1>8. QED BY <1>5, <1>6, <1>7 DEF TypeInv

\* One more message in a channel that has room.
LEMMA Room ==
  ASSUME NEW S, NEW s \in Seq(S), NEW x \in S, Len(s) < ChannelSize
  PROVE  /\ Append(s, x) \in Seq(S) /\ Len(Append(s, x)) <= ChannelSize
         /\ Append(s, x) # <<>> /\ Ran(Append(s, x)) = Ran(s) \cup {x}
<1>1. Len(s) \in Nat /\ ChannelSize \in Nat
  BY LenProperties, ChatAssumption
<1>2. Append(s, x) \in Seq(S) /\ Len(Append(s, x)) = Len(s) + 1
  BY AppendProperties
<1>3. Len(s) + 1 <= ChannelSize /\ Len(s) + 1 # 0
  BY <1>1
<1>4. Append(s, x) # <<>>
  BY <1>2, <1>3, EmptySeq
<1>5. QED BY <1>2, <1>3, <1>4, RanAppend

\* What is left of a channel when one is taken out.
LEMMA Taken ==
  ASSUME NEW S, NEW s \in Seq(S), s # <<>>, Len(s) <= ChannelSize
  PROVE  /\ Head(s) \in S /\ Tail(s) \in Seq(S) /\ Len(Tail(s)) <= ChannelSize
         /\ Ran(s) = {Head(s)} \cup Ran(Tail(s))
<1>1. Len(s) \in Nat /\ ChannelSize \in Nat
  BY LenProperties, ChatAssumption
<1>2. Head(s) \in S /\ Tail(s) \in Seq(S) /\ Len(Tail(s)) = Len(s) - 1
  BY LongTail
<1>3. Len(s) - 1 <= ChannelSize
  BY <1>1
<1>4. QED BY <1>2, <1>3, RanTail

LEMMA RestTypes ==
  ASSUME start \in StartOK, start.pc = "push", Rest
  PROVE  /\ start' \in StartOK
         /\ start'.pc \in {"push", "select"}
         /\ start'.pc = "push" => /\ start'.item = start.item /\ start'.todo = Tail(start.todo)
                                  /\ mutex' = mutex
         /\ start'.pc = "select" => /\ start'.item = NoMsg /\ start'.todo = <<>>
                                    /\ mutex' = Free /\ mutex = Starter
                                    /\ Len(start.todo) \in {0, 1}
<1>1. start.todo \in Seq(Users) /\ start.item \in ItemOK /\ NoMsg \in ItemOK
  BY DEF StartOK, ItemOK
<1>2. Len(start.todo) \in Nat /\ (start.todo # <<>> => Tail(start.todo) \in Seq(Users))
  BY <1>1, LongTail, LenProperties
<1>3. CASE Len(start.todo) > 1
  <2>1. Tail(start.todo) \in Seq(Users)
    <3>1. start.todo # <<>>
      BY <1>3
    <3>2. QED BY <1>2, <3>1
  <2>2. start' = [pc |-> "push", item |-> start.item, todo |-> Tail(start.todo)] /\ mutex' = mutex
    BY <1>3 DEF Rest, Goto
  <2>3. QED BY <1>1, <2>1, <2>2 DEF StartOK
<1>4. CASE ~ (Len(start.todo) > 1)
  <2>1. Len(start.todo) \in {0, 1}
    <3>1. \A n \in Nat : ~ (n > 1) => n \in {0, 1}
      OBVIOUS
    <3>2. QED BY <1>2, <1>4, <3>1
  <2>2. start' = [pc |-> "select", item |-> NoMsg, todo |-> <<>>] /\ mutex = Starter /\ mutex' = Free
    BY <1>4 DEF Rest, Goto, Unlock
  <2>3. <<>> \in Seq(Users)
    OBVIOUS
  <2>4. QED BY <1>1, <2>1, <2>2, <2>3 DEF StartOK
<1>5. QED BY <1>3, <1>4

\* Whose turn it is is a connection, or nobody.
LEMMA ReceiverTypes ==
  ASSUME TypeInv
  PROVE  /\ Receiver \in Conns \cup {None} /\ None \notin Conns
         /\ Receiver # None => /\ start.todo # <<>> /\ Head(start.todo) \in Users
                               /\ Receiver = Clients[Head(start.todo)]
<1>1. start.todo \in Seq(Users) /\ Clients \in [Users -> Conns \cup {None}]
  BY DEF TypeInv, TypeOK
<1>2. start.todo # <<>> => Head(start.todo) \in Users
  BY <1>1, LongTail
<1>3. QED BY <1>1, <1>2, ChatAssumption DEF Receiver

\* A connection's reader moves.
LEMMA ReaderTypes ==
  ASSUME TypeInv, NEW c \in Conns, ConnStep(c)
  PROVE  TypeInv'
<1> USE DEF TypeInv
<1>0. /\ reader \in [Conns -> ReaderOK] /\ writer \in [Conns -> WriterOK]
      /\ \A d \in Conns : reader[d].pc \in ReaderPc
  BY DEF TypeOK, ReaderOK, ReaderPc, WriterOK
<1>a. /\ Transmit \in Seq(FrameMsg) /\ Login \in Seq(Conns) /\ Logout \in Seq(Conns)
      /\ Len(Transmit) <= ChannelSize /\ Len(Login) <= ChannelSize /\ Len(Logout) <= ChannelSize
      /\ \A d \in Conns : /\ SendTo[d] \in Seq(FrameOf(d))
                          /\ Len(SendTo[d]) <= ChannelSize
  BY DEF TypeOK, QueueInv
<1>b. NoMsg \in Msg \cup {NoMsg} /\ FrameMsg \subseteq Msg
  BY FramesAreMessages
<1>c. ASSUME NEW s \in Seq(FrameMsg) PROVE s \in Seq(Msg)
  BY <1>b, Wider
<1>1. ASSUME NewClientInit(c) PROVE TypeInv'
  <2>1. /\ reader' \in [Conns -> ReaderOK] /\ reader'[c].pc = "read" /\ reader'[c].frame = reader[c].frame
        /\ \A d \in Conns \ {c} : reader'[d] = reader[d]
    BY <1>0, <1>1 DEF NewClientInit, ReaderOK, ReaderPc
  <2>2. /\ writer' \in [Conns -> WriterOK] /\ writer'[c].pc = "range" /\ writer'[c].hand = writer[c].hand
        /\ \A d \in Conns \ {c} : writer'[d] = writer[d]
    BY <1>0, <1>1 DEF NewClientInit, WriterOK
  <2>3. Login' \in Seq(Conns) /\ Len(Login') <= ChannelSize
    BY <1>a, <1>1, Room DEF NewClientInit
  <2>4. writer[c].hand = NoMsg /\ reader[c].frame = NoMsg
    BY <1>1 DEF NewClientInit, HandInv, Holding
  <2>5. TypeOK'
    BY <1>1, <2>1, <2>2, <2>3 DEF NewClientInit, TypeOK, ReaderOK, ReaderPc, WriterOK, history
  <2>6. HandInv'
    BY <1>1, <2>1, <2>2, <2>4 DEF NewClientInit, HandInv, Holding
  <2>7. QueueInv'
    BY <1>1 DEF NewClientInit, QueueInv, history
  <2>8. QED BY <2>5, <2>6, <2>7
<1>2. ASSUME ReadMessage(c) PROVE TypeInv'
  <2>1. CASE socket[c] # "open" /\ reader' = [reader EXCEPT ![c].pc = "done"] /\ UNCHANGED frames
    <3>1. /\ reader' \in [Conns -> ReaderOK] /\ reader'[c].pc = "done" /\ reader'[c].frame = reader[c].frame
          /\ \A d \in Conns \ {c} : reader'[d] = reader[d]
      BY <1>0, <2>1 DEF ReaderOK, ReaderPc
    <3>2. TypeOK'
      BY <1>2, <2>1, <3>1 DEF ReadMessage, TypeOK, ReaderOK, ReaderPc, serverVars
    <3>3. HandInv'
      BY <1>2, <3>1 DEF ReadMessage, HandInv, Holding, serverVars
    <3>4. QED BY <1>2, <2>1, <3>2, <3>3 DEF ReadMessage, QueueInv, serverVars
  <2>2. CASE /\ frames[c] < Len(Kinds[c])
             /\ \E m \in Frames(c) : reader' = [reader EXCEPT ![c] = [pc |-> "fill", frame |-> m]]
             /\ frames' = [frames EXCEPT ![c] = @ + 1]
    <3>1. PICK m \in Frames(c) : reader' = [reader EXCEPT ![c] = [pc |-> "fill", frame |-> m]]
      BY <2>2
    <3>2. m \in FrameMsg /\ m.conn = c /\ m \in Msg
      BY <1>b, <2>2, FrameTypes DEF TypeOK
    <3>3. /\ reader' \in [Conns -> ReaderOK] /\ reader'[c].pc = "fill" /\ reader'[c].frame = m
          /\ \A d \in Conns \ {c} : reader'[d] = reader[d]
      BY <1>0, <3>1, <3>2 DEF ReaderOK, ReaderPc
    <3>4. frames' \in [Conns -> Nat]
      BY <2>2, SMTT(30) DEF TypeOK
    <3>5. TypeOK'
      BY <1>2, <3>3, <3>4 DEF ReadMessage, TypeOK, ReaderOK, ReaderPc, serverVars
    <3>6. HandInv'
      BY <1>2, <3>2, <3>3 DEF ReadMessage, HandInv, Holding, serverVars
    <3>7. QED BY <1>2, <3>5, <3>6 DEF ReadMessage, QueueInv, serverVars
  <2>3. QED BY <1>2, <2>1, <2>2 DEF ReadMessage
<1>3. ASSUME FillCheck(c) PROVE TypeInv'
  <2> DEFINE p == IF Len(Transmit) < ChannelSize /\ SendTo[c] # <<>> THEN "carry" ELSE "route"
  <2>1. p \in {"carry", "route"} /\ (p = "carry" => SendTo[c] # <<>>)
    OBVIOUS
  <2>2. reader[c].pc = "fill" /\ reader' = [reader EXCEPT ![c].pc = p]
    BY <1>3 DEF FillCheck
  <2> HIDE DEF p
  <2>3. /\ reader' \in [Conns -> ReaderOK] /\ reader'[c].pc = p /\ reader'[c].frame = reader[c].frame
        /\ \A d \in Conns \ {c} : reader'[d] = reader[d]
    BY <1>0, <2>1, <2>2 DEF ReaderOK, ReaderPc
  <2>4. TypeOK'
    BY <1>3, <2>3 DEF FillCheck, TypeOK, ReaderOK, ReaderPc, serverVars, history
  <2>5. HandInv'
    BY <1>3, <2>1, <2>2, <2>3 DEF FillCheck, HandInv, Holding, serverVars
  <2>6. QED BY <1>3, <2>4, <2>5 DEF FillCheck, QueueInv, serverVars, history
<1>4. ASSUME Carry(c) PROVE TypeInv'
  <2>1. reader[c].pc = "carry" /\ SendTo[c] # <<>> /\ SendTo[c] \in Seq(FrameOf(c))
    BY <1>a, <1>4 DEF Carry, HandInv
  <2>2. /\ Head(SendTo[c]) \in FrameOf(c) /\ Tail(SendTo[c]) \in Seq(FrameOf(c))
        /\ Len(Tail(SendTo[c])) <= ChannelSize /\ FrameOf(c) \subseteq FrameMsg
    BY <1>a, <2>1, Taken DEF FrameOf
  <2>3. /\ reader' \in [Conns -> ReaderOK] /\ reader'[c].pc = "fill" /\ reader'[c].frame = reader[c].frame
        /\ \A d \in Conns \ {c} : reader'[d] = reader[d]
    BY <1>0, <1>4 DEF Carry, ReaderOK, ReaderPc
  <2>4. Transmit' \in Seq(FrameMsg) /\ Len(Transmit') <= ChannelSize /\ Transmit' \in Seq(Msg)
    BY <1>a, <1>c, <1>4, <2>2, Room DEF Carry
  <2>5. /\ SendTo' = [SendTo EXCEPT ![c] = Tail(SendTo[c])] /\ Tail(SendTo[c]) \in Seq(Msg)
        /\ SendTo \in [Conns -> Seq(Msg)]
    BY <1>b, <1>4, <2>2, Wider DEF Carry, TypeOK
  <2>6. /\ SendTo' \in [Conns -> Seq(Msg)] /\ SendTo'[c] = Tail(SendTo[c])
        /\ \A d \in Conns \ {c} : SendTo'[d] = SendTo[d]
    BY <2>5
  <2>7. TypeOK'
    BY <1>4, <2>2, <2>3, <2>4, <2>6 DEF Carry, TypeOK, ReaderOK, ReaderPc, history
  <2>8. HandInv'
    BY <1>4, <2>1, <2>3, <2>6 DEF Carry, HandInv, Holding
  <2>9. QED BY <1>4, <2>2, <2>4, <2>7, <2>8, <2>6 DEF Carry, QueueInv, history
<1>5. ASSUME RouteFrame(c) PROVE TypeInv'
  <2>1. reader[c].pc = "route" /\ reader[c].frame \in FrameMsg /\ reader[c].frame.conn = c
    BY <1>5 DEF RouteFrame, HandInv, Holding
  <2>2. CASE reader' = [reader EXCEPT ![c].pc = "direct"] /\ UNCHANGED <<SendTo, refused, down>>
    <3>1. /\ reader' \in [Conns -> ReaderOK] /\ reader'[c].pc = "direct" /\ reader'[c].frame = reader[c].frame
          /\ \A d \in Conns \ {c} : reader'[d] = reader[d]
      BY <1>0, <2>2 DEF ReaderOK, ReaderPc
    <3>2. TypeOK'
      BY <1>5, <2>2, <3>1 DEF RouteFrame, TypeOK, ReaderOK, ReaderPc, serverVars
    <3>3. HandInv'
      BY <1>5, <2>1, <2>2, <3>1 DEF RouteFrame, HandInv, Holding, serverVars
    <3>4. QED BY <1>5, <2>2, <3>2, <3>3 DEF RouteFrame, QueueInv, serverVars
  <2>3. ASSUME reader' = [reader EXCEPT ![c] = [pc |-> "read", frame |-> NoMsg]]
        PROVE  /\ reader' \in [Conns -> ReaderOK] /\ reader'[c].pc = "read" /\ reader'[c].frame = NoMsg
               /\ \A d \in Conns \ {c} : reader'[d] = reader[d]
    BY <1>0, <1>b, <2>3 DEF ReaderOK, ReaderPc
  <2>4. CASE /\ Len(SendTo[c]) < ChannelSize
             /\ SendTo' = [SendTo EXCEPT ![c] = Append(@, reader[c].frame)]
             /\ reader' = [reader EXCEPT ![c] = [pc |-> "read", frame |-> NoMsg]]
             /\ UNCHANGED <<refused, down>>
    <3> DEFINE q == Append(SendTo[c], reader[c].frame)
    <3>1. q \in Seq(FrameOf(c)) /\ Len(q) <= ChannelSize
      <4>1. reader[c].frame \in FrameOf(c)
      BY <2>1 DEF FrameOf
    <4>2. QED BY <1>a, <2>4, <4>1, Room
    <3>2. q \in Seq(Msg)
      <4> HIDE DEF q
      <4>1. FrameOf(c) \subseteq Msg
        BY <1>b DEF FrameOf
      <4>2. QED BY <3>1, <4>1, Wider
    <3>3. SendTo' = [SendTo EXCEPT ![c] = q] /\ SendTo \in [Conns -> Seq(Msg)]
      BY <2>4 DEF TypeOK
    <3> HIDE DEF q
    <3>4. /\ SendTo' \in [Conns -> Seq(Msg)] /\ SendTo'[c] = q
          /\ \A d \in Conns \ {c} : SendTo'[d] = SendTo[d]
      BY <3>2, <3>3
    <3>5. TypeOK'
      BY <1>5, <2>3, <2>4, <3>1, <3>4 DEF RouteFrame, TypeOK, ReaderOK, ReaderPc, serverVars
    <3>6. HandInv'
      BY <1>5, <2>1, <2>3, <2>4, <3>4 DEF RouteFrame, HandInv, Holding, serverVars
    <3>7. QueueInv'
      BY <1>5, <2>4, <3>1, <3>4 DEF RouteFrame, QueueInv, serverVars
    <3>8. QED BY <3>5, <3>6, <3>7
  <2>5. CASE down' = "sendOnClosed" /\ UNCHANGED <<SendTo, reader, refused>>
    BY <1>5, <2>5 DEF RouteFrame, TypeOK, HandInv, QueueInv, serverVars
  <2>6. CASE /\ reader' = [reader EXCEPT ![c] = [pc |-> "read", frame |-> NoMsg]]
             /\ refused' = refused \cup {reader[c].frame}
             /\ UNCHANGED <<SendTo, down>>
    <3>1. refused' \subseteq FrameMsg /\ refused' \subseteq Msg
      BY <1>b, <2>1, <2>6 DEF QueueInv
    <3>2. TypeOK'
      BY <1>5, <2>3, <2>6, <3>1 DEF RouteFrame, TypeOK, ReaderOK, ReaderPc, serverVars
    <3>3. HandInv'
      BY <1>5, <2>1, <2>3, <2>6 DEF RouteFrame, HandInv, Holding, serverVars
    <3>4. QED BY <1>5, <2>6, <3>1, <3>2, <3>3 DEF RouteFrame, QueueInv, serverVars
  <2>7. QED BY <1>5, <2>2, <2>4, <2>5, <2>6 DEF RouteFrame
<1>6. ASSUME Direct(c) PROVE TypeInv'
  <2>1. reader[c].frame \in FrameMsg
    BY <1>6 DEF Direct, HandInv, Holding
  <2>2. /\ reader' \in [Conns -> ReaderOK] /\ reader'[c].pc = "read" /\ reader'[c].frame = NoMsg
        /\ \A d \in Conns \ {c} : reader'[d] = reader[d]
    BY <1>0, <1>b, <1>6 DEF Direct, ReaderOK, ReaderPc
  <2>3. Transmit' \in Seq(FrameMsg) /\ Len(Transmit') <= ChannelSize /\ Transmit' \in Seq(Msg)
    BY <1>a, <1>c, <1>6, <2>1, Room DEF Direct
  <2>4. TypeOK'
    BY <1>6, <2>2, <2>3 DEF Direct, TypeOK, ReaderOK, ReaderPc, history
  <2>5. HandInv'
    BY <1>6, <2>2 DEF Direct, HandInv, Holding
  <2>6. QED BY <1>6, <2>3, <2>4, <2>5 DEF Direct, QueueInv, history
<1>7. QED BY <1>1, <1>2, <1>3, <1>4, <1>5, <1>6 DEF ConnStep

\* So do the writers and the requests.
LEMMA WriterTypes ==
  ASSUME TypeInv, NEW c \in Conns, WriterStep(c) \/ Disconnect(c)
  PROVE  TypeInv'
<1> USE DEF TypeInv
<1>0. /\ writer \in [Conns -> WriterOK] /\ SendBack \in [Conns -> Seq(Msg)]
      /\ written \in [Conns -> Seq(Msg)] /\ Len(SendBack[c]) <= ChannelSize
      /\ NoMsg \in Msg \cup {NoMsg}
  BY DEF TypeOK, WriterOK
<1>1. CASE Disconnect(c)
  <2>1. socket' \in [Conns -> {"open", "broken", "closed"}]
    BY <1>1 DEF Disconnect, TypeOK
  <2>2. QED BY <1>1, <2>1 DEF Disconnect, TypeOK, HandInv, QueueInv, serverVars, history
<1>2. ASSUME TakeBack(c), SendBack[c] # <<>> PROVE TypeInv'
  <2>1. /\ Head(SendBack[c]) \in Msg /\ Tail(SendBack[c]) \in Seq(Msg)
        /\ Len(Tail(SendBack[c])) <= ChannelSize
    BY <1>0, <1>2, Taken
  <2>2. /\ writer' = [writer EXCEPT ![c] = [pc |-> "write", hand |-> Head(SendBack[c])]]
        /\ SendBack' = [SendBack EXCEPT ![c] = Tail(SendBack[c])]
    BY <1>2 DEF TakeBack
  <2>3. /\ writer' \in [Conns -> WriterOK] /\ writer'[c].pc = "write" /\ writer'[c].hand \in Msg
        /\ \A d \in Conns \ {c} : writer'[d] = writer[d]
    BY <1>0, <2>1, <2>2 DEF WriterOK
  <2>4. /\ SendBack' \in [Conns -> Seq(Msg)] /\ Len(SendBack'[c]) <= ChannelSize
        /\ \A d \in Conns \ {c} : SendBack'[d] = SendBack[d]
    BY <1>0, <2>1, <2>2
  <2>5. TypeOK'
    BY <1>2, <2>3, <2>4 DEF TakeBack, TypeOK, WriterOK, serverVars, history
  <2>6. HandInv'
    BY <1>2, <2>3 DEF TakeBack, HandInv, serverVars
  <2>7. QED BY <1>2, <2>5, <2>6 DEF TakeBack, QueueInv, serverVars, history
<1>3. ASSUME TakeBack(c), SendBack[c] = <<>> PROVE TypeInv'
  <2>1. /\ writer' \in [Conns -> WriterOK] /\ writer'[c].pc = "done"
        /\ \A d \in Conns \ {c} : writer'[d] = writer[d]
    BY <1>0, <1>3 DEF TakeBack, WriterOK
  <2>2. reader[c].pc # "new"
    BY <1>3 DEF TakeBack, HandInv
  <2>3. TypeOK'
    BY <1>3, <2>1 DEF TakeBack, TypeOK, WriterOK, serverVars, history
  <2>4. HandInv'
    BY <1>3, <2>1, <2>2 DEF TakeBack, HandInv, serverVars
  <2>5. QED BY <1>3, <2>3, <2>4 DEF TakeBack, QueueInv, serverVars, history
<1>4. ASSUME WriteBack(c) PROVE TypeInv'
  <2>1. writer[c].hand \in Msg /\ reader[c].pc # "new"
    BY <1>4 DEF WriteBack, HandInv
  <2>2. \/ /\ written' = [written EXCEPT ![c] = Append(@, writer[c].hand)]
           /\ db' = [db EXCEPT !.sent = @ \cup ({writer[c].hand} \cap db.stored)]
           /\ writer' = [writer EXCEPT ![c] = [pc |-> "range", hand |-> NoMsg]]
        \/ writer' = [writer EXCEPT ![c].pc = "done"] /\ UNCHANGED <<written, db>>
    BY <1>4 DEF WriteBack
  <2>3. /\ writer' \in [Conns -> WriterOK] /\ writer'[c].pc \in {"range", "done"}
        /\ writer'[c].pc = "range" => writer'[c].hand = NoMsg
        /\ \A d \in Conns \ {c} : writer'[d] = writer[d]
    <3>1. CASE writer' = [writer EXCEPT ![c] = [pc |-> "range", hand |-> NoMsg]]
      BY <1>0, <3>1 DEF WriterOK
    <3>2. CASE writer' = [writer EXCEPT ![c].pc = "done"]
      BY <1>0, <3>2 DEF WriterOK
    <3>3. QED BY <2>2, <3>1, <3>2
  <2>4. written' \in [Conns -> Seq(Msg)]
    <3>1. Append(written[c], writer[c].hand) \in Seq(Msg)
      BY <1>0, <2>1, AppendProperties
    <3>2. QED BY <1>0, <2>2, <3>1
  <2>5. db' \in DbOK /\ db'.stored = db.stored
    <3>1. db \in DbOK
      BY DEF TypeOK, DbOK
    <3>2. CASE db' = [db EXCEPT !.sent = @ \cup ({writer[c].hand} \cap db.stored)]
      BY <2>1, <3>1, <3>2 DEF DbOK
    <3>3. QED BY <2>2, <3>1, <3>2
  <2>6. TypeOK'
    BY <1>4, <2>3, <2>4, <2>5 DEF WriteBack, TypeOK, WriterOK, DbOK, serverVars
  <2>7. HandInv'
    BY <1>4, <2>1, <2>3 DEF WriteBack, HandInv, serverVars
  <2>8. QED BY <1>4, <2>5, <2>6, <2>7 DEF WriteBack, QueueInv, serverVars
<1>5. QED BY <1>1, <1>2, <1>3, <1>4 DEF WriterStep

LEMMA LogoutTypes ==
  ASSUME TypeInv, NEW l \in Logouts, LogoutStep(l)
  PROVE  TypeInv'
<1> USE DEF TypeInv
<1>0. logout \in [Logouts -> LogoutOK] /\ socket \in [Conns -> {"open", "broken", "closed"}]
  BY DEF TypeOK, LogoutOK
<1>1. ASSUME LookupClient(l) PROVE TypeInv'
  <2>1. CASE down' = "mapRace" /\ UNCHANGED logout
    BY <1>1, <2>1 DEF LookupClient, TypeOK, HandInv, QueueInv, serverVars, connVars, history
  <2>2. CASE /\ UNCHANGED down
             /\ logout' = [logout EXCEPT ![l] =
                             IF Clients[LogoutOf[l]] = None
                               THEN [pc |-> "done", client |-> None]
                               ELSE [pc |-> "send", client |-> Clients[LogoutOf[l]]]]
    <3>1. Clients[LogoutOf[l]] \in Conns \cup {None}
      BY ChatAssumption DEF TypeOK
    <3>2. /\ logout' \in [Logouts -> LogoutOK]
          /\ \/ logout'[l].pc = "done"
             \/ logout'[l].pc = "send" /\ logout'[l].client \in Conns
          /\ \A k \in Logouts \ {l} : logout'[k] = logout[k]
      BY <1>0, <2>2, <3>1 DEF LogoutOK
    <3>3. TypeOK'
      BY <1>1, <2>2, <3>2 DEF LookupClient, TypeOK, LogoutOK, serverVars, connVars, history
    <3>4. HandInv'
      BY <1>1, <3>2 DEF LookupClient, HandInv, serverVars, connVars
    <3>5. QED BY <1>1, <3>3, <3>4 DEF LookupClient, QueueInv, serverVars, connVars, history
  <2>3. QED BY <1>1, <2>1, <2>2 DEF LookupClient
<1>2. ASSUME NEW p \in {"close", "chans", "done"}, logout' = [logout EXCEPT ![l].pc = p],
             logout[l].pc \in {"send", "close", "chans"}
      PROVE  /\ logout' \in [Logouts -> LogoutOK]
             /\ \A k \in Logouts :
                  logout'[k].pc \in {"send", "close", "chans"} => logout'[k].client \in Conns
  <2>1. /\ logout' \in [Logouts -> LogoutOK] /\ logout'[l].client = logout[l].client
        /\ \A k \in Logouts \ {l} : logout'[k] = logout[k]
    BY <1>0, <1>2 DEF LogoutOK
  <2>2. QED BY <1>2, <2>1 DEF HandInv
<1>3. ASSUME SendClientToLogout(l) PROVE TypeInv'
  <2>1. Logout' \in Seq(Conns) /\ Len(Logout') <= ChannelSize
    <3>1. logout[l].client \in Conns /\ Logout \in Seq(Conns)
      BY <1>3 DEF SendClientToLogout, TypeOK, HandInv
    <3>2. QED BY <1>3, <3>1, Room DEF SendClientToLogout
  <2>2. /\ logout' \in [Logouts -> LogoutOK]
        /\ \A k \in Logouts :
             logout'[k].pc \in {"send", "close", "chans"} => logout'[k].client \in Conns
    BY <1>2, <1>3 DEF SendClientToLogout
  <2>3. TypeOK'
    BY <1>3, <2>1, <2>2 DEF SendClientToLogout, TypeOK, LogoutOK, connVars, history
  <2>4. HandInv'
    BY <1>3, <2>2 DEF SendClientToLogout, HandInv, connVars
  <2>5. QED BY <1>3, <2>3, <2>4 DEF SendClientToLogout, QueueInv, connVars, history
<1>4. ASSUME CloseConn(l) PROVE TypeInv'
  <2> DEFINE p == IF socket[logout[l].client] = "closed" THEN "done" ELSE "chans"
  <2>1. logout' = [logout EXCEPT ![l].pc = p] /\ logout[l].pc = "close"
    BY <1>4 DEF CloseConn
  <2>2. /\ logout' \in [Logouts -> LogoutOK]
        /\ \A k \in Logouts :
             logout'[k].pc \in {"send", "close", "chans"} => logout'[k].client \in Conns
    <3>1. p \in {"close", "chans", "done"}
      OBVIOUS
    <3> HIDE DEF p
    <3>2. QED BY <1>2, <2>1, <3>1
  <2>3. socket' \in [Conns -> {"open", "broken", "closed"}]
    BY <1>0, <1>4 DEF CloseConn
  <2>4. TypeOK'
    BY <1>4, <2>2, <2>3 DEF CloseConn, TypeOK, LogoutOK, serverVars, history
  <2>5. HandInv'
    BY <1>4, <2>2 DEF CloseConn, HandInv, serverVars
  <2>6. QED BY <1>4, <2>4, <2>5 DEF CloseConn, QueueInv, serverVars, history
<1>5. ASSUME CloseChans(l) PROVE TypeInv'
  <2>1. /\ logout' \in [Logouts -> LogoutOK]
        /\ \A k \in Logouts :
             logout'[k].pc \in {"send", "close", "chans"} => logout'[k].client \in Conns
    BY <1>2, <1>5 DEF CloseChans
  <2>2. chansClosed' \subseteq Conns
    BY <1>5 DEF CloseChans, TypeOK, HandInv
  <2>3. TypeOK'
    BY <1>5, <2>1, <2>2 DEF CloseChans, TypeOK, LogoutOK, serverVars, history
  <2>4. HandInv'
    BY <1>5, <2>1 DEF CloseChans, HandInv, serverVars
  <2>5. QED BY <1>5, <2>3, <2>4 DEF CloseChans, QueueInv, serverVars, history
<1>6. QED BY <1>1, <1>3, <1>4, <1>5 DEF LogoutStep

\* So do Start and the AI tasks.
LEMMA StartTypes ==
  ASSUME TypeInv, StartStep
  PROVE  TypeInv'
<1> USE DEF TypeInv
<1>0. /\ start \in StartOK /\ Clients \in [Users -> Conns \cup {None}]
      /\ SendBack \in [Conns -> Seq(Msg)] /\ db \in DbOK /\ dispatched \in Seq(FrameMsg)
      /\ Transmit \in Seq(FrameMsg) /\ Login \in Seq(Conns) /\ Logout \in Seq(Conns)
      /\ Len(Transmit) <= ChannelSize /\ Len(Login) <= ChannelSize /\ Len(Logout) <= ChannelSize
  BY DEF TypeOK, StartOK, ItemOK, DbOK, QueueInv
<1>a. <<>> \in Seq(Users) /\ FrameMsg \subseteq Msg
  BY FramesAreMessages
<1>1. ASSUME NEW p \in {"add", "remove"}, NEW c \in Conns,
             start' = [pc |-> p, item |-> [NoMsg EXCEPT !.conn = c], todo |-> <<>>]
      PROVE  start' \in StartOK /\ start'.pc = p /\ start'.item.conn = c /\ start'.todo = <<>>
  <2>1. /\ [NoMsg EXCEPT !.conn = c] \in [conn : Conns, n : {0}, kind : {"none"}, to : {None}]
        /\ [NoMsg EXCEPT !.conn = c].conn = c
    BY DEF NoMsg
  <2>2. QED BY <1>a, <1>1, <2>1 DEF StartOK, ItemOK
<1>2. ASSUME TakeLogin PROVE TypeInv'
  <2>1. Head(Login) \in Conns /\ Tail(Login) \in Seq(Conns) /\ Len(Tail(Login)) <= ChannelSize
    BY <1>0, <1>2, Taken DEF TakeLogin
  <2>2. start' = [pc |-> "add", item |-> [NoMsg EXCEPT !.conn = Head(Login)], todo |-> <<>>]
    BY <1>2 DEF TakeLogin, Goto
  <2>3. start' \in StartOK /\ start'.pc = "add" /\ start'.item.conn \in Conns /\ start'.todo = <<>>
    BY <1>1, <2>1, <2>2
  <2>4. TypeOK'
    BY <1>2, <2>1, <2>3 DEF TakeLogin, TypeOK, StartOK, ItemOK, connVars, history
  <2>5. HandInv'
    BY <1>2, <2>3 DEF TakeLogin, HandInv, connVars
  <2>6. QED BY <1>2, <2>4, <2>5 DEF TakeLogin, QueueInv, connVars, history
<1>3. ASSUME TakeLogout PROVE TypeInv'
  <2>1. Head(Logout) \in Conns /\ Tail(Logout) \in Seq(Conns) /\ Len(Tail(Logout)) <= ChannelSize
    BY <1>0, <1>3, Taken DEF TakeLogout
  <2>2. start' = [pc |-> "remove", item |-> [NoMsg EXCEPT !.conn = Head(Logout)], todo |-> <<>>]
    BY <1>3 DEF TakeLogout, Goto
  <2>3. start' \in StartOK /\ start'.pc = "remove" /\ start'.item.conn \in Conns /\ start'.todo = <<>>
    BY <1>1, <2>1, <2>2
  <2>4. TypeOK'
    BY <1>3, <2>1, <2>3 DEF TakeLogout, TypeOK, StartOK, ItemOK, connVars, history
  <2>5. HandInv'
    BY <1>3, <2>3 DEF TakeLogout, HandInv, connVars
  <2>6. QED BY <1>3, <2>4, <2>5 DEF TakeLogout, QueueInv, connVars, history
<1>4. ASSUME AddClient \/ RemoveClient PROVE TypeInv'
  <2>1. start.item.conn \in Conns /\ From(start.item) \in Users
    BY <1>4, ChatAssumption DEF AddClient, RemoveClient, HandInv, From
  <2>2. Clients' \in [Users -> Conns \cup {None}]
    BY <1>0, <1>4, <2>1 DEF AddClient, RemoveClient
  <2>3. start' = [pc |-> "select", item |-> NoMsg, todo |-> <<>>]
    BY <1>4 DEF AddClient, RemoveClient, Goto
  <2>4. start' \in StartOK
    BY <1>a, <2>3 DEF StartOK, ItemOK
  <2>5. /\ UNCHANGED <<Transmit, Login, Logout, logout, tasks, db, down, socket, reader, writer, SendTo,
                       SendBack, chansClosed, frames, refused, dispatched, due, written>>
    BY <1>4 DEF AddClient, RemoveClient, connVars, history
  <2>6. TypeOK'
    BY <2>2, <2>4, <2>5 DEF TypeOK, StartOK, ItemOK
  <2>7. HandInv'
    BY <2>3, <2>5 DEF HandInv
  <2>8. QED BY <2>5, <2>6, <2>7 DEF QueueInv
<1>5. ASSUME TakeTransmit PROVE TypeInv'
  <2> DEFINE m == Head(Transmit)
  <2>1. m \in FrameMsg /\ Tail(Transmit) \in Seq(FrameMsg) /\ Len(Tail(Transmit)) <= ChannelSize
    BY <1>0, <1>5, Taken DEF TakeTransmit
  <2>2. /\ Transmit' = Tail(Transmit) /\ dispatched' = Append(dispatched, m)
        /\ UNCHANGED <<Clients, Login, Logout, logout, socket, reader, writer, SendTo, SendBack,
                       chansClosed, frames, refused, due, written, down>>
    BY <1>5 DEF TakeTransmit, connVars
  <2>3. /\ IF m.kind = "ai"
             THEN /\ db' = [stored |-> db.stored \cup {m}, sent |-> db.sent \cup {m}]
                  /\ \E by \in {"pool", "bare"} :
                       tasks' = tasks \cup {[msg |-> m, by |-> by, pc |-> "think"]}
                  /\ UNCHANGED start
             ELSE /\ \E row \in SUBSET {m} : db' = [db EXCEPT !.stored = @ \cup row]
                  /\ start' = [pc |-> "push", item |-> m, todo |-> Targets(m)]
                  /\ UNCHANGED tasks
    BY <1>5 DEF TakeTransmit, Goto
  <2> HIDE DEF m
  <2>4. /\ dispatched' \in Seq(FrameMsg) /\ Ran(dispatched') = Ran(dispatched) \cup {m}
        /\ Transmit' \in Seq(FrameMsg) /\ Len(Transmit') <= ChannelSize
        /\ dispatched' \in Seq(Msg) /\ Transmit' \in Seq(Msg)
    <3>1. dispatched' \in Seq(FrameMsg) /\ Ran(dispatched') = Ran(dispatched) \cup {m}
      BY <1>0, <2>1, <2>2, RanAppend, AppendProperties
    <3>2. Transmit' \in Seq(FrameMsg) /\ Len(Transmit') <= ChannelSize
      BY <2>1, <2>2 DEF m
    <3>3. QED BY <1>a, <3>1, <3>2, Wider
  <2>5. db' \in DbOK /\ db'.stored \subseteq FrameMsg
    <3>1. m \in Msg /\ db.stored \subseteq FrameMsg
      BY <1>a, <2>1 DEF QueueInv
    <3>2. CASE m.kind = "ai"
      BY <1>0, <2>1, <2>3, <3>1, <3>2 DEF DbOK
    <3>3. CASE m.kind # "ai"
      <4>1. PICK row \in SUBSET {m} : db' = [db EXCEPT !.stored = @ \cup row]
        BY <2>3, <3>3
      <4>2. QED BY <1>0, <2>1, <3>1, <4>1 DEF DbOK
    <3>4. QED BY <3>2, <3>3
  <2>6. tasks' \subseteq TaskOK /\ \A t \in tasks' : t.msg \in Ran(dispatched')
    <3>1. m \in Msg /\ tasks \subseteq TaskOK /\ \A t \in tasks : t.msg \in Ran(dispatched')
      BY <1>a, <2>1, <2>4 DEF TypeOK, TaskOK, QueueInv
    <3>2. CASE UNCHANGED tasks
      BY <3>1, <3>2
    <3>3. CASE \E by \in {"pool", "bare"} : tasks' = tasks \cup {[msg |-> m, by |-> by, pc |-> "think"]}
      BY <2>4, <3>1, <3>3 DEF TaskOK
    <3>4. QED BY <2>3, <3>2, <3>3
  <2>7. /\ start' \in StartOK /\ start'.pc \in {"select", "push"}
        /\ start'.pc = "push" => start'.item = m /\ m.kind # "ai"
        /\ start'.pc = "select" => start' = start
    <3>1. start.pc = "select"
      BY <1>5 DEF TakeTransmit
    <3>2. CASE m.kind = "ai"
      BY <1>0, <2>3, <3>1, <3>2
    <3>3. CASE m.kind # "ai"
      <4>1. Targets(m) \in Seq(Users) /\ m \in Msg
        BY <1>a, <2>1, <3>3, TargetTypes
      <4>2. QED BY <2>3, <3>3, <4>1 DEF StartOK, ItemOK
    <3>4. QED BY <3>2, <3>3
  <2>8. TypeOK'
    BY <2>2, <2>4, <2>5, <2>6, <2>7 DEF TypeOK, StartOK, ItemOK, DbOK, TaskOK
  <2>9. HandInv'
    BY <2>1, <2>2, <2>7 DEF HandInv
  <2>10. QED BY <2>2, <2>4, <2>5, <2>6, <2>8, <2>9 DEF QueueInv
<1>6. ASSUME Push PROVE TypeInv'
  <2>1. start.pc = "push" /\ start.item \in FrameMsg /\ start.item.kind # "ai" /\ start.item \in Msg
    BY <1>a, <1>6 DEF Push, HandInv
  <2>2. /\ start' \in StartOK
        /\ start'.pc \in {"push", "select"}
        /\ start'.pc = "push" => start'.item = start.item
        /\ start'.pc = "select" => start'.todo = <<>>
    <3>1. CASE Rest
      BY <1>0, <2>1, <3>1, RestTypes
    <3>2. CASE UNCHANGED start
      BY <1>0, <2>1, <3>2
    <3>3. QED BY <1>6, <3>1, <3>2 DEF Push
  <2>3. /\ SendBack' \in [Conns -> Seq(Msg)]
        /\ \A d \in Conns : Len(SendBack'[d]) <= ChannelSize
    <3>1. CASE UNCHANGED SendBack
      BY <3>1 DEF TypeOK
    <3>2. CASE ~ UNCHANGED SendBack
      <4>1. PICK c \in Conns : /\ Len(SendBack[c]) < ChannelSize
                               /\ SendBack' = [SendBack EXCEPT ![c] = Append(@, start.item)]
        BY <1>6, <3>2, ReceiverTypes DEF Push
      <4> DEFINE q == Append(SendBack[c], start.item)
      <4>2. q \in Seq(Msg) /\ Len(q) <= ChannelSize
        BY <1>0, <2>1, <4>1, Room
      <4>3. SendBack' = [SendBack EXCEPT ![c] = q]
        BY <4>1
      <4> HIDE DEF q
      <4>4. QED BY <1>0, <4>2, <4>3 DEF TypeOK
    <3>3. QED BY <3>1, <3>2
  <2>4. /\ UNCHANGED <<Clients, Transmit, Login, Logout, logout, tasks, db, socket, reader, writer, SendTo,
                       chansClosed, frames, refused, dispatched, due, written>>
        /\ down' \in DownOK
    BY <1>6 DEF Push, TypeOK, DownOK, history
  <2>5. TypeOK'
    BY <2>2, <2>3, <2>4 DEF TypeOK, StartOK, ItemOK, DownOK
  <2>6. HandInv'
    BY <2>1, <2>2, <2>4 DEF HandInv
  <2>7. QED BY <2>4, <2>5, <2>6 DEF QueueInv
<1>7. QED BY <1>2, <1>3, <1>4, <1>5, <1>6 DEF StartStep

LEMMA TaskTypes ==
  ASSUME TypeInv, NEW t \in tasks, TaskStep(t)
  PROVE  TypeInv'
<1> USE DEF TypeInv
<1>0. /\ tasks \subseteq TaskOK /\ \A s \in tasks : s.msg \in Ran(dispatched)
      /\ SendBack \in [Conns -> Seq(Msg)] /\ Clients \in [Users -> Conns \cup {None}]
  BY DEF TypeOK, TaskOK, QueueInv
<1>1. ASSUME Think(t) PROVE TypeInv'
  <2>1. tasks' \subseteq TaskOK /\ \A s \in tasks' : s.msg \in Ran(dispatched)
    <3>1. [t EXCEPT !.pc = "push"] \in TaskOK /\ [t EXCEPT !.pc = "push"].msg = t.msg
      BY <1>0 DEF TaskOK
    <3>2. tasks' \subseteq tasks \cup {[t EXCEPT !.pc = "push"]}
      BY <1>1 DEF Think
    <3>3. QED BY <1>0, <3>1, <3>2
  <2>2. TypeOK'
    BY <1>1, <2>1 DEF Think, TypeOK, TaskOK, serverVars, connVars, history
  <2>3. HandInv'
    BY <1>1 DEF Think, HandInv, serverVars, connVars
  <2>4. QED BY <1>1, <2>1, <2>2, <2>3 DEF Think, QueueInv, serverVars, connVars, history
<1>2. ASSUME PushReply(t) PROVE TypeInv'
  <2> DEFINE reply == [t.msg EXCEPT !.kind = "reply"]
  <2>1. reply \in Msg /\ From(t.msg) \in Users
    <3>1. t.msg \in Msg
      BY <1>0 DEF TaskOK
    <3>2. QED BY <3>1, SenderKnown DEF Msg
  <2> HIDE DEF reply
  <2>2. /\ SendBack' \in [Conns -> Seq(Msg)]
        /\ \A d \in Conns : Len(SendBack'[d]) <= ChannelSize
    <3>1. CASE UNCHANGED SendBack
      BY <3>1 DEF TypeOK
    <3>2. CASE ~ UNCHANGED SendBack
      <4>1. PICK c \in Conns : /\ Len(SendBack[c]) < ChannelSize
                               /\ SendBack' = [SendBack EXCEPT ![c] = Append(@, reply)]
        BY <1>0, <1>2, <2>1, <3>2 DEF PushReply, reply
      <4> DEFINE q == Append(SendBack[c], reply)
      <4>2. q \in Seq(Msg) /\ Len(q) <= ChannelSize
        BY <1>0, <2>1, <4>1, Room
      <4>3. SendBack' = [SendBack EXCEPT ![c] = q]
        BY <4>1
      <4> HIDE DEF q
      <4>4. QED BY <1>0, <4>2, <4>3 DEF TypeOK
    <3>3. QED BY <3>1, <3>2
  <2>3. tasks' \subseteq tasks /\ down' \in DownOK
    BY <1>2 DEF PushReply, TypeOK, DownOK
  <2>4. TypeOK'
    BY <1>0, <1>2, <2>2, <2>3 DEF PushReply, TypeOK, TaskOK, DownOK, serverVars, history
  <2>5. HandInv'
    BY <1>2 DEF PushReply, HandInv, serverVars
  <2>6. QED BY <1>2, <2>3, <2>4, <2>5 DEF PushReply, QueueInv, serverVars, history
<1>3. QED BY <1>1, <1>2 DEF TaskStep

LEMMA TypeStep ==
  ASSUME TypeInv, [Next]_vars
  PROVE  TypeInv'
<1>1. ASSUME Acquire PROVE TypeInv'
  <2>1. due' \subseteq Msg \X Conns
    <3>1. start.item \in Msg \/ start.todo = <<>>
      BY FramesAreMessages DEF TypeInv, HandInv
    <3>2. Online(start.todo) \subseteq Conns /\ (start.todo = <<>> => Online(start.todo) = {})
      <4>1. Ran(start.todo) \subseteq Users /\ (start.todo = <<>> => Ran(start.todo) = {})
        BY DEF TypeInv, TypeOK, Ran
      <4>2. QED BY <4>1 DEF Online, TypeInv, TypeOK
    <3>3. QED BY <1>1, <3>1, <3>2 DEF Acquire, TypeInv, TypeOK
  <2>2. UNCHANGED <<serverVars, connVars, logout, tasks, db, frames, refused, dispatched, written, down>>
    BY <1>1 DEF Acquire
  <2>3. TypeOK'
    BY <2>1, <2>2 DEF TypeInv, TypeOK, serverVars, connVars
  <2>4. HandInv'
    BY <2>2 DEF TypeInv, HandInv, serverVars, connVars
  <2>5. QED BY <2>2, <2>3, <2>4 DEF TypeInv, QueueInv, serverVars, connVars
<1>2. CASE UNCHANGED vars
  BY <1>2 DEF vars, serverVars, connVars, history, TypeInv, TypeOK, HandInv, QueueInv
<1>3. QED BY <1>1, <1>2, ReaderTypes, WriterTypes, LogoutTypes, StartTypes, TaskTypes DEF Next

\* For any number of users, connections, logouts and tasks, every variable keeps
\* its type, and none of the channels holds more than it was made for.
THEOREM ChatTypes == Spec => []TypeOK
<1>1. Spec => []TypeInv
  BY InitTypes, TypeStep, PTL DEF Spec
<1>2. TypeInv => TypeOK
  BY DEF TypeInv
<1>3. QED BY <1>1, <1>2, PTL
-----------------------------------------------------------------------------
(* Who holds the mutex                                                       *)

\* The map leads from a user to a connection of that user.
MapInv == \A u \in Users : Clients[u] # None => Clients[u] \in Conns /\ Owner[Clients[u]] = u

LEMMA MapInit == Init => MapInv
BY DEF Init, MapInv

LEMMA MapStep ==
  ASSUME TypeInv, MapInv, [Next]_vars
  PROVE  MapInv'
<1>1. CASE UNCHANGED Clients
  BY <1>1 DEF MapInv
<1>2. CASE AddClient \/ RemoveClient
  <2>1. /\ start.item.conn \in Conns /\ From(start.item) = Owner[start.item.conn]
        /\ From(start.item) \in Users /\ Clients \in [Users -> Conns \cup {None}]
    BY <1>2, ChatAssumption DEF AddClient, RemoveClient, TypeInv, TypeOK, HandInv, From
  <2>2. \/ Clients' = [Clients EXCEPT ![From(start.item)] = start.item.conn]
        \/ Clients' = [Clients EXCEPT ![From(start.item)] = None]
    BY <1>2 DEF AddClient, RemoveClient
  <2>3. QED BY <2>1, <2>2 DEF MapInv
<1>3. QED
  BY <1>1, <1>2
     DEF Next, ConnStep, WriterStep, LogoutStep, StartStep, TaskStep, vars, serverVars, Acquire,
         NewClientInit, ReadMessage, FillCheck, Carry, RouteFrame, Direct, Disconnect, TakeBack,
         WriteBack, LookupClient, SendClientToLogout, CloseConn, CloseChans, TakeLogin, TakeLogout,
         TakeTransmit, Push, Think, PushReply

\* The readers that stand before the mutex, or hold it.
AtLock == {"new", "carry", "direct"}

\* The task that the pool's recover ended while it held the mutex.
Dead(m) == A([msg |-> m, by |-> "pool", pc |-> "push"])

Held ==
  \/ mutex = Free
  \/ mutex = Starter /\ start.pc # "select"
  \/ \E c \in Conns : mutex = R(c) /\ reader[c].pc \in AtLock
  \/ \E l \in Logouts : mutex = L(l) /\ logout[l].pc = "send"
  \/ \E t \in tasks : mutex = A(t) /\ t.pc = "push"
  \/ \E m \in Ran(dispatched) : \E c \in chansClosed : Owner[c] = From(m) /\ mutex = Dead(m)

MutexInv == Up => Held

LEMMA HeldIsNoLeak == MutexInv => NoLockLeak
BY DEF MutexInv, Held, AtLock, Dead, NoLockLeak, Waiting

LEMMA MutexInit == Init => MutexInv
BY DEF Init, MutexInv, Held

\* A step that leaves the mutex alone, and everybody who may hold it where he is.
LEMMA HoldersStay ==
  ASSUME MutexInv, Up' => Up, UNCHANGED mutex,
         start.pc # "select" => start'.pc # "select",
         \A c \in Conns : reader[c].pc \in AtLock => reader'[c].pc \in AtLock,
         \A l \in Logouts : logout[l].pc = "send" => logout'[l].pc = "send",
         \A t \in tasks : t.pc = "push" => t \in tasks',
         Ran(dispatched) \subseteq Ran(dispatched'), chansClosed \subseteq chansClosed'
  PROVE  MutexInv'
<1>1. SUFFICES ASSUME Up', Held PROVE Held'
  BY DEF MutexInv
<1>2. CASE \E m \in Ran(dispatched) : \E c \in chansClosed : Owner[c] = From(m) /\ mutex = Dead(m)
  BY <1>2 DEF Held, Dead
<1>3. CASE mutex = Free \/ (mutex = Starter /\ start.pc # "select")
  BY <1>3 DEF Held
<1>4. CASE \E c \in Conns : mutex = R(c) /\ reader[c].pc \in AtLock
  BY <1>4 DEF Held
<1>5. CASE \E l \in Logouts : mutex = L(l) /\ logout[l].pc = "send"
  BY <1>5 DEF Held
<1>6. CASE \E t \in tasks : mutex = A(t) /\ t.pc = "push"
  BY <1>6 DEF Held
<1>7. QED BY <1>1, <1>2, <1>3, <1>4, <1>5, <1>6 DEF Held

LEMMA MutexStep ==
  ASSUME TypeInv, MapInv, MutexInv, [Next]_vars
  PROVE  MutexInv'
<1>0. /\ reader \in [Conns -> ReaderOK] /\ start \in StartOK /\ logout \in [Logouts -> LogoutOK]
      /\ tasks \subseteq TaskOK /\ dispatched \in Seq(FrameMsg)
  BY DEF TypeInv, TypeOK, ReaderOK, ReaderPc, StartOK, ItemOK, LogoutOK, TaskOK, QueueInv
<1>1. CASE mutex' = Free
  BY <1>1 DEF MutexInv, Held
<1>2. CASE Acquire
  <2>1. mutex' \in Waiting /\ UNCHANGED <<start, reader, logout, tasks>>
    BY <1>2 DEF Acquire, Lock, serverVars, connVars
  <2>2. QED BY <2>1 DEF MutexInv, Held, Waiting, AtLock
<1>3. ASSUME NEW c \in Conns, ReadMessage(c) \/ FillCheck(c) \/ RouteFrame(c) PROVE MutexInv'
  <2>1. reader[c].pc \notin AtLock
    BY <1>3 DEF ReadMessage, FillCheck, RouteFrame, AtLock
  <2>2. \A d \in Conns \ {c} : reader'[d] = reader[d]
    BY <1>0, <1>3 DEF ReadMessage, FillCheck, RouteFrame
  <2>3. Up /\ UNCHANGED <<mutex, start, logout, tasks, dispatched, chansClosed>>
    BY <1>3 DEF ReadMessage, FillCheck, RouteFrame, serverVars, history
  <2>4. QED BY <2>1, <2>2, <2>3, HoldersStay
<1>4. ASSUME NEW c \in Conns, Disconnect(c) \/ WriterStep(c) PROVE MutexInv'
  <2>1. Up /\ UNCHANGED <<mutex, start, reader, logout, tasks, dispatched, chansClosed>>
    BY <1>4 DEF Disconnect, WriterStep, TakeBack, WriteBack, serverVars, history
  <2>2. QED BY <2>1, HoldersStay
<1>5. ASSUME NEW l \in Logouts, LookupClient(l) \/ CloseConn(l) \/ CloseChans(l) PROVE MutexInv'
  <2>1. logout[l].pc # "send" /\ chansClosed \subseteq chansClosed'
    BY <1>5 DEF LookupClient, CloseConn, CloseChans, connVars
  <2>2. \A k \in Logouts \ {l} : logout'[k] = logout[k]
    BY <1>0, <1>5 DEF LookupClient, CloseConn, CloseChans
  <2>3. Up /\ UNCHANGED <<mutex, start, reader, tasks, dispatched>>
    BY <1>5 DEF LookupClient, CloseConn, CloseChans, serverVars, connVars, history
  <2>4. QED BY <2>1, <2>2, <2>3, HoldersStay
<1>6. CASE TakeLogin \/ TakeLogout \/ TakeTransmit
  <2>1. Up /\ start.pc = "select" /\ UNCHANGED <<mutex, reader, logout, chansClosed>>
    BY <1>6 DEF TakeLogin, TakeLogout, TakeTransmit, connVars
  <2>2. tasks \subseteq tasks'
    BY <1>6 DEF TakeLogin, TakeLogout, TakeTransmit
  <2>3. Ran(dispatched) \subseteq Ran(dispatched')
    <3>1. CASE UNCHANGED dispatched
      BY <3>1
    <3>2. CASE TakeTransmit
      <4>1. Head(Transmit) \in FrameMsg /\ dispatched' = Append(dispatched, Head(Transmit))
        BY <3>2, LongTail DEF TakeTransmit, TypeInv, QueueInv
      <4>2. QED BY <1>0, <4>1, RanAppend
    <3>3. QED BY <1>6, <3>1, <3>2 DEF TakeLogin, TakeLogout, history
  <2>4. QED BY <2>1, <2>2, <2>3, HoldersStay
<1>7. CASE Push
  <2>1. Up /\ start.pc = "push" /\ UNCHANGED <<reader, logout, tasks, dispatched, chansClosed>>
    BY <1>7 DEF Push, history
  <2>2. mutex' = Free \/ (UNCHANGED mutex /\ start'.pc # "select")
    <3>1. CASE Rest
      BY <1>0, <2>1, <3>1, RestTypes
    <3>2. CASE UNCHANGED <<start, mutex>>
      BY <2>1, <3>2
    <3>3. QED BY <1>7, <3>1, <3>2 DEF Push
  <2>3. QED BY <1>1, <2>1, <2>2, HoldersStay
<1>8. ASSUME NEW t \in tasks, Think(t) PROVE MutexInv'
  <2>1. Up /\ t.pc = "think" /\ tasks \ {t} \subseteq tasks'
        /\ UNCHANGED <<mutex, start, reader, logout, dispatched, chansClosed>>
    BY <1>8 DEF Think, serverVars, connVars, history
  <2>2. QED BY <2>1, HoldersStay
<1>9. ASSUME NEW t \in tasks, PushReply(t), mutex' # Free, Up' PROVE MutexInv'
  <2> DEFINE c == Clients[From(t.msg)]
  <2>1. t.pc = "push" /\ t.by \in {"pool", "bare"} /\ t.msg \in Msg /\ t.msg \in Ran(dispatched)
    BY <1>0, <1>9 DEF PushReply, TaskOK, TypeInv, QueueInv
  <2>2. c # None /\ c \in chansClosed /\ mutex = A(t) /\ mutex' = mutex /\ t.by # "bare"
    BY <1>9 DEF PushReply, Unlock, Up
  <2>3. t = [msg |-> t.msg, by |-> "pool", pc |-> "push"]
    BY <1>0, <2>1, <2>2 DEF TaskOK
  <2>4. Owner[c] = From(t.msg)
    BY <2>1, <2>2, SenderKnown DEF MapInv
  <2>5. mutex' = Dead(t.msg) /\ UNCHANGED <<dispatched, chansClosed>>
    BY <1>9, <2>2, <2>3 DEF PushReply, Dead, history
  <2>6. QED BY <2>1, <2>2, <2>4, <2>5 DEF MutexInv, Held, Dead
<1>10. CASE UNCHANGED vars
  BY <1>10, HoldersStay DEF vars, serverVars, connVars, history, Up
<1>11. ASSUME NEW c \in Conns, NewClientInit(c) \/ Carry(c) \/ Direct(c) PROVE mutex' = Free
  BY <1>11 DEF NewClientInit, Carry, Direct, Unlock
<1>12. ASSUME NEW l \in Logouts, SendClientToLogout(l) PROVE mutex' = Free
  BY <1>12 DEF SendClientToLogout, Unlock
<1>13. ASSUME AddClient \/ RemoveClient PROVE mutex' = Free
  BY <1>13 DEF AddClient, RemoveClient, Unlock
<1>14. ASSUME NEW t \in tasks, PushReply(t) PROVE MutexInv'
  BY <1>1, <1>9, <1>14 DEF MutexInv
<1>15. QED
  BY <1>1, <1>2, <1>3, <1>4, <1>5, <1>6, <1>7, <1>8, <1>10, <1>11, <1>12, <1>13, <1>14
     DEF Next, ConnStep, LogoutStep, StartStep, TaskStep

\* Whatever the connections, logouts and AI tasks do in between, the holder of the
\* mutex is in the critical section it locked it for - or a pool task whose panic
\* on a closed channel of the asker was recovered.
THEOREM NobodyLeavesLocked == Spec => []NoLockLeak
<1>1. Spec => []TypeInv
  BY InitTypes, TypeStep, PTL DEF Spec
<1>2. TypeInv /\ MapInv /\ [Next]_vars => MapInv'
  BY MapStep
<1>3. TypeInv /\ MapInv /\ MutexInv /\ [Next]_vars => MutexInv'
  BY MutexStep
<1>4. Spec => []MutexInv
  BY <1>1, <1>2, <1>3, MapInit, MutexInit, PTL DEF Spec
<1>5. QED BY <1>4, HeldIsNoLeak, PTL
-----------------------------------------------------------------------------
(* Where a frame is between a socket and Start                               *)

Numbered(c, n) == {m \in Msg : m.conn = c /\ m.n = n}
InHand(c, n)   == IF reader[c].frame.n = n THEN 1 ELSE 0
Answered(c, n) == \E m \in refused : m.conn = c /\ m.n = n

Places(c, n) == InHand(c, n) + Count(SendTo[c], Numbered(c, n))
                  + Count(Transmit, Numbered(c, n)) + Count(dispatched, Numbered(c, n))

\* A number that has been read is in one place unless it was refused, and one that
\* has not been read is nowhere.
PlaceInv ==
  /\ \A m \in refused : m.n <= frames[m.conn]
  /\ \A c \in Conns : \A n \in Nat \ {0} :
       Places(c, n) = IF n <= frames[c] /\ ~ Answered(c, n) THEN 1 ELSE 0

\* What the steps below need to know of the state.
LEMMA PlaceTypes ==
  ASSUME TypeInv
  PROVE  /\ reader \in [Conns -> ReaderOK] /\ frames \in [Conns -> Nat]
         /\ SendTo \in [Conns -> Seq(Msg)] /\ Transmit \in Seq(Msg) /\ dispatched \in Seq(Msg)
         /\ FrameMsg \subseteq Msg /\ NoMsg.n = 0
         /\ \A m \in Msg : m.conn \in Conns /\ m.n \in Nat \ {0}
         /\ \A c \in Conns : \A n \in Nat \ {0} :
              /\ InHand(c, n) \in {0, 1} /\ Count(SendTo[c], Numbered(c, n)) \in Nat
              /\ Count(Transmit, Numbered(c, n)) \in Nat /\ Count(dispatched, Numbered(c, n)) \in Nat
<1>1. /\ reader \in [Conns -> ReaderOK] /\ frames \in [Conns -> Nat]
      /\ SendTo \in [Conns -> Seq(Msg)] /\ Transmit \in Seq(Msg) /\ dispatched \in Seq(Msg)
  BY DEF TypeInv, TypeOK, ReaderOK, ReaderPc
<1>2. ASSUME NEW c \in Conns, NEW n \in Nat \ {0}
      PROVE  /\ InHand(c, n) \in {0, 1} /\ Count(SendTo[c], Numbered(c, n)) \in Nat
             /\ Count(Transmit, Numbered(c, n)) \in Nat /\ Count(dispatched, Numbered(c, n)) \in Nat
  <2>1. SendTo[c] \in Seq(Msg) /\ InHand(c, n) \in {0, 1}
    BY <1>1 DEF InHand
  <2>2. QED BY <1>1, <2>1, CountType
<1>3. \A m \in Msg : m.conn \in Conns /\ m.n \in Nat \ {0}
  BY DEF Msg
<1>4. QED BY <1>1, <1>2, <1>3, NoMessage, FramesAreMessages

LEMMA PlaceInit == Init => PlaceInv
<1> SUFFICES ASSUME Init PROVE PlaceInv
  OBVIOUS
<1>1. \A c \in Conns : \A n \in Nat \ {0} :
        /\ InHand(c, n) = 0 /\ Count(SendTo[c], Numbered(c, n)) = 0
        /\ Count(Transmit, Numbered(c, n)) = 0 /\ Count(dispatched, Numbered(c, n)) = 0
  BY CountEmpty, NoMessage DEF Init, InHand
<1>2. \A c \in Conns : \A n \in Nat \ {0} : Places(c, n) = 0 /\ ~ (n <= frames[c])
  BY <1>1 DEF Places, Init
<1>3. QED BY <1>2 DEF PlaceInv, Init

\* What a step moves from one place to another is in one place as before.
LEMMA PlacesKept ==
  ASSUME PlaceInv, UNCHANGED <<refused, frames>>,
         \A c \in Conns : \A n \in Nat \ {0} : Places(c, n)' = Places(c, n)
  PROVE  PlaceInv'
<1>1. ASSUME NEW c \in Conns, NEW n \in Nat \ {0}
      PROVE  Places(c, n)' = IF n <= frames'[c] /\ ~ Answered(c, n)' THEN 1 ELSE 0
  <2>1. Answered(c, n)' = Answered(c, n) /\ frames' = frames
    BY DEF Answered
  <2>2. Places(c, n) = IF n <= frames[c] /\ ~ Answered(c, n) THEN 1 ELSE 0
    BY DEF PlaceInv
  <2>3. QED BY <2>1, <2>2
<1>2. QED BY <1>1 DEF PlaceInv

LEMMA PlaceStep ==
  ASSUME TypeInv, PlaceInv, [Next]_vars
  PROVE  PlaceInv'
<1>0. /\ reader \in [Conns -> ReaderOK] /\ frames \in [Conns -> Nat]
      /\ SendTo \in [Conns -> Seq(Msg)] /\ Transmit \in Seq(Msg) /\ dispatched \in Seq(Msg)
      /\ FrameMsg \subseteq Msg /\ NoMsg.n = 0
      /\ \A m \in Msg : m.conn \in Conns /\ m.n \in Nat \ {0}
  BY PlaceTypes
<1>a. \A c \in Conns : \A n \in Nat \ {0} :
        /\ InHand(c, n) \in {0, 1} /\ Count(SendTo[c], Numbered(c, n)) \in Nat
        /\ Count(Transmit, Numbered(c, n)) \in Nat /\ Count(dispatched, Numbered(c, n)) \in Nat
  BY PlaceTypes
<1>b. ASSUME NEW c \in Conns, NEW p, reader' = [reader EXCEPT ![c].pc = p]
      PROVE  \A d \in Conns : reader'[d].frame = reader[d].frame
  BY <1>0, <1>b DEF ReaderOK
<1>1. ASSUME UNCHANGED <<SendTo, Transmit, dispatched, refused, frames>>,
             \A c \in Conns : reader'[c].frame = reader[c].frame
      PROVE  PlaceInv'
  <2>1. \A c \in Conns : \A n \in Nat \ {0} : Places(c, n)' = Places(c, n)
    BY <1>1 DEF Places, InHand
  <2>2. QED BY <1>1, <2>1, PlacesKept
<1>2. ASSUME NEW c \in Conns, NewClientInit(c) \/ FillCheck(c) PROVE PlaceInv'
  <2>0. \A d \in Conns : reader'[d].frame = reader[d].frame
    <3>1. CASE NewClientInit(c)
      BY <1>b, <3>1 DEF NewClientInit
    <3>2. CASE FillCheck(c)
      <4> DEFINE p == IF Len(Transmit) < ChannelSize /\ SendTo[c] # <<>> THEN "carry" ELSE "route"
      <4>1. reader' = [reader EXCEPT ![c].pc = p]
        BY <3>2 DEF FillCheck
      <4> HIDE DEF p
      <4>2. QED BY <1>b, <4>1
    <3>3. QED BY <1>2, <3>1, <3>2
  <2>1. QED BY <1>1, <1>2, <2>0 DEF NewClientInit, FillCheck, serverVars, history
<1>3. ASSUME NEW c \in Conns, ReadMessage(c) PROVE PlaceInv'
  <2>1. /\ reader[c].frame = NoMsg /\ frames[c] \in Nat
        /\ UNCHANGED <<SendTo, Transmit, dispatched, refused>>
    <3>1. reader[c].pc = "read" /\ UNCHANGED <<SendTo, Transmit, dispatched, refused>>
      BY <1>3 DEF ReadMessage, serverVars
    <3>2. reader[c].frame = NoMsg
      BY <3>1 DEF TypeInv, HandInv, Holding
    <3>3. QED BY <1>0, <3>1, <3>2
  <2>2. CASE reader' = [reader EXCEPT ![c].pc = "done"] /\ UNCHANGED frames
    <3>1. \A d \in Conns : reader'[d].frame = reader[d].frame
      BY <1>0, <2>2 DEF ReaderOK
    <3>2. QED BY <1>1, <2>1, <2>2, <3>1
  <2>3. CASE /\ frames[c] < Len(Kinds[c])
             /\ \E m \in Frames(c) : reader' = [reader EXCEPT ![c] = [pc |-> "fill", frame |-> m]]
             /\ frames' = [frames EXCEPT ![c] = @ + 1]
    <3>1. PICK m \in Frames(c) : reader' = [reader EXCEPT ![c] = [pc |-> "fill", frame |-> m]]
      BY <2>3
    <3>2. m.n = frames[c] + 1
      BY <2>1, <2>3, FrameTypes
    <3>3. /\ reader'[c].frame = m /\ frames'[c] = frames[c] + 1
          /\ \A d \in Conns \ {c} : reader'[d] = reader[d] /\ frames'[d] = frames[d]
      BY <1>0, <2>3, <3>1
    <3>4. \A x \in refused : x.n <= frames'[x.conn] /\ x.conn \in Conns /\ x.n \in Nat
                               /\ x.n <= frames[x.conn]
      <4>1. \A x \in refused : x.n <= frames[x.conn] /\ x.conn \in Conns /\ x.n \in Nat
        BY <1>0 DEF PlaceInv, TypeInv, QueueInv
      <4>2. QED BY <1>0, <3>3, <4>1
    <3>5. ASSUME NEW d \in Conns, NEW n \in Nat \ {0}
          PROVE  Places(d, n)' = IF n <= frames'[d] /\ ~ Answered(d, n)' THEN 1 ELSE 0
      <4>1. /\ Answered(d, n)' = Answered(d, n)
            /\ Places(d, n) = IF n <= frames[d] /\ ~ Answered(d, n) THEN 1 ELSE 0
        BY <2>1 DEF Answered, PlaceInv
      <4>2. CASE d # c
        <5>1. Places(d, n)' = Places(d, n)
          BY <2>1, <3>3, <4>2 DEF Places, InHand
        <5>2. QED BY <3>3, <4>1, <4>2, <5>1
      <4>3. CASE d = c /\ n # frames[c] + 1
        <5>1. Places(d, n)' = Places(d, n)
          BY <1>0, <2>1, <3>2, <3>3, <4>3 DEF Places, InHand
        <5>2. n <= frames'[d] <=> n <= frames[d]
          BY <2>1, <3>3, <4>3
        <5>3. QED BY <4>1, <5>1, <5>2
      <4>4. CASE d = c /\ n = frames[c] + 1
        <5>1. ~ Answered(d, n) /\ n <= frames'[d] /\ ~ (n <= frames[d])
          BY <2>1, <3>3, <3>4, <4>4 DEF Answered
        <5>2. Places(d, n) = 0
          BY <4>1, <5>1
        <5>3. InHand(d, n)' = 1 /\ InHand(d, n) = 0
          BY <1>0, <2>1, <3>2, <3>3, <4>4 DEF InHand
        <5>4. Places(d, n)' = 1
          BY <1>a, <2>1, <5>2, <5>3 DEF Places
        <5>5. QED BY <4>1, <5>1, <5>4
      <4>5. QED BY <4>2, <4>3, <4>4
    <3>6. QED BY <2>1, <3>4, <3>5 DEF PlaceInv
  <2>4. QED BY <1>3, <2>2, <2>3 DEF ReadMessage
<1>4. ASSUME NEW c \in Conns, Carry(c) PROVE PlaceInv'
  <2> DEFINE x == Head(SendTo[c])
  <2>1. SendTo[c] # <<>> /\ SendTo[c] \in Seq(FrameOf(c)) /\ SendTo[c] \in Seq(Msg)
    BY <1>0, <1>4 DEF Carry, TypeInv, HandInv, QueueInv
  <2>2. x \in FrameOf(c) /\ x.conn = c /\ x \in Msg
    BY <1>0, <2>1, LongTail DEF FrameOf
  <2>3. /\ Transmit' = Append(Transmit, x) /\ SendTo'[c] = Tail(SendTo[c])
        /\ \A d \in Conns \ {c} : SendTo'[d] = SendTo[d]
        /\ UNCHANGED <<dispatched, refused, frames>>
        /\ \A d \in Conns : reader'[d].frame = reader[d].frame
    BY <1>0, <1>4 DEF Carry, history, ReaderOK
  <2> HIDE DEF x
  <2>4. ASSUME NEW d \in Conns, NEW n \in Nat \ {0} PROVE Places(d, n)' = Places(d, n)
    <3> DEFINE N == Numbered(d, n)
               k == IF x \in N THEN 1 ELSE 0
    <3>1. Count(Transmit', N) = Count(Transmit, N) + k
      BY <1>0, <2>2, <2>3, CountAppend
    <3>2. Count(SendTo[c], N) = Count(SendTo'[c], N) + k
      BY <2>1, <2>3, CountTail DEF x
    <3>3. InHand(d, n)' = InHand(d, n)
      BY <2>3 DEF InHand
    <3>4. Tail(SendTo[c]) \in Seq(Msg) /\ Count(SendTo'[c], N) \in Nat
      BY <2>1, <2>3, LongTail, CountType
    <3>5. d # c => k = 0
      BY <2>2 DEF Numbered
    <3>6. k \in {0, 1}
      OBVIOUS
    <3> HIDE DEF k
    <3>7. CASE d = c
      <4>1. /\ InHand(d, n) \in {0, 1} /\ Count(Transmit, N) \in Nat /\ Count(dispatched, N) \in Nat
        BY <1>a
      <4>2. Places(d, n) = InHand(d, n) + (Count(SendTo'[c], N) + k) + Count(Transmit, N) + Count(dispatched, N)
        BY <3>2, <3>7 DEF Places
      <4>3. Places(d, n)' = InHand(d, n) + Count(SendTo'[c], N) + (Count(Transmit, N) + k) + Count(dispatched, N)
        BY <2>3, <3>1, <3>3, <3>7 DEF Places
      <4>4. QED BY <3>4, <3>6, <4>1, <4>2, <4>3
    <3>8. CASE d # c
      <4>1. Count(Transmit', N) = Count(Transmit, N)
        BY <1>a, <3>1, <3>5, <3>8
      <4>2. QED BY <2>3, <3>3, <3>8, <4>1 DEF Places
    <3>9. QED BY <3>7, <3>8
  <2>5. QED BY <2>3, <2>4, PlacesKept
<1>5. ASSUME NEW c \in Conns,
             \/ SendTo' = [SendTo EXCEPT ![c] = Append(@, reader[c].frame)] /\ UNCHANGED Transmit
             \/ Transmit' = Append(Transmit, reader[c].frame) /\ UNCHANGED SendTo,
             reader[c].pc \in Holding,
             reader' = [reader EXCEPT ![c] = [pc |-> "read", frame |-> NoMsg]],
             UNCHANGED <<dispatched, refused, frames>>
      PROVE  PlaceInv'
  <2> DEFINE f == reader[c].frame
  <2>1. f \in Msg /\ f.conn = c /\ SendTo[c] \in Seq(Msg)
    BY <1>0, <1>5 DEF TypeInv, HandInv
  <2>2. reader'[c].frame = NoMsg /\ \A d \in Conns \ {c} : reader'[d] = reader[d]
    BY <1>0, <1>5
  <2>3. ASSUME NEW d \in Conns, NEW n \in Nat \ {0} PROVE Places(d, n)' = Places(d, n)
    <3> DEFINE N == Numbered(d, n)
               k == IF f \in N THEN 1 ELSE 0
    <3>1. InHand(d, n) = InHand(d, n)' + k
      BY <1>0, <2>1, <2>2 DEF InHand, Numbered
    <3>2. InHand(d, n)' \in {0, 1}
      BY DEF InHand
    <3>3. k \in {0, 1} /\ (d # c => k = 0)
      BY <2>1 DEF Numbered
    <3>4. CASE SendTo' = [SendTo EXCEPT ![c] = Append(@, f)] /\ UNCHANGED Transmit
      <4>1. Count(Append(SendTo[c], f), N) = Count(SendTo[c], N) + k
        BY <2>1, CountAppend
      <4>2. SendTo'[c] = Append(SendTo[c], f) /\ \A b \in Conns \ {c} : SendTo'[b] = SendTo[b]
        BY <1>0, <3>4
      <4> HIDE DEF k, f
      <4>3. Count(SendTo'[d], N) = Count(SendTo[d], N) + k
        <5>1. CASE d = c
          BY <4>1, <4>2, <5>1
        <5>2. CASE d # c
          <6>1. SendTo'[d] = SendTo[d] /\ k = 0
            BY <3>3, <4>2, <5>2
          <6>2. QED BY <1>a, <6>1
        <5>3. QED BY <5>1, <5>2
      <4>4. /\ Count(SendTo[d], N) \in Nat /\ Count(Transmit, N) \in Nat /\ Count(dispatched, N) \in Nat
        BY <1>a
      <4>5. Places(d, n) = (InHand(d, n)' + k) + Count(SendTo[d], N) + Count(Transmit, N) + Count(dispatched, N)
        BY <3>1 DEF Places
      <4>6. Places(d, n)' = InHand(d, n)' + (Count(SendTo[d], N) + k) + Count(Transmit, N) + Count(dispatched, N)
        BY <1>5, <3>4, <4>3 DEF Places
      <4>7. QED BY <3>2, <3>3, <4>4, <4>5, <4>6
    <3>5. CASE Transmit' = Append(Transmit, f) /\ UNCHANGED SendTo
      <4>1. Count(Append(Transmit, f), N) = Count(Transmit, N) + k
        BY <1>0, <2>1, CountAppend
      <4> HIDE DEF k, f
      <4>2. /\ Count(SendTo[d], N) \in Nat /\ Count(Transmit, N) \in Nat /\ Count(dispatched, N) \in Nat
        BY <1>a
      <4>3. Places(d, n) = (InHand(d, n)' + k) + Count(SendTo[d], N) + Count(Transmit, N) + Count(dispatched, N)
        BY <3>1 DEF Places
      <4>4. Places(d, n)' = InHand(d, n)' + Count(SendTo[d], N) + (Count(Transmit, N) + k) + Count(dispatched, N)
        BY <1>5, <3>5, <4>1 DEF Places
      <4>5. QED BY <3>2, <3>3, <4>2, <4>3, <4>4
    <3>6. QED BY <1>5, <3>4, <3>5
  <2>4. QED BY <1>5, <2>3, PlacesKept
<1>6. ASSUME NEW c \in Conns, Direct(c) PROVE PlaceInv'
  BY <1>5, <1>6 DEF Direct, Holding, history
<1>7. ASSUME NEW c \in Conns, RouteFrame(c) PROVE PlaceInv'
  <2>1. /\ reader[c].pc = "route" /\ UNCHANGED <<Transmit, dispatched, frames>>
        /\ \/ reader' = [reader EXCEPT ![c].pc = "direct"] /\ UNCHANGED <<SendTo, refused>>
           \/ UNCHANGED <<reader, SendTo, refused>>
           \/ /\ SendTo' = [SendTo EXCEPT ![c] = Append(@, reader[c].frame)]
              /\ reader' = [reader EXCEPT ![c] = [pc |-> "read", frame |-> NoMsg]]
              /\ UNCHANGED refused
           \/ /\ reader' = [reader EXCEPT ![c] = [pc |-> "read", frame |-> NoMsg]]
              /\ refused' = refused \cup {reader[c].frame}
              /\ UNCHANGED SendTo
    BY <1>7 DEF RouteFrame, serverVars
  <2>2. CASE (reader' = [reader EXCEPT ![c].pc = "direct"] \/ UNCHANGED reader) /\ UNCHANGED <<SendTo, refused>>
    <3>1. \A d \in Conns : reader'[d].frame = reader[d].frame
      BY <1>b, <2>2
    <3>2. QED BY <1>1, <2>1, <2>2, <3>1
  <2>3. CASE /\ SendTo' = [SendTo EXCEPT ![c] = Append(@, reader[c].frame)]
             /\ reader' = [reader EXCEPT ![c] = [pc |-> "read", frame |-> NoMsg]]
             /\ UNCHANGED refused
    BY <1>5, <2>1, <2>3 DEF Holding
  <2>4. CASE /\ reader' = [reader EXCEPT ![c] = [pc |-> "read", frame |-> NoMsg]]
             /\ refused' = refused \cup {reader[c].frame}
             /\ UNCHANGED SendTo
    <3> DEFINE f == reader[c].frame
    <3>1. f \in Msg /\ f.conn = c /\ f.n \in Nat \ {0}
      BY <1>0, <2>1 DEF TypeInv, HandInv, Holding
    <3>2. reader'[c].frame = NoMsg /\ \A d \in Conns \ {c} : reader'[d] = reader[d]
      BY <1>0, <2>4
    <3>3. /\ InHand(c, f.n) = 1
          /\ Places(c, f.n) = IF f.n <= frames[c] /\ ~ Answered(c, f.n) THEN 1 ELSE 0
      BY <3>1 DEF InHand, PlaceInv
    <3> HIDE DEF f
    <3>4. f.n <= frames[c] /\ Places(c, f.n) = 1
      <4>1. Places(c, f.n) # 0
        BY <1>a, <3>1, <3>3 DEF Places
      <4>2. QED BY <3>3, <4>1
    <3>5. ASSUME NEW d \in Conns, NEW n \in Nat \ {0}
          PROVE  Places(d, n)' = IF n <= frames'[d] /\ ~ Answered(d, n)' THEN 1 ELSE 0
      <4>1. Answered(d, n)' <=> Answered(d, n) \/ (d = c /\ n = f.n)
        BY <2>4, <3>1 DEF Answered, f
      <4>2. CASE d = c /\ n = f.n
        <5>1. InHand(d, n)' = 0
          BY <1>0, <3>1, <3>2, <4>2 DEF InHand
        <5>2. Places(d, n)' = 0
          BY <1>a, <2>1, <2>4, <3>3, <3>4, <4>2, <5>1 DEF Places
        <5>3. QED BY <4>1, <4>2, <5>2
      <4>3. CASE ~ (d = c /\ n = f.n)
        <5>1. InHand(d, n)' = InHand(d, n)
          BY <1>0, <3>2, <4>3 DEF InHand, f
        <5>2. Places(d, n)' = Places(d, n)
          BY <2>1, <2>4, <5>1 DEF Places
        <5>3. Places(d, n) = IF n <= frames[d] /\ ~ Answered(d, n) THEN 1 ELSE 0
          BY DEF PlaceInv
        <5>4. QED BY <2>1, <4>1, <4>3, <5>2, <5>3
      <4>4. QED BY <4>2, <4>3
    <3>6. \A m \in refused' : m.n <= frames'[m.conn]
      BY <2>1, <2>4, <3>1, <3>4 DEF PlaceInv, f
    <3>7. QED BY <3>5, <3>6 DEF PlaceInv
  <2>5. QED BY <2>1, <2>2, <2>3, <2>4
<1>8. ASSUME TakeTransmit PROVE PlaceInv'
  <2> DEFINE x == Head(Transmit)
  <2>1. Transmit # <<>> /\ x \in Msg /\ Tail(Transmit) \in Seq(Msg)
    BY <1>0, <1>8, LongTail DEF TakeTransmit
  <2>2. /\ Transmit' = Tail(Transmit) /\ dispatched' = Append(dispatched, x)
        /\ UNCHANGED <<reader, SendTo, refused, frames>>
    BY <1>8 DEF TakeTransmit, connVars
  <2> HIDE DEF x
  <2>3. ASSUME NEW d \in Conns, NEW n \in Nat \ {0} PROVE Places(d, n)' = Places(d, n)
    <3> DEFINE N == Numbered(d, n)
               k == IF x \in N THEN 1 ELSE 0
    <3>1. Count(dispatched', N) = Count(dispatched, N) + k
      BY <1>0, <2>1, <2>2, CountAppend
    <3>2. Count(Transmit, N) = Count(Transmit', N) + k
      BY <1>0, <2>1, <2>2, CountTail DEF x
    <3>3. Count(Transmit', N) \in Nat
      BY <2>1, <2>2, CountType
    <3>4. k \in {0, 1} /\ InHand(d, n)' = InHand(d, n)
      BY <2>2 DEF InHand
    <3> HIDE DEF k
    <3>5. /\ InHand(d, n) \in {0, 1} /\ Count(SendTo[d], N) \in Nat /\ Count(dispatched, N) \in Nat
      BY <1>a
    <3>6. Places(d, n) = InHand(d, n) + Count(SendTo[d], N) + (Count(Transmit', N) + k) + Count(dispatched, N)
      BY <3>2 DEF Places
    <3>7. Places(d, n)' = InHand(d, n) + Count(SendTo[d], N) + Count(Transmit', N) + (Count(dispatched, N) + k)
      BY <2>2, <3>1, <3>4 DEF Places
    <3>8. QED BY <3>3, <3>4, <3>5, <3>6, <3>7
  <2>4. QED BY <2>2, <2>3, PlacesKept
<1>9. CASE UNCHANGED <<SendTo, Transmit, dispatched, refused, frames, reader>>
  BY <1>1, <1>9
<1>10. QED
  BY <1>2, <1>3, <1>4, <1>6, <1>7, <1>8, <1>9
     DEF Next, ConnStep, WriterStep, LogoutStep, StartStep, TaskStep, vars, serverVars, connVars,
         history, Acquire, Disconnect, TakeBack, WriteBack, LookupClient, SendClientToLogout,
         CloseConn, CloseChans, TakeLogin, AddClient, TakeLogout, RemoveClient, Push, Think, PushReply

LEMMA PlacesInProperty ==
  ASSUME TypeInv, PlaceInv
  PROVE  FrameInOnePlace
<1>1. ASSUME NEW q \in Seq(Msg), NEW c, NEW n
      PROVE  Cardinality({i \in 1..Len(q) : q[i].conn = c /\ q[i].n = n}) = Count(q, Numbered(c, n))
  <2>1. \A i \in 1..Len(q) : q[i] \in Msg
    OBVIOUS
  <2>2. {i \in 1..Len(q) : q[i].conn = c /\ q[i].n = n} = Where(q, Numbered(c, n))
    BY <2>1 DEF Where, Numbered
  <2>3. QED BY <2>2 DEF Count
<1>2. ASSUME NEW c \in Conns, NEW n \in 1..frames[c]
      PROVE  /\ n \in Nat \ {0} /\ SendTo[c] \in Seq(Msg)
             /\ Places(c, n) = IF Answered(c, n) THEN 0 ELSE 1
  <2>1. n \in Nat \ {0} /\ n <= frames[c] /\ SendTo[c] \in Seq(Msg)
    BY PlaceTypes
  <2>2. QED BY <2>1 DEF PlaceInv
<1>3. Transmit \in Seq(Msg) /\ dispatched \in Seq(Msg)
  BY PlaceTypes
<1>4. QED BY <1>1, <1>2, <1>3, SMTT(30) DEF FrameInOnePlace, Places, InHand, Answered

\* Whatever interleaves, a frame that has been read from a socket is in exactly one
\* place until Start has dispatched it, unless its sender was told the server is
\* busy: SendTo overflowing into Transmit loses and doubles nothing.
THEOREM NoFrameLostOrDoubled == Spec => []FrameInOnePlace
<1>1. Spec => []TypeInv
  BY InitTypes, TypeStep, PTL DEF Spec
<1>2. TypeInv /\ PlaceInv /\ [Next]_vars => PlaceInv'
  BY PlaceStep
<1>3. Spec => []PlaceInv
  BY <1>1, <1>2, PlaceInit, PTL DEF Spec
<1>4. QED BY <1>1, <1>3, PlacesInProperty, PTL
-----------------------------------------------------------------------------
(* The way of a message to a socket                                          *)

Hand(c) == IF writer[c].pc = "write" THEN {writer[c].hand} ELSE {}

\* Where a message on its way to c may be.
Way(c) == Ran(written[c]) \cup Hand(c) \cup Ran(SendBack[c])

\* What a step does to the ways: nothing; Write takes a message, writes it, or
\* fails on it; a message is pushed.
Still ==
  /\ UNCHANGED <<written, SendBack>>
  /\ \A c \in Conns : writer'[c].hand = writer[c].hand /\ Hand(c)' = Hand(c)

Takes(c) ==
  /\ UNCHANGED <<written, dispatched>>
  /\ writer[c].pc = "range" /\ writer[c].hand = NoMsg /\ SendBack[c] # <<>>
  /\ writer'[c] = [pc |-> "write", hand |-> Head(SendBack[c])]
  /\ SendBack'[c] = Tail(SendBack[c])
  /\ \A d \in Conns \ {c} : writer'[d] = writer[d] /\ SendBack'[d] = SendBack[d]

Writes(c) ==
  /\ UNCHANGED <<SendBack, dispatched>>
  /\ writer[c].pc = "write" /\ writer[c].hand \in Msg
  /\ writer'[c] = [pc |-> "range", hand |-> NoMsg]
  /\ written'[c] = Append(written[c], writer[c].hand)
  /\ \A d \in Conns \ {c} : writer'[d] = writer[d] /\ written'[d] = written[d]

Fails(c) ==
  /\ UNCHANGED <<written, SendBack, dispatched>>
  /\ writer'[c] = [pc |-> "done", hand |-> writer[c].hand]
  /\ \A d \in Conns \ {c} : writer'[d] = writer[d]

Pushes(c, m) ==
  /\ UNCHANGED <<written, writer, dispatched>>
  /\ SendBack'[c] = Append(SendBack[c], m) /\ m \in Msg
  /\ \A d \in Conns \ {c} : SendBack'[d] = SendBack[d]
  /\ \/ Push /\ Receiver = c /\ m = start.item
     \/ m.kind = "reply" /\ \E t \in tasks : PushReply(t)

LEMMA WayMoves ==
  ASSUME TypeInv, [Next]_vars
  PROVE  \/ Still
         \/ \E c \in Conns : Takes(c) \/ Writes(c) \/ Fails(c) \/ \E m \in Msg : Pushes(c, m)
<1>0. /\ writer \in [Conns -> WriterOK] /\ SendBack \in [Conns -> Seq(Msg)]
      /\ written \in [Conns -> Seq(Msg)] /\ Clients \in [Users -> Conns \cup {None}]
  BY DEF TypeInv, TypeOK, WriterOK
<1>1. ASSUME NEW c \in Conns, TakeBack(c) PROVE Still \/ Takes(c)
  <2>1. writer[c].pc = "range" /\ writer[c].hand = NoMsg /\ UNCHANGED <<written, dispatched>>
    BY <1>1 DEF TakeBack, TypeInv, HandInv, history
  <2>2. CASE SendBack[c] # <<>>
    BY <1>0, <1>1, <2>1, <2>2 DEF TakeBack, Takes
  <2>3. CASE writer' = [writer EXCEPT ![c].pc = "done"] /\ UNCHANGED SendBack
    <3>1. writer'[c].pc = "done" /\ \A d \in Conns : writer'[d].hand = writer[d].hand
      BY <1>0, <2>3 DEF WriterOK
    <3>2. \A d \in Conns \ {c} : writer'[d] = writer[d]
      BY <1>0, <2>3
    <3>3. QED BY <2>1, <2>3, <3>1, <3>2 DEF Still, Hand
  <2>4. QED BY <1>1, <2>2, <2>3 DEF TakeBack
<1>2. ASSUME NEW c \in Conns, WriteBack(c) PROVE Writes(c) \/ Fails(c)
  <2>1. writer[c].pc = "write" /\ writer[c].hand \in Msg /\ UNCHANGED <<SendBack, dispatched>>
    BY <1>2 DEF WriteBack, TypeInv, HandInv
  <2>2. CASE socket[c] = "open"
    BY <1>0, <1>2, <2>1, <2>2 DEF WriteBack, Writes
  <2>3. CASE socket[c] # "open"
    BY <1>0, <1>2, <2>1, <2>3 DEF WriteBack, Fails, WriterOK
  <2>4. QED BY <2>2, <2>3
<1>3. ASSUME Push PROVE Still \/ \E c \in Conns : \E m \in Msg : Pushes(c, m)
  <2>1. UNCHANGED <<written, writer, dispatched>> /\ start.item \in Msg
    BY <1>3, FramesAreMessages DEF Push, TypeInv, HandInv, history
  <2>2. CASE UNCHANGED SendBack
    BY <2>1, <2>2 DEF Still, Hand
  <2>3. CASE SendBack' # SendBack
    <3>1. /\ Receiver \in Conns
          /\ SendBack' = [SendBack EXCEPT ![Receiver] = Append(@, start.item)]
      BY <1>3, <2>3, ReceiverTypes DEF Push
    <3>2. QED BY <1>0, <1>3, <2>1, <3>1 DEF Pushes
  <2>4. QED BY <2>2, <2>3
<1>4. ASSUME NEW t \in tasks, PushReply(t)
      PROVE  Still \/ \E c \in Conns : \E m \in Msg : Pushes(c, m)
  <2> DEFINE c == Clients[From(t.msg)]
             m == [t.msg EXCEPT !.kind = "reply"]
  <2>1. UNCHANGED <<written, writer, dispatched>> /\ t.msg \in Msg
    BY <1>4 DEF PushReply, TypeInv, TypeOK, history
  <2>2. CASE UNCHANGED SendBack
    BY <2>1, <2>2 DEF Still, Hand
  <2>3. CASE SendBack' # SendBack
    <3>1. c \in Conns /\ SendBack' = [SendBack EXCEPT ![c] = Append(@, m)]
      BY <1>0, <1>4, <2>1, <2>3, SenderKnown DEF PushReply
    <3>2. m \in Msg /\ m.kind = "reply"
      BY <2>1 DEF Msg
    <3> HIDE DEF c, m
    <3>3. /\ SendBack'[c] = Append(SendBack[c], m)
          /\ \A d \in Conns \ {c} : SendBack'[d] = SendBack[d]
      BY <1>0, <3>1
    <3>4. Pushes(c, m)
      BY <1>4, <2>1, <3>2, <3>3 DEF Pushes
    <3>5. QED BY <3>1, <3>2, <3>4
  <2>4. QED BY <2>2, <2>3
<1>5. ASSUME NEW c \in Conns, NewClientInit(c) PROVE Still
  <2>1. writer[c].pc = "off" /\ writer' = [writer EXCEPT ![c].pc = "range"] /\ UNCHANGED <<written, SendBack>>
    BY <1>5 DEF NewClientInit, TypeInv, HandInv, history
  <2>2. \A d \in Conns : /\ writer'[d].hand = writer[d].hand
                         /\ writer'[d].pc = "write" <=> writer[d].pc = "write"
    BY <1>0, <2>1 DEF WriterOK
  <2>3. QED BY <2>1, <2>2 DEF Still, Hand
<1>6. ASSUME UNCHANGED <<written, SendBack, writer>> PROVE Still
  BY <1>6 DEF Still, Hand
<1>7. QED
  BY <1>1, <1>2, <1>3, <1>4, <1>5, <1>6
     DEF Next, ConnStep, WriterStep, LogoutStep, StartStep, TaskStep, vars, serverVars, connVars,
         history, Acquire, ReadMessage, FillCheck, Carry, RouteFrame, Direct, Disconnect,
         LookupClient, SendClientToLogout, CloseConn, CloseChans, TakeLogin, AddClient, TakeLogout,
         RemoveClient, TakeTransmit, Think

\* A message leaves the way only into the hands of a Write that failed on it; none
\* comes onto it but the message Start pushes, or a reply; what has been written
\* stays.
LEMMA WaysKept ==
  ASSUME TypeInv, [Next]_vars, NEW c \in Conns
  PROVE  /\ \A m \in Msg : m \in Way(c) \/ m = writer[c].hand =>
              m \in Way(c)' \/ m = writer'[c].hand
         /\ \A m \in Way(c)' : m \in Way(c) \/ m.kind = "reply"
                                 \/ (Push /\ Receiver = c /\ m = start.item)
         /\ Ran(written[c]) \subseteq Ran(written'[c])
<1>0. /\ writer \in [Conns -> WriterOK] /\ SendBack \in [Conns -> Seq(Msg)]
      /\ written \in [Conns -> Seq(Msg)]
  BY DEF TypeInv, TypeOK, WriterOK
<1>1. CASE Still
  BY <1>1 DEF Still, Way
<1>2. ASSUME NEW d \in Conns, Takes(d), d = c
      PROVE  Way(c)' = Way(c) /\ writer[c].hand = NoMsg /\ UNCHANGED written
  <2>1. Ran(SendBack[c]) = {Head(SendBack[c])} \cup Ran(Tail(SendBack[c]))
    BY <1>0, <1>2, RanTail DEF Takes
  <2>2. QED BY <1>2, <2>1 DEF Takes, Way, Hand
<1>3. ASSUME NEW d \in Conns, Writes(d), d = c
      PROVE  Way(c)' = Way(c) /\ writer[c].hand \in Way(c) /\ Ran(written[c]) \subseteq Ran(written'[c])
  <2>1. written[c] \in Seq(Msg) /\ writer[c].hand \in Msg /\ written'[c] = Append(written[c], writer[c].hand)
    BY <1>0, <1>3 DEF Writes
  <2>2. Ran(written'[c]) = Ran(written[c]) \cup {writer[c].hand}
    BY <2>1, RanAppend
  <2>3. QED BY <1>3, <2>2 DEF Writes, Way, Hand
<1>4. ASSUME NEW d \in Conns, Fails(d), d = c
      PROVE  /\ Way(c)' \subseteq Way(c) /\ Way(c) \subseteq Way(c)' \cup {writer[c].hand}
             /\ writer'[c].hand = writer[c].hand /\ UNCHANGED written
  BY <1>4 DEF Fails, Way, Hand
<1>5. ASSUME NEW d \in Conns, NEW m \in Msg, Pushes(d, m), d = c
      PROVE  /\ Way(c)' = Way(c) \cup {m} /\ UNCHANGED <<writer, written>>
             /\ m.kind = "reply" \/ (Push /\ Receiver = c /\ m = start.item)
  <2>1. SendBack[c] \in Seq(Msg) /\ SendBack'[c] = Append(SendBack[c], m)
    BY <1>0, <1>5 DEF Pushes
  <2>2. Ran(SendBack'[c]) = Ran(SendBack[c]) \cup {m}
    BY <2>1, RanAppend
  <2>3. QED BY <1>5, <2>2 DEF Pushes, Way, Hand
<1>6. ASSUME NEW d \in Conns, d # c, Takes(d) \/ Writes(d) \/ Fails(d) \/ \E m \in Msg : Pushes(d, m)
      PROVE  Way(c)' = Way(c) /\ writer'[c] = writer[c] /\ written'[c] = written[c]
  BY <1>6 DEF Takes, Writes, Fails, Pushes, Way, Hand
<1>7. QED BY <1>1, <1>2, <1>3, <1>4, <1>5, <1>6, WayMoves, NoMessage

\* The way is the range of what is outgoing.
LEMMA WayIsOutgoing ==
  ASSUME TypeInv, NEW c \in Conns
  PROVE  Way(c) = Ran(Outgoing(c))
<1>1. written[c] \in Seq(Msg) /\ SendBack[c] \in Seq(Msg)
  BY DEF TypeInv, TypeOK
<1> DEFINE h == IF writer[c].pc = "write" THEN <<writer[c].hand>> ELSE <<>>
<1>2. h \in Seq(Msg) /\ Ran(h) = Hand(c)
  <2>1. CASE writer[c].pc = "write"
    <3>1. writer[c].hand \in Msg
      BY <2>1 DEF TypeInv, HandInv
    <3>2. QED BY <2>1, <3>1 DEF Ran, Hand
  <2>2. CASE writer[c].pc # "write"
    BY <2>2 DEF Ran, Hand
  <2>3. QED BY <2>1, <2>2
<1>3. Outgoing(c) = (written[c] \o h) \o SendBack[c]
  BY DEF Outgoing
<1> HIDE DEF h
<1>a. ASSUME NEW s \in Seq(Msg), NEW t \in Seq(Msg)
      PROVE  s \o t \in Seq(Msg) /\ Ran(s \o t) = Ran(s) \cup Ran(t)
  BY RanConcat, ConcatProperties
<1>4. written[c] \o h \in Seq(Msg) /\ Ran(written[c] \o h) = Ran(written[c]) \cup Ran(h)
  BY <1>1, <1>2, <1>a
<1>5. Ran((written[c] \o h) \o SendBack[c]) = Ran(written[c] \o h) \cup Ran(SendBack[c])
  BY <1>1, <1>4, <1>a
<1>6. QED BY <1>2, <1>3, <1>4, <1>5 DEF Way
-----------------------------------------------------------------------------
(* What is due to a connection                                               *)

\* A push that does not end the process serves the first of the list, the others
\* keep their turn.
LEMMA PushMoves ==
  ASSUME TypeInv, Push
  PROVE  /\ start.pc = "push" /\ start.item \in FrameMsg /\ start.item.kind # "ai"
         /\ UNCHANGED <<Clients, dispatched, due, written, db>>
         /\ Ran(start'.todo) \subseteq Ran(start.todo)
         /\ start'.pc = "push" => start'.item = start.item
         /\ Up' => /\ Rest /\ \A c \in Conns : Receiver = c => start.item \in Way(c)'
                   /\ \A u \in Ran(start.todo) :
                        u # Head(start.todo) => start'.pc = "push" /\ u \in Ran(start'.todo)
<1>1. /\ start.pc = "push" /\ start.item \in FrameMsg /\ start.item.kind # "ai" /\ start.item \in Msg
      /\ UNCHANGED <<Clients, dispatched, due, written, writer, db>>
      /\ start \in StartOK /\ start.todo \in Seq(Users)
  BY FramesAreMessages DEF Push, TypeInv, HandInv, TypeOK, StartOK, ItemOK, history
<1>2. start.todo # <<>> => Ran(start.todo) = {Head(start.todo)} \cup Ran(Tail(start.todo))
  BY <1>1, RanTail
<1>3. Up' => Rest
  BY DEF Push, Up
<1>4. ASSUME Rest
      PROVE  /\ Ran(start'.todo) \subseteq Ran(start.todo)
             /\ start'.pc = "push" => start'.item = start.item
             /\ \A u \in Ran(start.todo) :
                  u # Head(start.todo) => start'.pc = "push" /\ u \in Ran(start'.todo)
  <2>1. CASE start'.pc = "push"
    <3>1. start'.item = start.item /\ start'.todo = Tail(start.todo) /\ start.todo # <<>>
      <4>1. Len(start.todo) > 1
        BY <1>4, <2>1 DEF Rest, Goto
      <4>2. start.todo # <<>>
        BY <4>1
      <4>3. QED BY <1>1, <1>4, <2>1, <4>2, RestTypes
    <3>2. QED BY <1>2, <2>1, <3>1
  <2>2. CASE start'.pc # "push"
    <3>1. start'.todo = <<>> /\ Len(start.todo) \in {0, 1}
      BY <1>1, <1>4, <2>2, RestTypes
    <3>2. \A u \in Ran(start.todo) : u = Head(start.todo)
      BY <1>1, <3>1 DEF Ran
    <3>3. Ran(start'.todo) = {}
      BY <3>1 DEF Ran
    <3>4. QED BY <2>2, <3>2, <3>3
  <2>3. QED BY <2>1, <2>2
<1>5. Rest \/ UNCHANGED start
  BY DEF Push
<1>6. ASSUME Up', NEW c \in Conns, Receiver = c PROVE start.item \in Way(c)'
  <2>1. c # None /\ SendBack' = [SendBack EXCEPT ![c] = Append(@, start.item)]
    BY <1>6, ReceiverTypes DEF Push, Up
  <2>2. SendBack[c] \in Seq(Msg) /\ SendBack'[c] = Append(SendBack[c], start.item)
    BY <2>1 DEF TypeInv, TypeOK
  <2>3. start.item \in Ran(SendBack'[c])
    BY <1>1, <2>2, RanAppend
  <2>4. QED BY <2>3 DEF Way
<1>7. QED BY <1>1, <1>3, <1>4, <1>5, <1>6

\* What every other step does to what Start has in hand.
LEMMA StartMoves ==
  ASSUME TypeInv, [Next]_vars
  PROVE  \/ UNCHANGED <<start, dispatched, Clients, due>>
         \/ Acquire /\ UNCHANGED <<start, dispatched, Clients, down>>
         \/ start.pc # "push" /\ start'.pc # "push" /\ UNCHANGED <<dispatched, due>>
         \/ TakeTransmit
         \/ Push
<1>1. ASSUME TakeLogin \/ AddClient \/ TakeLogout \/ RemoveClient
      PROVE  start.pc # "push" /\ start'.pc # "push" /\ UNCHANGED <<dispatched, due>>
  BY <1>1 DEF TakeLogin, AddClient, TakeLogout, RemoveClient, Goto, history
<1>2. ASSUME NEW c \in Conns, ConnStep(c)
      PROVE  UNCHANGED <<start, dispatched, Clients, due>>
  BY <1>2 DEF ConnStep, NewClientInit, ReadMessage, FillCheck, Carry, RouteFrame, Direct,
              serverVars, history
<1>3. ASSUME NEW c \in Conns, WriterStep(c) \/ Disconnect(c)
      PROVE  UNCHANGED <<start, dispatched, Clients, due>>
  BY <1>3 DEF WriterStep, TakeBack, WriteBack, Disconnect, serverVars, history
<1>4. ASSUME NEW l \in Logouts, LogoutStep(l)
      PROVE  UNCHANGED <<start, dispatched, Clients, due>>
  BY <1>4 DEF LogoutStep, LookupClient, SendClientToLogout, CloseConn, CloseChans, serverVars,
              history
<1>5. ASSUME NEW t \in tasks, TaskStep(t)
      PROVE  UNCHANGED <<start, dispatched, Clients, due>>
  BY <1>5 DEF TaskStep, Think, PushReply, serverVars, history
<1>6. CASE Acquire
  BY <1>6 DEF Acquire, serverVars
<1>7. CASE UNCHANGED vars
  BY <1>7 DEF vars, serverVars, history
<1>8. QED BY <1>1, <1>2, <1>3, <1>4, <1>5, <1>6, <1>7 DEF Next, StartStep

\* While Start pushes, the map does not change: the connection that was found when
\* the mutex was locked is the one the message will be pushed to.
Ahead(m, c) ==
  /\ start.pc = "push" /\ start.item = m
  /\ Owner[c] \in Ran(start.todo) /\ Clients[Owner[c]] = c

Arrives(m, c) == m \in Way(c) \/ m = writer[c].hand

DueInv == Up => \A d \in due : Arrives(d[1], d[2]) \/ Ahead(d[1], d[2])

LEMMA DueInit == Init => DueInv
BY DEF Init, DueInv

LEMMA DueStep ==
  ASSUME TypeInv, MapInv, DueInv, [Next]_vars
  PROVE  DueInv'
<1> SUFFICES ASSUME Up', NEW d \in due' PROVE Arrives(d[1], d[2])' \/ Ahead(d[1], d[2])'
  BY DEF DueInv
<1>0. /\ due \subseteq Msg \X Conns /\ start.todo \in Seq(Users) /\ Clients \in [Users -> Conns \cup {None}]
  BY DEF TypeInv, TypeOK
<1>a. Up
  BY DEF Next, ConnStep, WriterStep, LogoutStep, StartStep, TaskStep, vars, Up, Acquire,
         NewClientInit, ReadMessage, FillCheck, Carry, RouteFrame, Direct, Disconnect, TakeBack,
         WriteBack, LookupClient, SendClientToLogout, CloseConn, CloseChans, TakeLogin, AddClient,
         TakeLogout, RemoveClient, TakeTransmit, Push, Think, PushReply
<1>b. ASSUME d \in due
      PROVE  d[1] \in Msg /\ d[2] \in Conns /\ (Arrives(d[1], d[2])' \/ Ahead(d[1], d[2]))
  <2>1. d[1] \in Msg /\ d[2] \in Conns /\ (Arrives(d[1], d[2]) \/ Ahead(d[1], d[2]))
    BY <1>0, <1>a, <1>b DEF DueInv
  <2>2. ASSUME NEW c \in Conns, NEW m \in Msg, Arrives(m, c) PROVE Arrives(m, c)'
    BY <2>2, WaysKept DEF Arrives
  <2>3. ASSUME NEW c, NEW m, c = d[2], m = d[1], Arrives(d[1], d[2]) PROVE Arrives(d[1], d[2])'
    <3>1. Arrives(m, c)'
      BY <2>1, <2>2, <2>3
    <3>2. d' = d
      OBVIOUS
    <3>3. QED BY <2>3, <3>1
  <2>4. QED BY <2>1, <2>3
<1>1. CASE UNCHANGED <<start, dispatched, Clients, due>>
  BY <1>1, <1>b DEF Ahead
<1>2. CASE Acquire /\ UNCHANGED <<start, dispatched, Clients, down>>
  <2>1. CASE d \in due
    BY <1>2, <1>b, <2>1 DEF Ahead
  <2>2. CASE d \notin due
    <3>1. start.pc # "select" /\ \E c \in Online(start.todo) : d = <<start.item, c>>
      BY <1>2, <2>2 DEF Acquire, Lock, Waiting, Starter, R, L, A
    <3>2. PICK c \in Online(start.todo) : d = <<start.item, c>>
      BY <3>1
    <3>3. PICK u \in Ran(start.todo) : c = Clients[u] /\ c # None
      BY <3>2 DEF Online
    <3>4. u \in Users /\ start.todo # <<>>
      BY <1>0, <3>3 DEF Ran
    <3>5. start.pc = "push" /\ Owner[c] = u
      BY <3>3, <3>4 DEF TypeInv, HandInv, MapInv
    <3>6. Ahead(start.item, c)'
      BY <1>2, <3>3, <3>5 DEF Ahead
    <3>7. QED BY <3>2, <1>2, <3>3, <3>5 DEF Ahead
  <2>3. QED BY <2>1, <2>2
<1>3. CASE start.pc # "push" /\ start'.pc # "push" /\ UNCHANGED <<dispatched, due>>
  BY <1>3, <1>b DEF Ahead
<1>4. CASE TakeTransmit
  BY <1>4, <1>b DEF Ahead, TakeTransmit
<1>5. CASE Push
  <2>1. d \in due /\ UNCHANGED Clients
    BY <1>5, PushMoves
  <2>2. ASSUME Ahead(d[1], d[2]) PROVE Arrives(d[1], d[2])' \/ Ahead(d[1], d[2])'
    <3>1. CASE Owner[d[2]] # Head(start.todo)
      <4>1. start'.pc = "push" /\ Owner[d[2]] \in Ran(start'.todo) /\ start'.item = start.item
        BY <1>5, <2>2, <3>1, PushMoves DEF Ahead
      <4>2. QED BY <2>1, <2>2, <4>1 DEF Ahead
    <3>2. CASE Owner[d[2]] = Head(start.todo)
      <4>1. start.todo # <<>> /\ d[2] \in Conns
        BY <1>0, <1>b, <2>1, <2>2 DEF Ahead, Ran
      <4>2. Receiver = d[2] /\ start.item = d[1]
        BY <2>2, <3>2, <4>1 DEF Ahead, Receiver
      <4>3. \A c \in Conns : Receiver = c => start.item \in Way(c)'
        BY <1>5, PushMoves
      <4>4. d[1] \in Way(d[2])'
        BY <4>1, <4>2, <4>3
      <4>5. QED BY <4>4 DEF Arrives
    <3>3. QED BY <3>1, <3>2
  <2>3. QED BY <1>b, <2>1, <2>2
<1>6. QED BY <1>1, <1>2, <1>3, <1>4, <1>5, StartMoves

\* A message is not lost for a user who was in the map when Start locked it:
\* whatever logs in or out, fails or fills up, it is on its way to the connection,
\* or with a Write that failed, or ahead of Start.
THEOREM DueMessagesArrive == Spec => []DueMessageArrives
<1>1. Spec => []TypeInv
  BY InitTypes, TypeStep, PTL DEF Spec
<1>2. TypeInv /\ MapInv /\ [Next]_vars => MapInv'
  BY MapStep
<1>3. TypeInv /\ MapInv /\ DueInv /\ [Next]_vars => DueInv'
  BY DueStep
<1>4. Spec => []DueInv
  BY <1>1, <1>2, <1>3, MapInit, DueInit, PTL DEF Spec
<1>5. TypeInv /\ DueInv => DueMessageArrives
  <2> SUFFICES ASSUME TypeInv, DueInv, Up, NEW d \in due
               PROVE  \/ d[1] \in Ran(Outgoing(d[2])) \/ d[1] = writer[d[2]].hand
                      \/ start.item = d[1] /\ Owner[d[2]] \in Ran(start.todo)
    BY DEF DueMessageArrives
  <2>1. d[2] \in Conns
    BY DEF TypeInv, TypeOK
  <2>2. Way(d[2]) = Ran(Outgoing(d[2]))
    BY <2>1, WayIsOutgoing
  <2>3. QED BY <2>2 DEF DueInv, Arrives, Ahead
<1>6. QED BY <1>1, <1>4, <1>5, PTL
-----------------------------------------------------------------------------
(* Who gets a message, and what the status Sent says                         *)

\* m may be on its way to c.
Meant(m, c) == m \in Ran(dispatched) /\ m.kind # "ai" /\ Owner[c] \in Ran(Targets(m))

AddressInv ==
  /\ start.pc = "push" => /\ start.item \in Ran(dispatched)
                          /\ Ran(start.todo) \subseteq Ran(Targets(start.item))
  /\ \A c \in Conns : \A m \in Way(c) : m.kind # "reply" => Meant(m, c)

LEMMA AddressInit == Init => AddressInv
BY DEF Init, AddressInv, Way, Hand, Ran

\* What TakeTransmit does; the message gets its place behind all the others.
LEMMA Dispatch ==
  ASSUME TypeInv, TakeTransmit
  PROVE  LET m == Head(Transmit)
         IN  /\ m \in FrameMsg /\ m \in Msg /\ dispatched' = Append(dispatched, m)
             /\ Ran(dispatched') = Ran(dispatched) \cup {m} /\ start.pc = "select"
             /\ UNCHANGED <<written, writer, SendBack, due>>
             /\ m.kind = "ai" => UNCHANGED start /\ db' = [stored |-> db.stored \cup {m},
                                                           sent   |-> db.sent \cup {m}]
             /\ m.kind # "ai" => /\ start' = [pc |-> "push", item |-> m, todo |-> Targets(m)]
                                 /\ db'.sent = db.sent
<1> DEFINE m == Head(Transmit)
<1>1. Transmit \in Seq(FrameMsg) /\ Transmit # <<>> /\ dispatched \in Seq(FrameMsg)
  BY DEF TakeTransmit, TypeInv, QueueInv
<1>2. m \in FrameMsg /\ m \in Msg
  BY <1>1, LongTail, FramesAreMessages
<1>3. dispatched' = Append(dispatched, m) /\ start.pc = "select"
  BY DEF TakeTransmit
<1>4. Ran(Append(dispatched, m)) = Ran(dispatched) \cup {m}
  <2> HIDE DEF m
  <2>1. QED BY <1>1, <1>2, RanAppend
<1>5. UNCHANGED <<written, writer, SendBack, due>>
  BY DEF TakeTransmit, connVars
<1>6. m.kind = "ai" => UNCHANGED start /\ db' = [stored |-> db.stored \cup {m}, sent |-> db.sent \cup {m}]
  BY DEF TakeTransmit
<1>7. m.kind # "ai" => /\ start' = [pc |-> "push", item |-> m, todo |-> Targets(m)]
                       /\ \E row \in {{}, {m}} : db' = [db EXCEPT !.stored = @ \cup row]
  BY DEF TakeTransmit, Goto
<1>8. db \in DbOK
  BY DEF TypeInv, TypeOK, DbOK
<1>9. m.kind # "ai" => db'.sent = db.sent
  <2> HIDE DEF m
  <2>1. QED BY <1>7, <1>8 DEF DbOK
<1>10. QED BY <1>2, <1>3, <1>4, <1>5, <1>6, <1>7, <1>9

LEMMA DispatchGrows ==
  ASSUME TypeInv, [Next]_vars
  PROVE  Ran(dispatched) \subseteq Ran(dispatched')
BY StartMoves, Dispatch, PushMoves

LEMMA AddressStep ==
  ASSUME TypeInv, MapInv, AddressInv, [Next]_vars
  PROVE  AddressInv'
<1>0. start.todo \in Seq(Users) /\ Clients \in [Users -> Conns \cup {None}]
  BY DEF TypeInv, TypeOK
<1>a. Ran(dispatched) \subseteq Ran(dispatched')
  BY DispatchGrows
<1>1. ASSUME start'.pc = "push"
      PROVE  start'.item \in Ran(dispatched') /\ Ran(start'.todo) \subseteq Ran(Targets(start'.item))
  <2>1. CASE UNCHANGED start
    BY <1>a, <1>1, <2>1 DEF AddressInv
  <2>2. CASE TakeTransmit
    BY <1>1, <2>2, Dispatch
  <2>3. CASE Push
    <3>1. /\ start.pc = "push" /\ Ran(start'.todo) \subseteq Ran(start.todo) /\ start'.item = start.item
      BY <1>1, <2>3, PushMoves
    <3>2. QED BY <1>a, <3>1 DEF AddressInv
  <2>4. QED BY <1>1, <2>1, <2>2, <2>3, StartMoves
<1>2. ASSUME NEW c \in Conns, NEW m \in Way(c)', m.kind # "reply" PROVE Meant(m, c)'
  <2>1. CASE m \in Way(c)
    BY <1>a, <1>2, <2>1 DEF AddressInv, Meant
  <2>2. CASE Push /\ Receiver = c /\ m = start.item
    <3>1. start.todo # <<>> /\ c = Clients[Head(start.todo)] /\ Head(start.todo) \in Users /\ c # None
      BY <2>2, ReceiverTypes
    <3>2. Owner[c] = Head(start.todo)
      BY <3>1 DEF MapInv
    <3>3. Head(start.todo) \in Ran(start.todo)
      BY <1>0, <3>1, RanTail
    <3>4. start.pc = "push" /\ start.item.kind # "ai"
      BY <2>2, PushMoves
    <3>5. Meant(m, c)
      BY <2>2, <3>2, <3>3, <3>4 DEF AddressInv, Meant
    <3>6. QED BY <1>a, <3>5 DEF Meant
  <2>3. QED BY <1>2, <2>1, <2>2, WaysKept
<1>3. QED BY <1>1, <1>2 DEF AddressInv

LEMMA SentInit == Init => SentMeansWritten
BY DEF Init, SentMeansWritten

LEMMA SentStep ==
  ASSUME TypeInv, AddressInv, SentMeansWritten, [Next]_vars
  PROVE  SentMeansWritten'
<1> SUFFICES ASSUME NEW m \in db'.sent, m.kind # "ai"
             PROVE  \E c \in Conns : m \in Ran(written'[c]) /\ Owner[c] \in Ran(Targets(m))
  BY DEF SentMeansWritten
<1>0. db \in DbOK
  BY DEF TypeInv, TypeOK, DbOK
<1>1. CASE m \in db.sent
  <2>1. PICK c \in Conns : m \in Ran(written[c]) /\ Owner[c] \in Ran(Targets(m))
    BY <1>1 DEF SentMeansWritten
  <2>2. m \in Ran(written'[c])
    BY <2>1, WaysKept
  <2>3. QED BY <2>1, <2>2
<1>2. ASSUME NEW c \in Conns, WriteBack(c), m \notin db.sent
      PROVE  m \in Ran(written'[c]) /\ Owner[c] \in Ran(Targets(m))
  <2>1. /\ writer[c].pc = "write" /\ writer[c].hand \in Msg /\ written[c] \in Seq(Msg)
        /\ written \in [Conns -> Seq(Msg)]
    BY <1>2 DEF WriteBack, TypeInv, TypeOK, HandInv
  <2>2. /\ socket[c] = "open" /\ written' = [written EXCEPT ![c] = Append(@, writer[c].hand)]
        /\ db' = [db EXCEPT !.sent = @ \cup ({writer[c].hand} \cap db.stored)]
    BY <1>2 DEF WriteBack
  <2>3. m = writer[c].hand /\ m \in db.stored
    BY <1>0, <1>2, <2>2 DEF DbOK
  <2>4. m.kind # "reply" /\ m \in Way(c)
    BY <2>1, <2>3 DEF TypeInv, QueueInv, FrameMsg, Way, Hand
  <2>5. m \in Ran(written'[c])
    BY <2>1, <2>2, <2>3, RanAppend
  <2>6. QED BY <2>4, <2>5 DEF AddressInv, Meant
<1>3. CASE TakeTransmit
  <2>1. db'.sent = db.sent \/ (Head(Transmit).kind = "ai" /\ db'.sent = db.sent \cup {Head(Transmit)})
    BY <1>3, Dispatch
  <2>2. m \in db.sent
    BY <2>1
  <2>3. QED BY <1>1, <2>2
<1>4. CASE UNCHANGED db
  BY <1>1, <1>4
<1>5. QED
  BY <1>1, <1>2, <1>3, <1>4
     DEF Next, ConnStep, WriterStep, LogoutStep, StartStep, TaskStep, vars, Acquire, NewClientInit,
         ReadMessage, FillCheck, Carry, RouteFrame, Direct, Disconnect, TakeBack, LookupClient,
         SendClientToLogout, CloseConn, CloseChans, TakeLogin, AddClient, TakeLogout, RemoveClient,
         Push, Think, PushReply

\* A row says Sent only when a connection of an addressee, or of the sender, has
\* written the message - or when the message is a question to the AI, whose row is
\* born Sent.
THEOREM SentRowsWereWritten == Spec => []SentMeansWritten
<1>1. Spec => []TypeInv
  BY InitTypes, TypeStep, PTL DEF Spec
<1>2. TypeInv /\ MapInv /\ [Next]_vars => MapInv'
  BY MapStep
<1>3. TypeInv /\ MapInv /\ AddressInv /\ [Next]_vars => AddressInv'
  BY AddressStep
<1>4. TypeInv /\ AddressInv /\ SentMeansWritten /\ [Next]_vars => SentMeansWritten'
  BY SentStep
<1>5. QED
  BY <1>1, <1>2, <1>3, <1>4, MapInit, AddressInit, SentInit, PTL DEF Spec
-----------------------------------------------------------------------------
(* The order of delivery                                                     *)

\* x was dispatched before y.
Before(x, y) ==
  \E i, j \in 1..Len(dispatched) : i < j /\ dispatched[i] = x /\ dispatched[j] = y

\* What is pushed was dispatched last, and nobody who is still to get it has had it
\* already.
FlowInv ==
  start.pc = "push" =>
    /\ NoDup(start.todo)
    /\ \A c \in Conns : Owner[c] \in Ran(start.todo) =>
         \A m \in Way(c) : m.kind # "reply" => Before(m, start.item)

Below(X, Y) == \A x \in X, y \in Y : x.kind # "reply" /\ y.kind # "reply" => Before(x, y)
Sorted(s)   ==
  \A i, j \in 1..Len(s) : i < j /\ s[i].kind # "reply" /\ s[j].kind # "reply" => Before(s[i], s[j])

\* Part by part, a way is in the order of dispatch.
Ordered(c) ==
  /\ Sorted(written[c]) /\ Sorted(SendBack[c])
  /\ Below(Ran(written[c]), Ran(SendBack[c]))
  /\ Below(Ran(written[c]), Hand(c)) /\ Below(Hand(c), Ran(SendBack[c]))

OrderInv == \A c \in Conns : Ordered(c)

LEMMA SortedAppend ==
  ASSUME NEW s \in Seq(Msg), NEW x \in Msg, Sorted(s), Below(Ran(s), {x})
  PROVE  Sorted(Append(s, x))
<1>1. /\ Len(Append(s, x)) = Len(s) + 1 /\ Len(s) \in Nat
      /\ \A i \in 1..Len(s) : Append(s, x)[i] = s[i] /\ s[i] \in Ran(s)
      /\ Append(s, x)[Len(s) + 1] = x
  BY AppendProperties, LenProperties DEF Ran
<1>2. SUFFICES ASSUME NEW i \in 1..(Len(s) + 1), NEW j \in 1..(Len(s) + 1), i < j,
                      Append(s, x)[i].kind # "reply", Append(s, x)[j].kind # "reply"
               PROVE  Before(Append(s, x)[i], Append(s, x)[j])
  BY <1>1 DEF Sorted
<1>3. i \in 1..Len(s)
  BY <1>1, <1>2
<1>4. CASE j \in 1..Len(s)
  BY <1>1, <1>2, <1>3, <1>4 DEF Sorted
<1>5. CASE j = Len(s) + 1
  BY <1>1, <1>2, <1>3, <1>5 DEF Below
<1>6. j \in 1..Len(s) \/ j = Len(s) + 1
  BY <1>1
<1>7. QED BY <1>4, <1>5, <1>6

LEMMA SortedTail ==
  ASSUME NEW s \in Seq(Msg), s # <<>>, Sorted(s)
  PROVE  Sorted(Tail(s)) /\ Below({Head(s)}, Ran(Tail(s)))
<1>1. /\ Len(Tail(s)) = Len(s) - 1 /\ Len(s) \in Nat /\ Len(s) > 0 /\ Head(s) = s[1]
      /\ \A i \in 1..Len(Tail(s)) : Tail(s)[i] = s[i + 1]
  BY LongTail, HeadTailProperties
<1>2. \A i \in 1..Len(Tail(s)) : i \in Nat /\ i + 1 \in 1..Len(s) /\ 1 < i + 1
  BY <1>1
<1>3. 1 \in 1..Len(s)
  BY <1>1
<1>4. ASSUME NEW i \in 1..Len(Tail(s)), NEW j \in 1..Len(Tail(s)), i < j,
             Tail(s)[i].kind # "reply", Tail(s)[j].kind # "reply"
      PROVE  Before(Tail(s)[i], Tail(s)[j])
  <2>1. i + 1 < j + 1 /\ i + 1 \in 1..Len(s) /\ j + 1 \in 1..Len(s)
    BY <1>2, <1>4
  <2>2. QED BY <1>1, <1>4, <2>1 DEF Sorted
<1>5. ASSUME NEW i \in 1..Len(Tail(s)), s[1].kind # "reply", Tail(s)[i].kind # "reply"
      PROVE  Before(s[1], Tail(s)[i])
  BY <1>1, <1>2, <1>3, <1>5 DEF Sorted
<1>6. QED BY <1>1, <1>4, <1>5 DEF Sorted, Below, Ran

LEMMA SortedConcat ==
  ASSUME NEW s \in Seq(Msg), NEW t \in Seq(Msg), Sorted(s), Sorted(t), Below(Ran(s), Ran(t))
  PROVE  Sorted(s \o t)
<1>1. /\ Len(s \o t) = Len(s) + Len(t) /\ Len(s) \in Nat /\ Len(t) \in Nat
      /\ \A i \in 1..(Len(s) + Len(t)) : (s \o t)[i] = IF i <= Len(s) THEN s[i] ELSE t[i - Len(s)]
  BY ConcatProperties, LenProperties
<1>2. SUFFICES ASSUME NEW i \in 1..(Len(s) + Len(t)), NEW j \in 1..(Len(s) + Len(t)), i < j,
                      (s \o t)[i].kind # "reply", (s \o t)[j].kind # "reply"
               PROVE  Before((s \o t)[i], (s \o t)[j])
  BY <1>1 DEF Sorted
<1>3. ASSUME NEW k \in 1..(Len(s) + Len(t))
      PROVE  IF k <= Len(s) THEN k \in 1..Len(s) ELSE k - Len(s) \in 1..Len(t)
  BY <1>1
<1>4. CASE j <= Len(s)
  <2>1. i <= Len(s)
    BY <1>1, <1>2, <1>4
  <2>2. i \in 1..Len(s) /\ j \in 1..Len(s) /\ (s \o t)[i] = s[i] /\ (s \o t)[j] = s[j]
    BY <1>1, <1>3, <1>4, <2>1
  <2>3. QED BY <1>2, <2>2 DEF Sorted
<1>5. CASE ~ (i <= Len(s))
  <2>1. ~ (j <= Len(s)) /\ i - Len(s) < j - Len(s)
    BY <1>1, <1>2, <1>5
  <2>2. /\ i - Len(s) \in 1..Len(t) /\ j - Len(s) \in 1..Len(t)
        /\ (s \o t)[i] = t[i - Len(s)] /\ (s \o t)[j] = t[j - Len(s)]
    BY <1>1, <1>3, <1>5, <2>1
  <2>3. QED BY <1>2, <2>1, <2>2 DEF Sorted
<1>6. CASE i <= Len(s) /\ ~ (j <= Len(s))
  <2>1. /\ i \in 1..Len(s) /\ (s \o t)[i] = s[i]
        /\ j - Len(s) \in 1..Len(t) /\ (s \o t)[j] = t[j - Len(s)]
    BY <1>1, <1>3, <1>6
  <2>2. (s \o t)[i] \in Ran(s) /\ (s \o t)[j] \in Ran(t)
    BY <2>1 DEF Ran
  <2>3. QED BY <1>2, <2>2 DEF Below
<1>7. QED BY <1>4, <1>5, <1>6

\* What has been dispatched keeps its place, and comes before what is dispatched now.
LEMMA BeforeStays ==
  ASSUME TypeInv, [Next]_vars
  PROVE  /\ \A x, y : Before(x, y) => Before(x, y)'
         /\ TakeTransmit => \A x \in Ran(dispatched), m \in Msg : m = Head(Transmit) => Before(x, m)'
         /\ ~ TakeTransmit => UNCHANGED dispatched
<1>1. CASE ~ TakeTransmit
  <2>1. UNCHANGED dispatched
    BY <1>1, StartMoves, PushMoves
  <2>2. QED BY <1>1, <2>1 DEF Before
<1>2. CASE TakeTransmit
  <2> DEFINE m == Head(Transmit)
  <2>1. m \in FrameMsg /\ dispatched' = Append(dispatched, m) /\ dispatched \in Seq(FrameMsg)
    BY <1>2, Dispatch DEF TypeInv, QueueInv
  <2> HIDE DEF m
  <2>2. /\ Len(dispatched') = Len(dispatched) + 1 /\ Len(dispatched) \in Nat
        /\ \A i \in 1..Len(dispatched) : dispatched'[i] = dispatched[i]
        /\ dispatched'[Len(dispatched) + 1] = m
    BY <2>1, AppendProperties, LenProperties
  <2>3. \A i \in 1..Len(dispatched) : i \in 1..Len(dispatched') /\ i < Len(dispatched')
    BY <2>2
  <2>4. Len(dispatched') \in 1..Len(dispatched') /\ dispatched'[Len(dispatched')] = m
    BY <2>2
  <2>5. ASSUME NEW x, NEW y, Before(x, y) PROVE Before(x, y)'
    BY <2>2, <2>3, <2>5 DEF Before
  <2>6. ASSUME NEW x \in Ran(dispatched)
        PROVE  \E i, j \in 1..Len(dispatched') : i < j /\ dispatched'[i] = x /\ dispatched'[j] = m
    <3>1. PICK i \in 1..Len(dispatched) : dispatched[i] = x
      BY DEF Ran
    <3>2. QED BY <2>2, <2>3, <2>4, <3>1
  <2>7. QED BY <1>2, <2>5, <2>6 DEF Before, m
<1>3. QED BY <1>1, <1>2

\* Nobody is pushed a message twice.
LEMMA TargetsDistinct ==
  ASSUME DistinctMembers, NEW m \in FrameMsg, m.kind # "ai"
  PROVE  NoDup(Targets(m))
<1>1. m.kind \in {"user", "group", "call"} /\ (m.kind = "user" => m.to # From(m))
  BY DEF FrameMsg, Msg, FrameKinds
<1>2. m.to # From(m) => NoDup(<<m.to, From(m)>>)
  BY DEF NoDup
<1>3. NoDup(<<m.to>>)
  BY DEF NoDup
<1>4. QED BY <1>1, <1>2, <1>3 DEF Targets, DistinctMembers

LEMMA FlowInit == Init => FlowInv
BY DEF Init, FlowInv

LEMMA FlowStep ==
  ASSUME DistinctMembers, TypeInv, MapInv, AddressInv, FlowInv, [Next]_vars
  PROVE  FlowInv'
<1> SUFFICES ASSUME start'.pc = "push" PROVE FlowInv'
  BY DEF FlowInv
<1>0. /\ start \in StartOK /\ start.todo \in Seq(Users)
      /\ \A x, y : Before(x, y) => Before(x, y)'
  BY BeforeStays DEF TypeInv, TypeOK, StartOK, ItemOK
<1>1. CASE TakeTransmit
  <2>1. PICK m \in Msg : m = Head(Transmit)
    BY <1>1, Dispatch
  <2>2. /\ start.pc = "select" /\ m \in FrameMsg
        /\ start'.item = m /\ start'.todo = Targets(m) /\ m.kind # "ai"
    BY <1>1, <2>1, Dispatch
  <2>3. NoDup(start'.todo)
    BY <2>2, TargetsDistinct
  <2>4. ASSUME NEW c \in Conns, NEW x \in Way(c)', x.kind # "reply" PROVE Before(x, m)'
    <3>1. ~ Push
      BY <2>2 DEF Push
    <3>2. x \in Way(c)
      BY <2>4, <3>1, WaysKept
    <3>3. x \in Ran(dispatched)
      BY <2>4, <3>2 DEF AddressInv, Meant
    <3>4. QED BY <1>1, <2>1, <3>3, BeforeStays
  <2>5. ASSUME NEW c \in Conns, NEW x \in Way(c)', x.kind # "reply" PROVE Before(x, start.item)'
    <3>1. Before(x, m)'
      BY <2>4, <2>5
    <3>2. QED BY <2>2, <3>1 DEF Before
  <2>6. QED BY <2>3, <2>5 DEF FlowInv
<1>2. CASE UNCHANGED <<start, dispatched>> /\ ~ Push
  <2>1. \A c \in Conns : \A x \in Way(c)' : x \in Way(c) \/ x.kind = "reply"
    BY <1>2, WaysKept
  <2>2. ASSUME NEW c \in Conns, Owner[c] \in Ran(start'.todo), NEW x \in Way(c)', x.kind # "reply"
        PROVE  Before(x, start.item)
    BY <1>2, <2>1, <2>2 DEF FlowInv
  <2>3. ASSUME NEW c \in Conns, Owner[c] \in Ran(start'.todo), NEW x \in Way(c)', x.kind # "reply"
        PROVE  Before(x, start.item)'
    BY <1>2, <2>2, <2>3 DEF Before
  <2>4. QED BY <1>2, <2>3 DEF FlowInv
<1>3. CASE Push /\ Rest
  <2>1. start.pc = "push" /\ Len(start.todo) > 1 /\ start.todo # <<>>
    <3>1. start.pc = "push" /\ Len(start.todo) > 1
      BY <1>3 DEF Rest, Goto, Push
    <3>2. QED BY <3>1
  <2>2. /\ start'.todo = Tail(start.todo) /\ start'.item = start.item /\ UNCHANGED dispatched
        /\ NoDup(Tail(start.todo)) /\ Head(start.todo) \notin Ran(Tail(start.todo))
        /\ Ran(start.todo) = {Head(start.todo)} \cup Ran(Tail(start.todo))
    BY <1>0, <1>3, <2>1, RestTypes, NoDupTail, RanTail, PushMoves DEF FlowInv
  <2>3. ASSUME NEW c \in Conns, Owner[c] \in Ran(start'.todo), NEW x \in Way(c)', x.kind # "reply"
        PROVE  Before(x, start.item)
    <3>1. Receiver # c
      <4>1. SUFFICES ASSUME Receiver = c PROVE FALSE
        OBVIOUS
      <4>2. c = Clients[Head(start.todo)] /\ Head(start.todo) \in Users /\ c # None
        BY <4>1, ReceiverTypes
      <4>3. QED BY <2>2, <2>3, <4>2 DEF MapInv
    <3>2. x \in Way(c) /\ Owner[c] \in Ran(start.todo)
      BY <2>2, <2>3, <3>1, WaysKept
    <3>3. QED BY <2>1, <2>3, <3>2 DEF FlowInv
  <2>4. ASSUME NEW c \in Conns, Owner[c] \in Ran(start'.todo), NEW x \in Way(c)', x.kind # "reply"
        PROVE  Before(x, start.item)'
    BY <2>2, <2>3, <2>4 DEF Before
  <2>5. QED BY <2>2, <2>4 DEF FlowInv
<1>4. CASE Push /\ ~ Rest
  <2>1. UNCHANGED <<start, SendBack, writer, written, dispatched>>
    BY <1>4 DEF Push, history
  <2>2. \A c \in Conns : Way(c)' = Way(c)
    BY <2>1 DEF Way, Hand
  <2>3. ASSUME NEW c \in Conns, Owner[c] \in Ran(start'.todo), NEW x \in Way(c)', x.kind # "reply"
        PROVE  Before(x, start.item)'
    <3>1. Before(x, start.item)
      BY <2>1, <2>2, <2>3 DEF FlowInv
    <3>2. QED BY <2>1, <3>1 DEF Before
  <2>4. QED BY <2>1, <2>3 DEF FlowInv
<1>5. QED BY <1>1, <1>2, <1>3, <1>4, StartMoves, PushMoves

LEMMA OrderInit == Init => OrderInv
BY DEF Init, OrderInv, Ordered, Sorted, Below, Hand, Ran

\* The parts of a way as a step that dispatches nothing leaves them.
LEMMA OrderedAfter ==
  ASSUME UNCHANGED dispatched, NEW c \in Conns,
         Sorted(written'[c]), Sorted(SendBack'[c]), Below(Ran(written'[c]), Ran(SendBack'[c])),
         Below(Ran(written'[c]), Hand(c)'), Below(Hand(c)', Ran(SendBack'[c]))
  PROVE  Ordered(c)'
BY DEF Ordered, Sorted, Below, Before

LEMMA OrderStep ==
  ASSUME TypeInv, MapInv, FlowInv, OrderInv, [Next]_vars
  PROVE  OrderInv'
<1> SUFFICES ASSUME NEW c \in Conns PROVE Ordered(c)'
  BY DEF OrderInv
<1>0. /\ SendBack \in [Conns -> Seq(Msg)] /\ written \in [Conns -> Seq(Msg)] /\ Ordered(c)
      /\ written[c] \in Seq(Msg) /\ SendBack[c] \in Seq(Msg)
      /\ start.todo \in Seq(Users)
  BY DEF TypeInv, TypeOK, OrderInv
<1>1. CASE UNCHANGED <<written, SendBack>> /\ Hand(c)' = Hand(c)
  <2> DEFINE Later(x, y) ==
               \E i, j \in 1..Len(dispatched') : i < j /\ dispatched'[i] = x /\ dispatched'[j] = y
  <2>1. \A x, y : Before(x, y) => Later(x, y)
    BY BeforeStays DEF Before
  <2> HIDE DEF Later
  <2>2. ASSUME NEW s, Sorted(s)
        PROVE  \A i, j \in 1..Len(s) :
                 i < j /\ s[i].kind # "reply" /\ s[j].kind # "reply" => Later(s[i], s[j])
    BY <2>1, <2>2 DEF Sorted
  <2>3. ASSUME NEW X, NEW Y, Below(X, Y)
        PROVE  \A x \in X, y \in Y : x.kind # "reply" /\ y.kind # "reply" => Later(x, y)
    BY <2>1, <2>3 DEF Below
  <2>4. Sorted(written[c])'
    <3>1. \A i, j \in 1..Len(written[c]) :
            i < j /\ written[c][i].kind # "reply" /\ written[c][j].kind # "reply"
              => Later(written[c][i], written[c][j])
      BY <1>0, <2>2 DEF Ordered
    <3>2. written'[c] = written[c]
      BY <1>1
    <3>3. \A i, j \in 1..Len(written'[c]) :
            i < j /\ written'[c][i].kind # "reply" /\ written'[c][j].kind # "reply"
              => Later(written'[c][i], written'[c][j])
      BY <3>1, <3>2
    <3>4. QED BY <3>3 DEF Sorted, Before, Later
  <2>5. Sorted(SendBack[c])'
    <3>1. \A i, j \in 1..Len(SendBack[c]) :
            i < j /\ SendBack[c][i].kind # "reply" /\ SendBack[c][j].kind # "reply"
              => Later(SendBack[c][i], SendBack[c][j])
      BY <1>0, <2>2 DEF Ordered
    <3>2. SendBack'[c] = SendBack[c]
      BY <1>1
    <3>3. \A i, j \in 1..Len(SendBack'[c]) :
            i < j /\ SendBack'[c][i].kind # "reply" /\ SendBack'[c][j].kind # "reply"
              => Later(SendBack'[c][i], SendBack'[c][j])
      BY <3>1, <3>2
    <3>4. QED BY <3>3 DEF Sorted, Before, Later
  <2>6. Below(Ran(written[c]), Ran(SendBack[c]))'
    <3>1. \A x \in Ran(written[c]), y \in Ran(SendBack[c]) :
            x.kind # "reply" /\ y.kind # "reply" => Later(x, y)
      BY <1>0, <2>3 DEF Ordered
    <3>2. QED BY <1>1, <3>1 DEF Below, Before, Later
  <2>7. Below(Ran(written[c]), Hand(c))'
    <3>1. \A x \in Ran(written[c]), y \in Hand(c) : x.kind # "reply" /\ y.kind # "reply" => Later(x, y)
      BY <1>0, <2>3 DEF Ordered
    <3>2. QED BY <1>1, <3>1 DEF Below, Before, Later
  <2>8. Below(Hand(c), Ran(SendBack[c]))'
    <3>1. \A x \in Hand(c), y \in Ran(SendBack[c]) : x.kind # "reply" /\ y.kind # "reply" => Later(x, y)
      BY <1>0, <2>3 DEF Ordered
    <3>2. QED BY <1>1, <3>1 DEF Below, Before, Later
  <2>9. QED BY <2>4, <2>5, <2>6, <2>7, <2>8 DEF Ordered
<1>2. CASE Takes(c)
  <2>1. /\ SendBack[c] # <<>> /\ SendBack'[c] = Tail(SendBack[c]) /\ Hand(c)' = {Head(SendBack[c])}
        /\ UNCHANGED <<written, dispatched>>
    BY <1>2 DEF Takes, Hand
  <2>2. /\ Sorted(Tail(SendBack[c])) /\ Below({Head(SendBack[c])}, Ran(Tail(SendBack[c])))
        /\ Ran(SendBack[c]) = {Head(SendBack[c])} \cup Ran(Tail(SendBack[c]))
    BY <1>0, <2>1, SortedTail, RanTail DEF Ordered
  <2>3. /\ Below(Ran(written'[c]), Ran(SendBack'[c])) /\ Below(Ran(written'[c]), Hand(c)')
        /\ Below(Hand(c)', Ran(SendBack'[c]))
    BY <1>0, <2>1, <2>2 DEF Ordered, Below
  <2>4. Sorted(written'[c]) /\ Sorted(SendBack'[c])
    BY <1>0, <2>1, <2>2 DEF Ordered
  <2>5. QED BY <2>1, <2>3, <2>4, OrderedAfter
<1>3. CASE Writes(c)
  <2>1. /\ written'[c] = Append(written[c], writer[c].hand) /\ writer[c].hand \in Msg
        /\ Hand(c) = {writer[c].hand} /\ Hand(c)' = {} /\ UNCHANGED <<SendBack, dispatched>>
    BY <1>3 DEF Writes, Hand
  <2>2. Sorted(written'[c]) /\ Ran(written'[c]) = Ran(written[c]) \cup {writer[c].hand}
    <3>1. Sorted(written[c]) /\ Below(Ran(written[c]), {writer[c].hand})
      BY <1>0, <2>1 DEF Ordered
    <3>2. Sorted(Append(written[c], writer[c].hand))
      BY <1>0, <2>1, <3>1, SortedAppend
    <3>3. Ran(Append(written[c], writer[c].hand)) = Ran(written[c]) \cup {writer[c].hand}
      BY <1>0, <2>1, RanAppend
    <3>4. QED BY <2>1, <3>2, <3>3
  <2>3. /\ Below(Ran(written'[c]), Ran(SendBack'[c])) /\ Below(Ran(written'[c]), Hand(c)')
        /\ Below(Hand(c)', Ran(SendBack'[c]))
    BY <1>0, <2>1, <2>2 DEF Ordered, Below
  <2>4. QED BY <1>0, <2>1, <2>2, <2>3, OrderedAfter DEF Ordered
<1>4. CASE Fails(c)
  <2>1. Hand(c)' = {} /\ UNCHANGED <<written, SendBack, dispatched>>
    BY <1>4 DEF Fails, Hand
  <2>2. /\ Below(Ran(written'[c]), Ran(SendBack'[c])) /\ Below(Ran(written'[c]), Hand(c)')
        /\ Below(Hand(c)', Ran(SendBack'[c]))
    BY <1>0, <2>1 DEF Ordered, Below
  <2>3. QED BY <1>0, <2>1, <2>2, OrderedAfter DEF Ordered
<1>5. ASSUME NEW m \in Msg, Pushes(c, m) PROVE Ordered(c)'
  <2>1. /\ SendBack'[c] = Append(SendBack[c], m) /\ Hand(c)' = Hand(c)
        /\ UNCHANGED <<written, dispatched>>
    BY <1>5 DEF Pushes, Hand
  <2>2. \A x \in Way(c) : x.kind # "reply" /\ m.kind # "reply" => Before(x, m)
    <3> SUFFICES ASSUME m.kind # "reply" PROVE \A x \in Way(c) : x.kind # "reply" => Before(x, m)
      OBVIOUS
    <3>1. Push /\ Receiver = c /\ m = start.item
      BY <1>5 DEF Pushes
    <3>2. /\ start.todo # <<>> /\ c = Clients[Head(start.todo)] /\ Head(start.todo) \in Users /\ c # None
          /\ start.pc = "push"
      BY <3>1, ReceiverTypes, PushMoves
    <3>3. Owner[c] = Head(start.todo) /\ Head(start.todo) \in Ran(start.todo)
      BY <1>0, <3>2, RanTail DEF MapInv
    <3>4. QED BY <3>1, <3>2, <3>3 DEF FlowInv
  <2>3. /\ Sorted(SendBack'[c]) /\ Ran(SendBack'[c]) = Ran(SendBack[c]) \cup {m}
    <3>1. Below(Ran(SendBack[c]), {m})
      BY <2>2 DEF Below, Way
    <3>2. QED BY <1>0, <2>1, <3>1, SortedAppend, RanAppend DEF Ordered
  <2>4. /\ Below(Ran(written'[c]), Ran(SendBack'[c])) /\ Below(Ran(written'[c]), Hand(c)')
        /\ Below(Hand(c)', Ran(SendBack'[c]))
    BY <1>0, <2>1, <2>2, <2>3 DEF Ordered, Below, Way
  <2>5. QED BY <1>0, <2>1, <2>3, <2>4, OrderedAfter DEF Ordered
<1>6. ASSUME NEW d \in Conns, d # c, Takes(d) \/ Writes(d) \/ Fails(d) \/ \E m \in Msg : Pushes(d, m)
      PROVE  Ordered(c)'
  <2>1. /\ written'[c] = written[c] /\ SendBack'[c] = SendBack[c] /\ Hand(c)' = Hand(c)
        /\ UNCHANGED dispatched
    BY <1>6 DEF Takes, Writes, Fails, Pushes, Hand
  <2>2. QED BY <1>0, <2>1, OrderedAfter DEF Ordered
<1>7. QED BY <1>1, <1>2, <1>3, <1>4, <1>5, <1>6, WayMoves DEF Still

\* A message is dispatched once.
LEMMA DispatchedOnce ==
  ASSUME TypeInv, PlaceInv
  PROVE  NoDup(dispatched)
<1> SUFFICES ASSUME NEW i \in 1..Len(dispatched), NEW j \in 1..Len(dispatched),
                    dispatched[i] = dispatched[j]
             PROVE  i = j
  BY DEF NoDup
<1> DEFINE m == dispatched[i]
<1>1. m \in Msg /\ m.conn \in Conns /\ m.n \in Nat \ {0} /\ dispatched \in Seq(Msg)
  BY PlaceTypes
<1> HIDE DEF m
<1>2. /\ InHand(m.conn, m.n) \in {0, 1} /\ Count(SendTo[m.conn], Numbered(m.conn, m.n)) \in Nat
      /\ Count(Transmit, Numbered(m.conn, m.n)) \in Nat /\ Count(dispatched, Numbered(m.conn, m.n)) \in Nat
      /\ Places(m.conn, m.n) \in {0, 1}
  BY <1>1, PlaceTypes DEF PlaceInv
<1>3. Count(dispatched, Numbered(m.conn, m.n)) <= 1
  BY <1>2 DEF Places
<1>4. m \in Numbered(m.conn, m.n) /\ dispatched[i] = m /\ dispatched[j] = m
  BY <1>1 DEF Numbered, m
<1>5. QED BY <1>1, <1>3, <1>4, CountOnce

LEMMA OrderInProperty ==
  ASSUME TypeInv, PlaceInv, OrderInv
  PROVE  OutgoingInServerOrder
<1> SUFFICES ASSUME NEW c \in Conns
             PROVE  LET out    == Outgoing(c)
                        pos(m) == CHOOSE i \in 1..Len(dispatched) : dispatched[i] = m
                    IN  \A i, j \in 1..Len(out) :
                          i < j /\ out[i].kind # "reply" /\ out[j].kind # "reply"
                            => pos(out[i]) < pos(out[j])
  BY DEF OutgoingInServerOrder
<1> DEFINE h      == IF writer[c].pc = "write" THEN <<writer[c].hand>> ELSE <<>>
           pos(m) == CHOOSE i \in 1..Len(dispatched) : dispatched[i] = m
<1>1. written[c] \in Seq(Msg) /\ SendBack[c] \in Seq(Msg) /\ Ordered(c)
  BY DEF TypeInv, TypeOK, OrderInv
<1>2. h \in Seq(Msg) /\ Ran(h) = Hand(c) /\ Sorted(h)
  <2>1. CASE writer[c].pc = "write"
    <3>1. writer[c].hand \in Msg
      BY <2>1 DEF TypeInv, HandInv
    <3>2. QED BY <2>1, <3>1 DEF Ran, Hand, Sorted
  <2>2. CASE writer[c].pc # "write"
    BY <2>2 DEF Ran, Hand, Sorted
  <2>3. QED BY <2>1, <2>2
<1>3. Outgoing(c) = (written[c] \o h) \o SendBack[c]
  BY DEF Outgoing
<1> HIDE DEF h
<1>a. ASSUME NEW s \in Seq(Msg), NEW t \in Seq(Msg), Sorted(s), Sorted(t), Below(Ran(s), Ran(t))
      PROVE  s \o t \in Seq(Msg) /\ Ran(s \o t) = Ran(s) \cup Ran(t) /\ Sorted(s \o t)
  BY <1>a, SortedConcat, RanConcat, ConcatProperties
<1>4. /\ written[c] \o h \in Seq(Msg) /\ Sorted(written[c] \o h)
      /\ Ran(written[c] \o h) = Ran(written[c]) \cup Hand(c)
  BY <1>1, <1>2, <1>a DEF Ordered
<1>5. Below(Ran(written[c] \o h), Ran(SendBack[c]))
  BY <1>1, <1>4 DEF Ordered, Below
<1>6. Sorted(Outgoing(c))
  BY <1>1, <1>3, <1>4, <1>5, <1>a DEF Ordered
<1>7. ASSUME NEW x, NEW y, Before(x, y) PROVE pos(x) < pos(y)
  <2>1. PICK i \in 1..Len(dispatched), j \in 1..Len(dispatched) :
               i < j /\ dispatched[i] = x /\ dispatched[j] = y
    BY <1>7 DEF Before
  <2>2. pos(x) = i /\ pos(y) = j
    BY <2>1, DispatchedOnce DEF NoDup
  <2>3. QED BY <2>1, <2>2
<1> HIDE DEF pos
<1>8. ASSUME NEW i \in 1..Len(Outgoing(c)), NEW j \in 1..Len(Outgoing(c)), i < j,
             Outgoing(c)[i].kind # "reply", Outgoing(c)[j].kind # "reply"
      PROVE  pos(Outgoing(c)[i]) < pos(Outgoing(c)[j])
  BY <1>6, <1>7, <1>8 DEF Sorted
<1>9. QED BY <1>8 DEF pos

\* When nobody is twice on the member list, a connection gets its messages in the
\* order of server_seq, and each once, whatever the other connections, the logouts
\* and the AI tasks do in the meantime.
THEOREM DeliveredInServerOrder == DistinctMembers /\ Spec => []OutgoingInServerOrder
<1> SUFFICES ASSUME DistinctMembers PROVE Spec => []OutgoingInServerOrder
  OBVIOUS
<1>1. Spec => []TypeInv
  BY InitTypes, TypeStep, PTL DEF Spec
<1>2. TypeInv /\ MapInv /\ [Next]_vars => MapInv'
  BY MapStep
<1>3. TypeInv /\ PlaceInv /\ [Next]_vars => PlaceInv'
  BY PlaceStep
<1>4. TypeInv /\ MapInv /\ AddressInv /\ [Next]_vars => AddressInv'
  BY AddressStep
<1>5. TypeInv /\ MapInv /\ AddressInv /\ FlowInv /\ [Next]_vars => FlowInv'
  BY FlowStep
<1>6. TypeInv /\ MapInv /\ FlowInv /\ OrderInv /\ [Next]_vars => OrderInv'
  BY OrderStep
<1>7. Spec => [](PlaceInv /\ OrderInv)
  BY <1>1, <1>2, <1>3, <1>4, <1>5, <1>6, MapInit, PlaceInit, AddressInit, FlowInit, OrderInit, PTL DEF Spec
<1>8. QED BY <1>1, <1>7, OrderInProperty, PTL
=============================================================================
