--------------------------- MODULE KafkaServerProofs ---------------------------
(***************************************************************************)
(* For any number of users, connections, partitions, crashes and errors.   *)
(***************************************************************************)
EXTENDS KafkaServer, QueueLemmas

\* A connection that has not logged in yet.
Early == {"new", "lock", "login"}

\* What a goroutine holds where its next step uses it.
HandInv ==
  /\ consumer.pc \in {"store", "lock", "push"} => consumer.item \in Msg
  /\ consumer.pc \in {"lock", "push"} => consumer.todo # <<>>
  /\ \A c \in Conns : /\ reader[c].pc = "publish" => reader[c].frame \in Msg
                      /\ writer[c].pc = "write" => writer[c].hand \in Msg
                      /\ writer[c].pc \in {"off", "range"} => writer[c].hand = NoMsg
                      /\ reader[c].pc \in Early => writer[c].pc = "off"

TypeInv == TypeOK /\ HandInv

Phase      == {"read", "store", "lock", "push", "dead"}
ConsumerOK == [pc : Phase, item : Msg \cup {NoMsg}, todo : Seq(Users)]
ReaderOK   == [pc : {"new", "lock", "login", "read", "publish", "done"}, frame : Msg \cup {NoMsg}]
WriterOK   == [pc : {"off", "range", "write", "done"}, hand : Msg \cup {NoMsg}]

LEMMA NoMessage == NoMsg \notin Msg /\ NoMsg.n = 0
BY DEF NoMsg, Msg

LEMMA SenderKnown == \A m \in Msg : From(m) \in Users
BY KafkaAssumption DEF Msg, From

\* A frame is a message of the connection that reads it.
LEMMA FrameTypes ==
  ASSUME NEW c \in Conns, frames[c] \in Nat, frames[c] < Len(Talk[c]), NEW m \in Frames(c)
  PROVE  m \in Msg /\ m.conn = c /\ m.n = frames[c] + 1
<1>1. Talk[c] \in Seq(SUBSET (FrameKinds \X (Users \cup {Group})))
  BY KafkaAssumption
<1>2. frames[c] + 1 \in DOMAIN Talk[c]
  BY <1>1
<1>3. Talk[c][frames[c] + 1] \subseteq FrameKinds \X (Users \cup {Group})
  BY <1>1, <1>2
<1>4. PICK kt \in Talk[c][frames[c] + 1] :
             m = [conn |-> c, n |-> frames[c] + 1, kind |-> kt[1], to |-> kt[2]]
  BY DEF Frames
<1>5. kt[1] \in FrameKinds /\ kt[2] \in Users \cup {Group}
  BY <1>3
<1>6. QED BY <1>4, <1>5 DEF Msg

LEMMA TargetTypes ==
  ASSUME NEW m \in Msg
  PROVE  Targets(m) \in Seq(Users)
<1>1. m.kind \in FrameKinds /\ From(m) \in Users /\ Members \in Seq(Users)
  BY SenderKnown, KafkaAssumption DEF Msg
<1>2. /\ m.to \in Users => <<m.to, From(m)>> \in Seq(Users) /\ <<m.to>> \in Seq(Users)
      /\ <<>> \in Seq(Users)
  BY <1>1
<1>3. TextTargets(m) \in Seq(Users)
  <2>1. m.to \in Users \/ m.to = Group
    BY DEF Msg
  <2>2. m.to = Group => m.to \notin Users
    BY KafkaAssumption
  <2>3. QED BY <1>1, <1>2, <2>1, <2>2 DEF TextTargets
<1>4. FileTargets(m) \in Seq(Users) /\ CallTargets(m) \in Seq(Users)
  BY <1>1, <1>2 DEF FileTargets, CallTargets
<1>5. QED BY <1>1, <1>3, <1>4 DEF Targets, FrameKinds

LEMMA RowTypes ==
  ASSUME NEW m \in Msg \cup {NoMsg}, life \in Nat
  PROVE  InLife(m) \in Row /\ \A rs \in Rows(m) : rs \subseteq Row
BY DEF InLife, Row, Rows

LEMMA InitTypes == Init => TypeInv
<1> SUFFICES ASSUME Init PROVE TypeInv
  OBVIOUS
<1>1. Idle \in ConsumerOK /\ Idle.pc = "read"
  BY DEF Idle, ConsumerOK, Phase
<1>2. \A c \in Conns : reader[c] \in ReaderOK /\ writer[c] \in WriterOK
  BY DEF Init, ReaderOK, WriterOK
<1>3. reader \in [Conns -> ReaderOK] /\ writer \in [Conns -> WriterOK]
  BY <1>2 DEF Init
<1>4. TypeOK
  BY <1>1, <1>3, KafkaAssumption
     DEF Init, TypeOK, ConsumerOK, ReaderOK, WriterOK, Phase, Free, Row
<1>5. HandInv
  BY <1>1 DEF Init, HandInv
<1>6. QED BY <1>4, <1>5 DEF TypeInv

\* The steps of a reader, a writer and the consumer keep their types.
LEMMA ReaderMoves ==
  ASSUME reader \in [Conns -> ReaderOK], NEW c \in Conns,
         NEW p \in {"new", "lock", "login", "read", "publish", "done"},
         NEW f \in Msg \cup {NoMsg}
  PROVE  /\ [reader EXCEPT ![c].pc = p] \in [Conns -> ReaderOK]
         /\ [reader EXCEPT ![c] = [pc |-> p, frame |-> f]] \in [Conns -> ReaderOK]
BY DEF ReaderOK

LEMMA WriterMoves ==
  ASSUME writer \in [Conns -> WriterOK], NEW c \in Conns,
         NEW p \in {"off", "range", "write", "done"},
         NEW m \in Msg \cup {NoMsg}
  PROVE  /\ [writer EXCEPT ![c].pc = p] \in [Conns -> WriterOK]
         /\ [writer EXCEPT ![c] = [pc |-> p, hand |-> m]] \in [Conns -> WriterOK]
BY DEF WriterOK

LEMMA BackMoves ==
  ASSUME SendBack \in [Conns -> Seq(Msg)], NEW c \in Conns, NEW m \in Msg
  PROVE  /\ [SendBack EXCEPT ![c] = Append(@, m)] \in [Conns -> Seq(Msg)]
         /\ SendBack[c] # <<>> => /\ Head(SendBack[c]) \in Msg
                                  /\ [SendBack EXCEPT ![c] = Tail(@)] \in [Conns -> Seq(Msg)]
                                  /\ Len(Tail(SendBack[c])) = Len(SendBack[c]) - 1
OBVIOUS

LEMMA RestTypes ==
  ASSUME consumer \in ConsumerOK, consumer.todo # <<>>, consumer.pc = "push", Rest
  PROVE  /\ consumer' \in ConsumerOK
         /\ consumer'.pc \in {"push", "read"}
         /\ consumer'.pc = "push" => /\ consumer' = [consumer EXCEPT !.todo = Tail(@)]
                                     /\ consumer'.todo # <<>> /\ Len(consumer.todo) > 1
                                     /\ mutex' = mutex
         /\ consumer'.pc = "read" => /\ consumer' = Idle /\ mutex' = Free
                                     /\ Len(consumer.todo) = 1
<1>1. Idle \in ConsumerOK /\ Idle.pc = "read"
  BY DEF Idle, ConsumerOK, Phase
<1>2. consumer.todo \in Seq(Users)
  BY DEF ConsumerOK
<1>3. /\ Tail(consumer.todo) \in Seq(Users)
      /\ Len(consumer.todo) \in Nat /\ Len(consumer.todo) > 0
      /\ Len(consumer.todo) > 1 => Tail(consumer.todo) # <<>>
  BY <1>2, LongTail
<1>4. CASE Len(consumer.todo) > 1
  <2>1. Tail(consumer.todo) \in Seq(Users) /\ Tail(consumer.todo) # <<>>
    BY <1>3, <1>4
  <2>2. consumer' = [consumer EXCEPT !.todo = Tail(@)] /\ mutex' = mutex
    BY <1>4 DEF Rest
  <2>3. QED BY <1>4, <2>1, <2>2 DEF ConsumerOK
<1>5. CASE ~ (Len(consumer.todo) > 1)
  <2>1. Len(consumer.todo) = 1
    <3>1. \A n \in Nat : n > 0 /\ ~ (n > 1) => n = 1
      OBVIOUS
    <3>2. QED BY <1>3, <1>5, <3>1
  <2>2. QED BY <1>1, <1>5, <2>1 DEF Rest
<1>6. QED BY <1>4, <1>5

\* The reader of c moves, not to a frame; nobody becomes early again.
Steady(c) ==
  /\ reader'[c].pc # "publish"
  /\ reader'[c].pc \in Early => reader[c].pc \in Early
  /\ \A d \in Conns \ {c} : reader'[d] = reader[d]

LEMMA TypeStep ==
  ASSUME TypeInv, [Next]_vars
  PROVE  TypeInv'
<1> USE DEF TypeInv
<1>0. /\ reader \in [Conns -> ReaderOK] /\ writer \in [Conns -> WriterOK]
      /\ consumer \in ConsumerOK /\ SendBack \in [Conns -> Seq(Msg)]
  BY DEF TypeOK, ReaderOK, WriterOK, ConsumerOK, Phase
<1>a. /\ topic \in [1..Partitions -> Seq(Msg)] /\ position \in [1..Partitions -> Nat]
      /\ asked \in [1..Partitions -> Nat \cup {-1}] /\ committed \in [1..Partitions -> Nat \cup {-1}]
      /\ \A p \in 1..Partitions : /\ asked[p] <= position[p] /\ committed[p] <= position[p]
                                  /\ position[p] <= Len(topic[p])
      /\ \A c \in Conns : Len(SendBack[c]) <= ChannelSize
  BY DEF TypeOK
<1>b. /\ db \in [stored : SUBSET Row, sent : SUBSET Row] /\ written \in [Conns -> Seq(Msg)]
      /\ life \in 0..MaxCrashes /\ readErrors \in 0..MaxReadErrors /\ handled \subseteq Row
      /\ skipped \subseteq (1..Partitions) \X Nat
  BY DEF TypeOK
<1>1. ASSUME AddClient PROVE TypeInv'
  <2>1. start \in Conns /\ Owner[start] \in Users
    BY <1>1, KafkaAssumption DEF AddClient, TypeOK
  <2>2. Clients' \in [Users -> Conns \cup {None}]
    BY <1>1, <2>1 DEF AddClient, TypeOK
  <2>3. QED BY <1>1, <2>2 DEF AddClient, TypeOK, HandInv, brokerVars, connVars, faults, history
<1>2. ASSUME NEW c \in Conns, Connect(c) PROVE TypeInv'
  <2>1. reader' \in [Conns -> ReaderOK] /\ Steady(c)
    BY <1>0, <1>2 DEF Connect, SetReader, ReaderOK, Steady, Early
  <2>2. QED BY <1>2, <2>1 DEF Connect, TypeOK, HandInv, ReaderOK, Steady, brokerVars, faults, history
<1>3. ASSUME NEW c \in Conns, LockLogin(c) PROVE TypeInv'
  <2>1. reader' \in [Conns -> ReaderOK] /\ Steady(c)
    BY <1>0, <1>3 DEF LockLogin, SetReader, ReaderOK, Steady, Early
  <2>2. QED BY <1>3, <2>1 DEF LockLogin, TypeOK, HandInv, ReaderOK, Steady, brokerVars, faults, history
<1>4. ASSUME NEW c \in Conns, SendClientToLogin(c) PROVE TypeInv'
  <2>1. reader' \in [Conns -> ReaderOK] /\ Steady(c) /\ reader'[c].pc = "read"
    BY <1>0, <1>4 DEF SendClientToLogin, SetReader, ReaderOK, Steady, Early
  <2>2. /\ writer' \in [Conns -> WriterOK] /\ \A d \in Conns : writer'[d].hand = writer[d].hand
        /\ writer'[c].pc = "range" /\ \A d \in Conns \ {c} : writer'[d].pc = writer[d].pc
    BY <1>0, <1>4 DEF SendClientToLogin, WriterOK
  <2>3. writer[c].hand = NoMsg
    BY <1>4 DEF SendClientToLogin, HandInv, Early
  <2>4. HandInv'
    BY <1>4, <2>1, <2>2, <2>3 DEF SendClientToLogin, HandInv, Steady, Early
  <2>5. QED BY <1>4, <2>1, <2>2, <2>4 DEF SendClientToLogin, TypeOK, ReaderOK, WriterOK, brokerVars, faults, history
<1>5. ASSUME NEW c \in Conns, ReadFrame(c) PROVE TypeInv'
  <2>1. PICK m \in Frames(c) : reader' = [reader EXCEPT ![c] = [pc |-> "publish", frame |-> m]]
    BY <1>5 DEF ReadFrame
  <2>2. m \in Msg
    BY <1>5, <2>1, FrameTypes DEF ReadFrame, TypeOK
  <2>3. /\ reader' \in [Conns -> ReaderOK] /\ reader'[c] = [pc |-> "publish", frame |-> m]
        /\ \A d \in Conns \ {c} : reader'[d] = reader[d]
    BY <1>0, <2>1, <2>2, ReaderMoves
  <2>4. frames' \in [Conns -> Nat]
    BY <1>5 DEF ReadFrame, TypeOK
  <2>5. HandInv'
    BY <1>5, <2>2, <2>3 DEF ReadFrame, HandInv, Early
  <2>6. QED BY <1>5, <2>3, <2>4, <2>5 DEF ReadFrame, TypeOK, ReaderOK, brokerVars, faults, history
<1>6. ASSUME NEW c \in Conns, ReadFails(c) PROVE TypeInv'
  <2>1. reader' \in [Conns -> ReaderOK] /\ Steady(c)
    BY <1>0, <1>6 DEF ReadFails, SetReader, ReaderOK, Steady, Early
  <2>2. QED BY <1>6, <2>1 DEF ReadFails, TypeOK, HandInv, ReaderOK, Steady, brokerVars, faults, history
<1>7. ASSUME NEW c \in Conns, Publish(c) PROVE TypeInv'
  <2>1. reader[c].frame \in Msg /\ HashOfKey \in 1..Partitions /\ topic[HashOfKey] \in Seq(Msg)
    BY <1>7, KafkaAssumption DEF Publish, HandInv, TypeOK
  <2>2. topic' \in [1..Partitions -> Seq(Msg)] /\ \A p \in 1..Partitions : Len(topic[p]) <= Len(topic'[p])
    <3>1. CASE UNCHANGED topic
      BY <1>a, <3>1
    <3>2. CASE topic' = [topic EXCEPT ![HashOfKey] = Append(@, reader[c].frame)]
      <4>1. /\ Append(topic[HashOfKey], reader[c].frame) \in Seq(Msg)
            /\ Len(Append(topic[HashOfKey], reader[c].frame)) = Len(topic[HashOfKey]) + 1
        BY <2>1, AppendProperties
      <4>2. \A p \in 1..Partitions : Len(topic[p]) \in Nat
        BY <1>a, LenProperties
      <4>3. QED BY <1>a, <2>1, <3>2, <4>1, <4>2
    <3>3. QED BY <1>7, <3>1, <3>2 DEF Publish, PartitionOf
  <2>3. reader' \in [Conns -> ReaderOK] /\ Steady(c)
    BY <1>0, <1>7, ReaderMoves DEF Publish, Steady, Early
  <2>4. HandInv'
    BY <1>7, <2>3 DEF Publish, HandInv, Steady
  <2>5. \A p \in 1..Partitions : position[p] <= Len(topic'[p])
    <3> TAKE p \in 1..Partitions
    <3>1. Len(topic[p]) \in Nat /\ Len(topic'[p]) \in Nat /\ position[p] \in Nat
      BY <1>a, <2>2, LenProperties
    <3>2. QED BY <1>a, <2>2, <3>1
  <2>6. UNCHANGED <<position, asked, committed, Clients, mutex, start, consumer, writer, socket, SendBack,
                    frames, db, life, readErrors, skipped, handled, due, written>>
    BY <1>7 DEF Publish, faults, history
  <2>7. QED BY <2>2, <2>3, <2>4, <2>5, <2>6 DEF TypeOK, ReaderOK
<1>8. ASSUME NEW c \in Conns, Disconnect(c) PROVE TypeInv'
  BY <1>8 DEF Disconnect, TypeOK, HandInv, brokerVars, faults, history
<1>9. ASSUME NEW c \in Conns, TakeBack(c) PROVE TypeInv'
  <2>1. /\ Head(SendBack[c]) \in Msg /\ SendBack' \in [Conns -> Seq(Msg)]
        /\ Len(SendBack'[c]) <= Len(SendBack[c]) /\ \A d \in Conns \ {c} : SendBack'[d] = SendBack[d]
    BY <1>0, <1>9 DEF TakeBack
  <2>2. /\ writer' \in [Conns -> WriterOK] /\ writer'[c].pc = "write" /\ writer'[c].hand \in Msg
        /\ \A d \in Conns \ {c} : writer'[d] = writer[d]
    BY <1>0, <1>9, <2>1, WriterMoves DEF TakeBack
  <2>3. \A d \in Conns : Len(SendBack'[d]) <= ChannelSize
    <3> TAKE d \in Conns
    <3>1. Len(SendBack[d]) \in Nat /\ Len(SendBack'[d]) \in Nat /\ ChannelSize \in Nat
      BY <1>0, <2>1, LenProperties, KafkaAssumption
    <3>2. Len(SendBack'[d]) <= Len(SendBack[d])
      BY <2>1, <3>1
    <3>3. QED BY <1>a, <3>1, <3>2
  <2>4. reader[c].pc \notin Early
    BY <1>9 DEF TakeBack, HandInv
  <2>5. HandInv'
    BY <1>9, <2>2, <2>4 DEF TakeBack, HandInv
  <2>6. QED BY <1>9, <2>1, <2>2, <2>3, <2>5 DEF TakeBack, TypeOK, WriterOK, brokerVars, faults, history
<1>10. ASSUME NEW c \in Conns, WriteBack(c) PROVE TypeInv'
  <2>1. writer[c].hand \in Msg /\ reader[c].pc \notin Early
    BY <1>10 DEF WriteBack, HandInv
  <2>2. /\ writer' \in [Conns -> WriterOK] /\ \A d \in Conns \ {c} : writer'[d] = writer[d]
        /\ writer'[c].pc \in {"range", "done"} /\ (writer'[c].pc = "range" => writer'[c].hand = NoMsg)
    <3>1. NoMsg \in Msg \cup {NoMsg}
      OBVIOUS
    <3>2. \/ writer' = [writer EXCEPT ![c] = [pc |-> "range", hand |-> NoMsg]]
          \/ writer' = [writer EXCEPT ![c].pc = "done"]
      BY <1>10 DEF WriteBack
    <3>3. CASE writer' = [writer EXCEPT ![c] = [pc |-> "range", hand |-> NoMsg]]
      BY <1>0, <3>1, <3>3, WriterMoves
    <3>4. CASE writer' = [writer EXCEPT ![c].pc = "done"]
      BY <1>0, <3>4 DEF WriterOK
    <3>5. QED BY <3>2, <3>3, <3>4
  <2>3. written' \in [Conns -> Seq(Msg)]
    <3>1. Append(written[c], writer[c].hand) \in Seq(Msg)
      BY <1>b, <2>1, AppendProperties
    <3>2. \/ written' = [written EXCEPT ![c] = Append(@, writer[c].hand)]
          \/ written' = written
      BY <1>10 DEF WriteBack
    <3>3. QED BY <1>b, <3>1, <3>2
  <2>4. db' \in [stored : SUBSET Row, sent : SUBSET Row]
    <3>1. \/ db' = [db EXCEPT !.sent = @ \cup ({InLife(writer[c].hand)} \cap db.stored)]
          \/ db' = db
      BY <1>10 DEF WriteBack
    <3>2. QED BY <1>b, <3>1
  <2>5. HandInv'
    BY <1>10, <2>1, <2>2 DEF WriteBack, HandInv
  <2>6. UNCHANGED <<topic, position, asked, committed, Clients, mutex, start, consumer, reader, socket,
                    SendBack, frames, life, readErrors, skipped, handled, due>>
    BY <1>10 DEF WriteBack, brokerVars, faults
  <2>7. QED BY <2>2, <2>3, <2>4, <2>5, <2>6 DEF TypeOK, WriterOK
<1>11. ASSUME NEW p \in 1..Partitions, ReadMessage(p) PROVE TypeInv'
  <2> DEFINE m == topic[p][position[p] + 1]
  <2>1. position[p] \in Nat /\ topic[p] \in Seq(Msg) /\ position[p] < Len(topic[p])
    BY <1>11 DEF ReadMessage, TypeOK
  <2>2. m \in Msg
    BY <2>1
  <2>3. consumer' \in ConsumerOK /\ consumer'.pc = "store" /\ consumer'.item = m
    <3>1. consumer' = [pc |-> "store", item |-> m, todo |-> <<>>]
      BY <1>11 DEF ReadMessage, Idle
    <3>2. <<>> \in Seq(Users)
      OBVIOUS
    <3> HIDE DEF m
    <3>3. QED BY <2>2, <3>1, <3>2 DEF ConsumerOK, Phase
  <2>4. /\ position' \in [1..Partitions -> Nat] /\ position'[p] = position[p] + 1
        /\ asked' \in [1..Partitions -> Nat \cup {-1}] /\ asked'[p] = position[p] + 1
        /\ \A q \in (1..Partitions) \ {p} : position'[q] = position[q] /\ asked'[q] = asked[q]
    <3>1. /\ position' = [position EXCEPT ![p] = position[p] + 1]
          /\ asked' = [asked EXCEPT ![p] = position[p] + 1]
      BY <1>11 DEF ReadMessage
    <3>2. /\ position \in [1..Partitions -> Nat] /\ asked \in [1..Partitions -> Nat \cup {-1}]
          /\ position[p] + 1 \in Nat
      BY <2>1 DEF TypeOK
    <3> HIDE DEF m
    <3>3. QED BY <3>1, <3>2
  <2>5. UNCHANGED <<topic, committed, Clients, mutex, start, reader, writer, socket, SendBack, frames, db,
                    life, readErrors, skipped, handled, due, written>>
    BY <1>11 DEF ReadMessage, connVars, faults, history
  <2>6. \A q \in 1..Partitions : /\ asked'[q] <= position'[q] /\ committed[q] <= position'[q]
                                 /\ position'[q] <= Len(topic[q])
    <3> TAKE q \in 1..Partitions
    <3>1. Len(topic[q]) \in Nat /\ position[q] \in Nat /\ committed[q] \in Int
      BY <1>a, LenProperties
    <3>2. QED BY <1>a, <2>1, <2>4, <3>1
  <2>7. HandInv'
    BY <2>2, <2>3, <2>5 DEF HandInv
  <2>8. QED BY <2>3, <2>4, <2>5, <2>6, <2>7 DEF TypeOK, ConsumerOK, Phase
<1>12. ASSUME NEW p \in 1..Partitions, Commit(p) PROVE TypeInv'
  <2>1. /\ committed' \in [1..Partitions -> Nat \cup {-1}] /\ committed'[p] = asked[p]
        /\ \A q \in (1..Partitions) \ {p} : committed'[q] = committed[q]
    BY <1>12 DEF Commit, TypeOK
  <2>2. UNCHANGED <<topic, position, asked, Clients, mutex, start, consumer, reader, writer, socket, SendBack,
                    frames, db, life, readErrors, skipped, handled, due, written>>
    BY <1>12 DEF Commit, connVars, faults, history
  <2>3. HandInv'
    BY <2>2 DEF HandInv
  <2>4. QED BY <2>1, <2>2, <2>3 DEF TypeOK
<1>13. ASSUME ReadError PROVE TypeInv'
  <2>1. consumer' \in ConsumerOK /\ consumer'.pc = "dead"
    <3>1. consumer' = [pc |-> "dead", item |-> NoMsg, todo |-> <<>>]
      BY <1>13 DEF ReadError, Idle
    <3>2. <<>> \in Seq(Users)
      OBVIOUS
    <3>3. QED BY <3>1, <3>2 DEF ConsumerOK, Phase
  <2>2. db' \in [stored : SUBSET Row, sent : SUBSET Row] /\ readErrors' \in 0..MaxReadErrors
    <3>1. InLife(NoMsg) \in Row
      BY <1>b, RowTypes, KafkaAssumption
    <3>2. db' = [db EXCEPT !.stored = @ \cup {InLife(NoMsg)}]
      BY <1>13 DEF ReadError
    <3>3. readErrors' \in 0..MaxReadErrors
      BY <1>b, <1>13, KafkaAssumption DEF ReadError
    <3>4. QED BY <1>b, <3>1, <3>2, <3>3
  <2>3. UNCHANGED <<topic, position, asked, committed, Clients, mutex, start, reader, writer, socket, SendBack,
                    frames, life, skipped, handled, due, written>>
    BY <1>13 DEF ReadError, brokerVars, connVars, history
  <2>4. HandInv'
    BY <2>1, <2>3 DEF HandInv
  <2>5. QED BY <2>1, <2>2, <2>3, <2>4 DEF TypeOK, ConsumerOK, Phase
<1>14. ASSUME Store PROVE TypeInv'
  <2> DEFINE m == consumer.item
  <2>1. m \in Msg /\ life \in Nat
    BY <1>14 DEF Store, HandInv, TypeOK
  <2>2. InLife(m) \in Row /\ \A rs \in Rows(m) : rs \subseteq Row
    BY <2>1, RowTypes
  <2>3. Targets(m) \in Seq(Users)
    BY <2>1, TargetTypes
  <2>4. /\ consumer' \in ConsumerOK /\ consumer'.item \in Msg \cup {NoMsg}
        /\ consumer'.pc = "lock" => consumer'.item = m /\ consumer'.todo # <<>>
        /\ consumer'.pc \in {"read", "lock"}
    <3>1. CASE Targets(m) = <<>>
      BY <1>14, <3>1 DEF Store, Idle, ConsumerOK, Phase
    <3>2. CASE Targets(m) # <<>>
      <4>1. consumer' = [consumer EXCEPT !.pc = "lock", !.todo = Targets(m)]
        BY <1>14, <3>2 DEF Store
      <4>2. QED BY <1>0, <2>1, <2>3, <3>2, <4>1 DEF ConsumerOK, Phase
    <3>3. QED BY <3>1, <3>2
  <2>5. handled' \subseteq Row /\ db' \in [stored : SUBSET Row, sent : SUBSET Row]
    <3>1. PICK rs \in Rows(m) : db' = [db EXCEPT !.stored = @ \cup rs]
      BY <1>14 DEF Store
    <3>2. handled' = handled \cup {InLife(m)}
      BY <1>14 DEF Store
    <3>3. QED BY <1>b, <2>2, <3>1, <3>2
  <2>6. UNCHANGED <<topic, position, asked, committed, Clients, mutex, start, reader, writer, socket, SendBack,
                    frames, life, readErrors, skipped, due, written>>
    BY <1>14 DEF Store, brokerVars, connVars, faults
  <2>7. HandInv'
    BY <2>1, <2>4, <2>6 DEF HandInv
  <2>8. QED BY <2>4, <2>5, <2>6, <2>7 DEF TypeOK, ConsumerOK, Phase
<1>15. ASSUME LockPush PROVE TypeInv'
  <2>1. consumer' \in ConsumerOK /\ consumer'.pc = "push" /\ consumer'.item = consumer.item
        /\ consumer'.todo = consumer.todo
    BY <1>0, <1>15 DEF LockPush, ConsumerOK, Phase
  <2>2. consumer.item \in Msg /\ consumer.todo # <<>> /\ Ran(consumer.todo) \subseteq Users
    BY <1>0, <1>15 DEF LockPush, HandInv, ConsumerOK, Ran
  <2>3. Online(consumer.todo) \subseteq Conns
    BY <2>2 DEF Online, TypeOK
  <2>4. due' \subseteq Msg \X Conns
    BY <1>15, <2>2, <2>3 DEF LockPush, TypeOK
  <2>5. UNCHANGED <<topic, position, asked, committed, Clients, start, reader, writer, socket, SendBack,
                    frames, db, life, readErrors, skipped, handled, written>> /\ mutex' = Consumer
    BY <1>15 DEF LockPush, brokerVars, connVars, faults
  <2>6. HandInv'
    BY <2>1, <2>2, <2>5 DEF HandInv
  <2>7. QED BY <2>1, <2>4, <2>5, <2>6 DEF TypeOK, ConsumerOK, Phase
<1>16. ASSUME Push PROVE TypeInv'
  <2>1. consumer.pc = "push" /\ consumer.item \in Msg /\ consumer.todo # <<>>
    BY <1>16 DEF Push, HandInv
  <2>2. /\ consumer' \in ConsumerOK /\ consumer'.pc \in {"push", "read", "dead"}
        /\ consumer'.pc = "push" => consumer'.item = consumer.item /\ consumer'.todo # <<>>
        /\ mutex' \in {mutex, Free}
    <3>1. CASE Rest
      BY <1>0, <2>1, <3>1, RestTypes DEF ConsumerOK
    <3>2. CASE consumer' = [consumer EXCEPT !.pc = "dead"] /\ UNCHANGED mutex
      BY <1>0, <3>2 DEF ConsumerOK, Phase
    <3>3. QED BY <1>16, <3>1, <3>2 DEF Push
  <2>3. Head(consumer.todo) \in Users
    BY <1>0, <2>1 DEF ConsumerOK
  <2>4. /\ SendBack' \in [Conns -> Seq(Msg)]
        /\ \A d \in Conns : Len(SendBack'[d]) <= ChannelSize
    <3>1. CASE UNCHANGED SendBack
      BY <3>1 DEF TypeOK
    <3>2. CASE ~ UNCHANGED SendBack
      <4> DEFINE c == Clients[Head(consumer.todo)]
      <4>1. /\ c \in Conns /\ Len(SendBack[c]) < ChannelSize
            /\ SendBack' = [SendBack EXCEPT ![c] = Append(@, consumer.item)]
        BY <1>16, <2>3, <3>2 DEF Push, TypeOK
      <4>2. Len(Append(SendBack[c], consumer.item)) = Len(SendBack[c]) + 1 /\ Len(SendBack[c]) \in Nat
        BY <1>0, <2>1, <4>1
      <4>3. QED BY <1>0, <2>1, <4>1, <4>2, BackMoves, KafkaAssumption, SMTT(30) DEF TypeOK
    <3>3. QED BY <3>1, <3>2
  <2>5. UNCHANGED <<topic, position, asked, committed, Clients, start, reader, writer, socket,
                    frames, db, life, readErrors, skipped, handled, due, written>>
    BY <1>16 DEF Push, brokerVars, faults, history
  <2>6. HandInv'
    BY <2>1, <2>2, <2>5 DEF HandInv
  <2>7. QED BY <2>2, <2>4, <2>5, <2>6 DEF TypeOK, ConsumerOK, Phase
<1>17. ASSUME Crash PROVE TypeInv'
  <2>1. consumer' = Idle /\ Idle \in ConsumerOK /\ Idle.pc = "read"
    BY <1>17 DEF Crash, Idle, ConsumerOK, Phase
  <2>2. /\ reader' \in [Conns -> ReaderOK] /\ writer' \in [Conns -> WriterOK]
        /\ \A c \in Conns : \/ reader[c].pc = "new" /\ reader'[c] = reader[c] /\ writer'[c] = writer[c]
                            \/ reader'[c].pc = "done" /\ writer'[c].pc = "done"
    BY <1>0, <1>17 DEF Crash, ReaderOK, WriterOK
  <2>3. /\ position' \in [1..Partitions -> Nat] /\ asked' \in [1..Partitions -> Nat \cup {-1}]
        /\ \A q \in 1..Partitions : /\ asked'[q] <= position'[q] /\ committed[q] <= position'[q]
                                    /\ position'[q] <= Len(topic[q])
    <3>1. /\ position' = [q \in 1..Partitions |-> IF committed[q] = -1 THEN Len(topic[q]) ELSE committed[q]]
          /\ asked' = [q \in 1..Partitions |-> -1]
      BY <1>17 DEF Crash
    <3>2. ASSUME NEW q \in 1..Partitions
          PROVE  /\ Len(topic[q]) \in Nat /\ position[q] \in Nat
                 /\ committed[q] \in Nat \/ committed[q] = -1
                 /\ committed[q] <= Len(topic[q]) /\ position'[q] \in Nat
                 /\ committed[q] <= position'[q] /\ -1 <= position'[q] /\ position'[q] <= Len(topic[q])
      <4>1. Len(topic[q]) \in Nat /\ position[q] \in Nat /\ (committed[q] \in Nat \/ committed[q] = -1)
        BY <1>a, LenProperties
      <4>2. committed[q] <= Len(topic[q])
        BY <1>a, <4>1
      <4>3. QED BY <3>1, <4>1, <4>2
    <3>3. QED BY <3>1, <3>2
  <2>4. skipped' \subseteq (1..Partitions) \X Nat
    BY <1>a, <1>b, <1>17, LenProperties DEF Crash
  <2>5. /\ SendBack' \in [Conns -> Seq(Msg)] /\ \A d \in Conns : Len(SendBack'[d]) <= ChannelSize
        /\ Clients' \in [Users -> Conns \cup {None}] /\ mutex' = Free /\ start' = None /\ due' = {}
    BY <1>17, KafkaAssumption DEF Crash
  <2>6. UNCHANGED <<topic, committed, socket, db, frames, readErrors, handled, written>> /\ life' \in 0..MaxCrashes
    BY <1>17, KafkaAssumption DEF Crash, TypeOK
  <2>7. HandInv'
    BY <2>1, <2>2 DEF HandInv, Early
  <2>8. QED BY <2>1, <2>2, <2>3, <2>4, <2>5, <2>6, <2>7 DEF TypeOK, ConsumerOK, ReaderOK, WriterOK, Phase
<1>18. ASSUME UNCHANGED vars PROVE TypeInv'
  BY <1>18 DEF vars, brokerVars, connVars, faults, history, TypeOK, HandInv
<1>19. QED
  BY <1>1, <1>2, <1>3, <1>4, <1>5, <1>6, <1>7, <1>8, <1>9, <1>10, <1>11, <1>12, <1>13, <1>14,
     <1>15, <1>16, <1>17, <1>18
     DEF Next, ConnStep, WriterStep, ConsumerStep

\* For any number of connections, crashes and errors, every variable keeps its
\* type, no offset leaves its log and no SendBack its capacity.
THEOREM KafkaTypes == Spec => []TypeOK
<1>1. Spec => []TypeInv
  BY InitTypes, TypeStep, PTL DEF Spec
<1>2. TypeInv => TypeOK
  BY DEF TypeInv
<1>3. QED BY <1>1, <1>2, PTL
-----------------------------------------------------------------------------
(* Who holds the mutex                                                       *)

\* A request holds the mutex exactly while it waits for the login loop, the
\* consumer all the time it pushes; what else the consumer may hold is the mutex
\* it left locked, and then the sender was absent - and stays so, because the map
\* is changed only by who can lock.
MutexInv ==
  /\ \A c \in Conns : reader[c].pc = "login" <=> mutex = R(c)
  /\ consumer.pc = "push" => mutex = Consumer
  /\ mutex = Consumer => \/ consumer.pc = "push"
                         \/ consumer.pc = "dead" /\ Clients[From(consumer.item)] = None

LEMMA Holders ==
  ASSUME NEW c \in Conns, NEW d \in Conns
  PROVE  /\ R(c) # Free /\ R(c) # Consumer /\ Free # Consumer
         /\ R(c) = R(d) => c = d
BY DEF R, Free, Consumer

LEMMA FreeIsNotConsumer == Free # Consumer
BY DEF Free, Consumer

LEMMA MutexInit == Init => MutexInv
BY Holders, FreeIsNotConsumer DEF Init, MutexInv, Idle

LEMMA MutexStep ==
  ASSUME TypeInv, MutexInv, [Next]_vars
  PROVE  MutexInv'
<1>0. /\ reader \in [Conns -> ReaderOK] /\ consumer \in ConsumerOK
  BY DEF TypeInv, TypeOK, ReaderOK, ConsumerOK, Phase
<1>1. ASSUME AddClient PROVE MutexInv'
  BY <1>1, FreeIsNotConsumer DEF AddClient, MutexInv, connVars
<1>2. ASSUME NEW c \in Conns, Connect(c) PROVE MutexInv'
  <2>1. reader'[c].pc = "lock" /\ \A d \in Conns \ {c} : reader'[d] = reader[d]
    BY <1>0, <1>2 DEF Connect, SetReader, ReaderOK
  <2>2. QED BY <1>2, <2>1, Holders DEF Connect, MutexInv
<1>3. ASSUME NEW c \in Conns, LockLogin(c) PROVE MutexInv'
  <2>1. reader'[c].pc = "login" /\ \A d \in Conns \ {c} : reader'[d] = reader[d]
    BY <1>0, <1>3 DEF LockLogin, SetReader, ReaderOK
  <2>2. QED BY <1>3, <2>1, Holders, FreeIsNotConsumer DEF LockLogin, MutexInv
<1>4. ASSUME NEW c \in Conns, SendClientToLogin(c) PROVE MutexInv'
  <2>1. reader'[c].pc = "read" /\ \A d \in Conns \ {c} : reader'[d] = reader[d]
    BY <1>0, <1>4 DEF SendClientToLogin, SetReader, ReaderOK
  <2>2. QED BY <1>4, <2>1, Holders, FreeIsNotConsumer DEF SendClientToLogin, MutexInv
<1>5. ASSUME NEW c \in Conns, ReadFrame(c) \/ ReadFails(c) \/ Publish(c) PROVE MutexInv'
  <2>1. /\ reader[c].pc # "login" /\ reader'[c].pc # "login"
        /\ \A d \in Conns \ {c} : reader'[d] = reader[d]
    BY <1>0, <1>5 DEF ReadFrame, ReadFails, Publish, SetReader, ReaderOK
  <2>2. UNCHANGED <<mutex, consumer, Clients>>
    BY <1>5 DEF ReadFrame, ReadFails, Publish
  <2>3. QED BY <2>1, <2>2 DEF MutexInv
<1>6. ASSUME UNCHANGED <<reader, mutex, consumer, Clients>> PROVE MutexInv'
  BY <1>6 DEF MutexInv
<1>7. ASSUME NEW c \in Conns, Disconnect(c) \/ TakeBack(c) \/ WriteBack(c) PROVE MutexInv'
  BY <1>6, <1>7 DEF Disconnect, TakeBack, WriteBack
<1>8. ASSUME NEW p \in 1..Partitions, Commit(p) PROVE MutexInv'
  BY <1>6, <1>8 DEF Commit, connVars
<1>9. ASSUME UNCHANGED <<reader, mutex, Clients>>, consumer.pc \in {"read", "store"},
             consumer'.pc # "push"
      PROVE  MutexInv'
  BY <1>9 DEF MutexInv
<1>10. ASSUME NEW p \in 1..Partitions, ReadMessage(p) PROVE MutexInv'
  BY <1>9, <1>10 DEF ReadMessage, Idle, connVars
<1>11. ASSUME ReadError PROVE MutexInv'
  BY <1>9, <1>11 DEF ReadError, Idle, connVars
<1>12. ASSUME Store PROVE MutexInv'
  <2>1. consumer'.pc \in {"read", "lock"}
    BY <1>0, <1>12 DEF Store, Idle, ConsumerOK
  <2>2. QED BY <1>9, <1>12, <2>1 DEF Store, connVars
<1>13. ASSUME LockPush PROVE MutexInv'
  <2>1. consumer'.pc = "push"
    BY <1>0, <1>13 DEF LockPush, ConsumerOK
  <2>2. QED BY <1>13, <2>1, Holders, FreeIsNotConsumer DEF LockPush, MutexInv, connVars
<1>14. ASSUME Push PROVE MutexInv'
  <2>1. consumer.pc = "push" /\ consumer.todo # <<>> /\ UNCHANGED <<reader, Clients>> /\ mutex = Consumer
    BY <1>14 DEF Push, TypeInv, HandInv, MutexInv
  <2>2. CASE Rest
    <3>1. \/ consumer'.pc = "push" /\ mutex' = mutex
          \/ consumer'.pc = "read" /\ mutex' = Free
      BY <1>0, <2>1, <2>2, RestTypes
    <3>2. QED BY <2>1, <3>1, Holders, FreeIsNotConsumer DEF MutexInv
  <2>3. CASE /\ Clients[Head(consumer.todo)] = None /\ Echo
             /\ consumer' = [consumer EXCEPT !.pc = "dead"] /\ UNCHANGED mutex
    <3>1. consumer'.pc = "dead" /\ consumer'.item = consumer.item
      BY <1>0, <2>3 DEF ConsumerOK
    <3>2. Clients[From(consumer.item)] = None
      BY <2>3 DEF Echo
    <3>3. QED BY <2>1, <2>3, <3>1, <3>2 DEF MutexInv
  <2>4. QED BY <1>14, <2>2, <2>3 DEF Push
<1>15. ASSUME Crash PROVE MutexInv'
  <2>1. \A c \in Conns : reader'[c].pc # "login"
    BY <1>0, <1>15 DEF Crash, ReaderOK
  <2>2. consumer'.pc = "read" /\ mutex' = Free
    BY <1>15 DEF Crash, Idle
  <2>3. QED BY <2>1, <2>2, Holders, FreeIsNotConsumer DEF MutexInv
<1>16. CASE UNCHANGED vars
  BY <1>6, <1>16 DEF vars, connVars
<1>17. QED
  BY <1>1, <1>2, <1>3, <1>4, <1>5, <1>7, <1>8, <1>10, <1>11, <1>12, <1>13, <1>14, <1>15, <1>16
     DEF Next, ConnStep, WriterStep, ConsumerStep

\* Wherever the processes stand, the mutex is free, or with a request that waits
\* for the login loop, or with a consumer that pushes or that stopped at the echo
\* to a sender who is not in the map.
THEOREM WhoHoldsTheMutex == Spec => []MutexHeld
<1>1. Spec => []TypeInv
  BY InitTypes, TypeStep, PTL DEF Spec
<1>2. TypeInv /\ MutexInv /\ [Next]_vars => MutexInv'
  BY MutexStep
<1>3. Spec => []MutexInv
  BY <1>1, <1>2, MutexInit, PTL DEF Spec
<1>4. TypeInv /\ MutexInv => MutexHeld
  BY DEF TypeInv, TypeOK, MutexInv, MutexHeld
<1>5. QED BY <1>1, <1>3, <1>4, PTL
-----------------------------------------------------------------------------
(* What is due to a connection                                               *)

\* The map leads from a user to a connection of that user.
MapInv == \A u \in Users : Clients[u] # None => Clients[u] \in Conns /\ Owner[Clients[u]] = u

\* Where a message on its way to c may be.
Way(c) ==
  Ran(written[c]) \cup (IF writer[c].pc = "write" THEN {writer[c].hand} ELSE {}) \cup Ran(SendBack[c])

\* While the consumer pushes, the map does not change: the connection that was
\* found when the mutex was locked is the one the message will be pushed to.
Ahead(m, c) ==
  /\ consumer.item = m /\ Owner[c] \in Ran(consumer.todo)
  /\ \/ consumer.pc = "push" /\ Clients[Owner[c]] = c
     \/ consumer.pc = "dead"

DueInv == \A d \in due : d[1] \in Way(d[2]) \/ d[1] = writer[d[2]].hand \/ Ahead(d[1], d[2])

\* The way is the range of what is outgoing.
LEMMA WayIsOutgoing ==
  ASSUME TypeInv, NEW c \in Conns
  PROVE  Way(c) = Ran(Outgoing(c))
<1>1. written[c] \in Seq(Msg) /\ SendBack[c] \in Seq(Msg)
  BY DEF TypeInv, TypeOK
<1>0. ASSUME NEW s \in Seq(Msg), NEW t \in Seq(Msg)
      PROVE  s \o t \in Seq(Msg) /\ Ran(s \o t) = Ran(s) \cup Ran(t)
  BY RanConcat, ConcatProperties
<1>2. ASSUME writer[c].pc = "write" PROVE Way(c) = Ran(Outgoing(c))
  <2>1. writer[c].hand \in Msg
    BY <1>2 DEF TypeInv, HandInv
  <2>2. <<writer[c].hand>> \in Seq(Msg) /\ Ran(<<writer[c].hand>>) = {writer[c].hand}
    BY <2>1 DEF Ran
  <2> DEFINE sent == written[c] \o <<writer[c].hand>>
  <2>3. sent \in Seq(Msg) /\ Ran(sent) = Ran(written[c]) \cup Ran(<<writer[c].hand>>)
    BY <1>1, <2>2, <1>0
  <2>4. Ran(sent \o SendBack[c]) = Ran(sent) \cup Ran(SendBack[c])
    <3> HIDE DEF sent
    <3>1. QED BY <1>1, <2>3, <1>0
  <2>5. QED BY <1>2, <2>2, <2>3, <2>4 DEF Way, Outgoing
<1>3. ASSUME writer[c].pc # "write" PROVE Way(c) = Ran(Outgoing(c))
  <2>1. <<>> \in Seq(Msg) /\ written[c] \o <<>> = written[c]
    BY <1>1, ConcatEmptySeq
  <2>2. Ran((written[c] \o <<>>) \o SendBack[c]) = Ran(written[c]) \cup Ran(SendBack[c])
    BY <1>1, <2>1, RanConcat
  <2>3. QED BY <1>3, <2>2 DEF Way, Outgoing
<1>4. QED BY <1>2, <1>3

LEMMA MapInit == Init => MapInv
BY DEF Init, MapInv

LEMMA MapStep ==
  ASSUME TypeInv, MapInv, [Next]_vars
  PROVE  MapInv'
<1>1. CASE UNCHANGED Clients
  BY <1>1 DEF MapInv
<1>2. CASE AddClient
  <2>1. /\ start \in Conns /\ Owner[start] \in Users /\ Clients \in [Users -> Conns \cup {None}]
        /\ Clients' = [Clients EXCEPT ![Owner[start]] = start]
    BY <1>2, KafkaAssumption DEF AddClient, TypeInv, TypeOK
  <2>2. QED BY <2>1 DEF MapInv
<1>3. CASE Crash
  BY <1>3 DEF Crash, MapInv
<1>4. QED
  BY <1>1, <1>2, <1>3
     DEF Next, ConnStep, WriterStep, ConsumerStep, vars, brokerVars, connVars, Connect, LockLogin,
         SendClientToLogin, ReadFrame, ReadFails, Publish, Disconnect, TakeBack, WriteBack, ReadMessage,
         Commit, ReadError, Store, LockPush, Push

LEMMA DueInit == Init => DueInv
BY DEF Init, DueInv

\* Where message m for c is accounted for.
Kept(m, c) == m \in Way(c) \/ m = writer[c].hand \/ Ahead(m, c)

LEMMA DueStep ==
  ASSUME TypeInv, TypeInv', MutexInv, MapInv, DueInv, [Next]_vars
  PROVE  DueInv'
<1>0. /\ consumer \in ConsumerOK /\ writer \in [Conns -> WriterOK] /\ SendBack \in [Conns -> Seq(Msg)]
      /\ written \in [Conns -> Seq(Msg)] /\ Clients \in [Users -> Conns \cup {None}]
      /\ due \subseteq Msg \X Conns
  BY DEF TypeInv, TypeOK, WriterOK, ConsumerOK, Phase
<1>a. \A d \in due : d[1] \in Msg /\ d[2] \in Conns /\ Kept(d[1], d[2])
  BY <1>0 DEF DueInv, Kept
<1>b. ASSUME due' = due, \A m \in Msg, c \in Conns : Kept(m, c) => Kept(m, c)' PROVE DueInv'
  BY <1>a, <1>b DEF DueInv, Kept
<1>1. ASSUME UNCHANGED <<written, SendBack, due, consumer>>,
             \A c \in Conns : /\ writer'[c].hand = writer[c].hand
                              /\ (writer'[c].pc = "write") = (writer[c].pc = "write"),
             UNCHANGED Clients \/ consumer.pc # "push"
      PROVE  DueInv'
  <2>1. \A m \in Msg, c \in Conns : Kept(m, c) => Kept(m, c)'
    BY <1>1 DEF Kept, Way, Ahead
  <2>2. QED BY <1>b, <1>1, <2>1
<1>2. CASE AddClient
  <2>1. consumer.pc # "push"
    BY <1>2, FreeIsNotConsumer DEF AddClient, MutexInv
  <2>2. QED BY <1>1, <1>2, <2>1 DEF AddClient, connVars, history
<1>3. ASSUME NEW c \in Conns, SendClientToLogin(c) PROVE DueInv'
  <2>1. writer[c].pc = "off"
    BY <1>3 DEF SendClientToLogin, TypeInv, HandInv, Early
  <2>2. writer' = [writer EXCEPT ![c].pc = "range"]
    BY <1>3 DEF SendClientToLogin
  <2>3. \A d \in Conns : /\ writer'[d].hand = writer[d].hand
                         /\ (writer'[d].pc = "write") = (writer[d].pc = "write")
    BY <1>0, <2>1, <2>2 DEF WriterOK
  <2>4. QED BY <1>1, <1>3, <2>3 DEF SendClientToLogin, history
<1>4. ASSUME NEW c \in Conns, TakeBack(c) PROVE DueInv'
  <2>1. /\ writer[c].pc = "range" /\ writer[c].hand = NoMsg /\ SendBack[c] # <<>>
        /\ SendBack[c] \in Seq(Msg)
    BY <1>0, <1>4 DEF TakeBack, TypeInv, HandInv
  <2>2. /\ writer'[c].pc = "write" /\ writer'[c].hand = Head(SendBack[c])
        /\ \A d \in Conns \ {c} : writer'[d] = writer[d]
    BY <1>0, <1>4 DEF TakeBack
  <2>3. SendBack'[c] = Tail(SendBack[c]) /\ \A d \in Conns \ {c} : SendBack'[d] = SendBack[d]
    BY <1>0, <1>4 DEF TakeBack
  <2>4. UNCHANGED <<written, due, consumer, Clients>>
    BY <1>4 DEF TakeBack, history
  <2>5. Ran(SendBack[c]) = {Head(SendBack[c])} \cup Ran(Tail(SendBack[c]))
    BY <2>1, RanTail
  <2>6. ASSUME NEW m \in Msg, NEW d \in Conns, Kept(m, d) PROVE Kept(m, d)'
    <3>1. CASE d = c
      BY <2>1, <2>2, <2>3, <2>4, <2>5, <2>6, <3>1, NoMessage DEF Kept, Way, Ahead
    <3>2. CASE d # c
      BY <2>2, <2>3, <2>4, <2>6, <3>2 DEF Kept, Way, Ahead
    <3>3. QED BY <3>1, <3>2
  <2>7. QED BY <1>b, <2>4, <2>6
<1>5. ASSUME NEW c \in Conns, WriteBack(c) PROVE DueInv'
  <2>1. writer[c].pc = "write" /\ writer[c].hand \in Msg
    BY <1>5 DEF WriteBack, TypeInv, HandInv
  <2>2. UNCHANGED <<SendBack, due, consumer, Clients>>
    BY <1>5 DEF WriteBack
  <2>3. \A d \in Conns \ {c} : writer'[d] = writer[d] /\ written'[d] = written[d]
    BY <1>0, <1>5 DEF WriteBack
  <2>4. \/ written'[c] = Append(written[c], writer[c].hand)
        \/ written' = written /\ writer'[c].hand = writer[c].hand
    BY <1>0, <1>5 DEF WriteBack, WriterOK
  <2>5. Ran(Append(written[c], writer[c].hand)) = Ran(written[c]) \cup {writer[c].hand}
    BY <1>0, <2>1, RanAppend
  <2>6. ASSUME NEW m \in Msg, NEW d \in Conns, Kept(m, d) PROVE Kept(m, d)'
    <3>1. CASE d = c
      BY <2>1, <2>2, <2>4, <2>5, <2>6, <3>1 DEF Kept, Way, Ahead
    <3>2. CASE d # c
      BY <2>2, <2>3, <2>6, <3>2 DEF Kept, Way, Ahead
    <3>3. QED BY <3>1, <3>2
  <2>7. QED BY <1>b, <2>2, <2>6
<1>6. ASSUME UNCHANGED <<written, writer, SendBack, due, Clients>>, consumer.pc \in {"read", "store"}
      PROVE  DueInv'
  <2>1. \A m \in Msg, c \in Conns : Kept(m, c) => Kept(m, c)'
    BY <1>6 DEF Kept, Way, Ahead
  <2>2. QED BY <1>b, <1>6, <2>1
<1>7. CASE LockPush
  <2>1. /\ consumer.pc = "lock" /\ consumer'.pc = "push" /\ consumer'.item = consumer.item
        /\ consumer'.todo = consumer.todo /\ consumer.todo \in Seq(Users)
        /\ due' = due \cup {<<consumer.item, c>> : c \in Online(consumer.todo)}
        /\ UNCHANGED <<written, writer, SendBack, Clients>>
    BY <1>0, <1>7 DEF LockPush, ConsumerOK, connVars
  <2>2. \A m \in Msg, c \in Conns : Kept(m, c) => Kept(m, c)'
    BY <2>1 DEF Kept, Way, Ahead
  <2>3. ASSUME NEW c \in Online(consumer.todo) PROVE Ahead(consumer.item, c)'
    <3>1. PICK u \in Ran(consumer.todo) : c = Clients[u] /\ c # None
      BY <2>3 DEF Online
    <3>2. u \in Users
      BY <2>1, <3>1 DEF Ran
    <3>3. Owner[c] = u /\ Clients[u] = c
      BY <3>1, <3>2 DEF MapInv
    <3>4. QED BY <2>1, <3>1, <3>3 DEF Ahead
  <2>4. ASSUME NEW d \in due'
        PROVE  (d[1] \in Way(d[2]) \/ d[1] = writer[d[2]].hand \/ Ahead(d[1], d[2]))'
    <3>1. CASE d \in due
      BY <1>a, <2>2, <3>1 DEF Kept
    <3>2. CASE d \notin due
      <4>1. PICK c \in Online(consumer.todo) : d = <<consumer.item, c>>
        BY <2>1, <2>4, <3>2
      <4>2. d[1] = consumer'.item /\ d[2] = c
        BY <2>1, <4>1
      <4>3. QED BY <2>3, <4>2
    <3>3. QED BY <3>1, <3>2
  <2>5. QED BY <2>4 DEF DueInv
<1>8. CASE Push
  <2>1. /\ consumer.pc = "push" /\ consumer.item \in Msg /\ consumer.todo # <<>>
        /\ consumer.todo \in Seq(Users) /\ UNCHANGED <<writer, written, due, Clients>>
    BY <1>0, <1>8 DEF Push, TypeInv, HandInv, ConsumerOK, history
  <2>2. Ran(consumer.todo) = {Head(consumer.todo)} \cup Ran(Tail(consumer.todo))
    BY <2>1, RanTail
  <2> DEFINE k == Clients[Head(consumer.todo)]
  <2>3. CASE k = None /\ Echo /\ consumer' = [consumer EXCEPT !.pc = "dead"] /\ UNCHANGED SendBack
    <3>1. consumer'.pc = "dead" /\ consumer'.item = consumer.item /\ consumer'.todo = consumer.todo
      BY <1>0, <2>3 DEF ConsumerOK
    <3>2. \A m \in Msg, c \in Conns : Kept(m, c) => Kept(m, c)'
      BY <2>1, <2>3, <3>1 DEF Kept, Way, Ahead
    <3>3. QED BY <1>b, <2>1, <3>2
  <2>4. ASSUME Rest, UNCHANGED SendBack \/ k \in Conns,
               k \in Conns => SendBack' = [SendBack EXCEPT ![k] = Append(@, consumer.item)]
        PROVE  DueInv'
    <3>1. \/ /\ consumer'.pc = "push" /\ consumer'.item = consumer.item
             /\ consumer'.todo = Tail(consumer.todo)
          \/ Len(consumer.todo) = 1
      BY <1>0, <2>1, <2>4, RestTypes DEF ConsumerOK
    <3>2. Len(consumer.todo) = 1 => Ran(Tail(consumer.todo)) = {}
      <4>1. Len(Tail(consumer.todo)) = Len(consumer.todo) - 1
        BY <2>1, LongTail
      <4>2. QED BY <4>1 DEF Ran
    <3>3. k \in Conns => /\ Ran(SendBack'[k]) = Ran(SendBack[k]) \cup {consumer.item}
                         /\ \A d \in Conns \ {k} : SendBack'[d] = SendBack[d]
      <4> SUFFICES ASSUME k \in Conns
                   PROVE  /\ Ran(SendBack'[k]) = Ran(SendBack[k]) \cup {consumer.item}
                          /\ \A d \in Conns \ {k} : SendBack'[d] = SendBack[d]
        OBVIOUS
      <4> HIDE DEF k
      <4>1. SendBack'[k] = Append(SendBack[k], consumer.item) /\ SendBack[k] \in Seq(Msg)
        BY <1>0, <2>4
      <4>2. \A d \in Conns \ {k} : SendBack'[d] = SendBack[d]
        BY <1>0, <2>4
      <4>3. QED BY <2>1, <4>1, <4>2, RanAppend
    <3>4. ASSUME NEW m \in Msg, NEW c \in Conns, Kept(m, c) PROVE Kept(m, c)'
      <4>1. Way(c) \subseteq Way(c)'
        <5>1. Ran(SendBack[c]) \subseteq Ran(SendBack'[c])
          BY <2>4, <3>3
        <5>2. QED BY <2>1, <5>1 DEF Way
      <4>2. CASE m \in Way(c) \/ m = writer[c].hand
        BY <2>1, <4>1, <4>2 DEF Kept
      <4>3. CASE Ahead(m, c) /\ Owner[c] = Head(consumer.todo)
        <5>1. k = c /\ consumer.item = m
          BY <2>1, <4>3 DEF Ahead
        <5>2. m \in Ran(SendBack'[c])
          BY <3>3, <5>1
        <5>3. QED BY <5>2 DEF Kept, Way
      <4>4. CASE Ahead(m, c) /\ Owner[c] # Head(consumer.todo)
        <5>1. Owner[c] \in Ran(Tail(consumer.todo)) /\ Clients[Owner[c]] = c /\ consumer.item = m
          BY <2>1, <2>2, <4>4 DEF Ahead
        <5>2. Ahead(m, c)'
          BY <2>1, <3>1, <3>2, <5>1 DEF Ahead
        <5>3. QED BY <5>2 DEF Kept
      <4>5. QED BY <3>4, <4>2, <4>3, <4>4 DEF Kept
    <3>5. QED BY <1>b, <2>1, <3>4
  <2>5. k \in Conns \cup {None} /\ None \notin Conns
    BY <1>0, <2>1, KafkaAssumption, LongTail
  <2>6. QED BY <1>8, <2>3, <2>4, <2>5 DEF Push
<1>9. CASE Crash
  BY <1>9 DEF Crash, DueInv
<1>10. ASSUME NEW c \in Conns,
              Connect(c) \/ LockLogin(c) \/ ReadFrame(c) \/ ReadFails(c) \/ Publish(c) \/ Disconnect(c)
       PROVE  DueInv'
  <2>1. UNCHANGED <<written, SendBack, due, consumer, writer, Clients>>
    BY <1>10 DEF Connect, LockLogin, ReadFrame, ReadFails, Publish, Disconnect, history
  <2>2. QED BY <1>1, <2>1
<1>11. ASSUME NEW p \in 1..Partitions, ReadMessage(p) \/ Commit(p) PROVE DueInv'
  <2>1. CASE ReadMessage(p)
    BY <1>6, <2>1 DEF ReadMessage, connVars, history
  <2>2. CASE Commit(p)
    BY <1>1, <2>2 DEF Commit, connVars, history
  <2>3. QED BY <1>11, <2>1, <2>2
<1>12. CASE ReadError \/ Store
  BY <1>6, <1>12 DEF ReadError, Store, connVars, history
<1>13. CASE UNCHANGED vars
  BY <1>1, <1>13 DEF vars, connVars, history
<1>14. QED
  BY <1>2, <1>3, <1>4, <1>5, <1>7, <1>8, <1>9, <1>10, <1>11, <1>12, <1>13
     DEF Next, ConnStep, WriterStep, ConsumerStep

\* A message is not lost for a user who was in the map when the consumer locked it:
\* whatever logs in, fails or fills up, it is on its way to the connection, or with
\* a Write that failed, or ahead of the consumer.
THEOREM DueMessagesArrive == Spec => []DueMessageArrives
<1>1. Spec => []TypeInv
  BY InitTypes, TypeStep, PTL DEF Spec
<1>2. TypeInv /\ MutexInv /\ [Next]_vars => MutexInv'
  BY MutexStep
<1>3. TypeInv /\ MapInv /\ [Next]_vars => MapInv'
  BY MapStep
<1>4. TypeInv /\ TypeInv' /\ MutexInv /\ MapInv /\ DueInv /\ [Next]_vars => DueInv'
  BY DueStep
<1>5. Spec => []DueInv
  BY <1>1, <1>2, <1>3, <1>4, MutexInit, MapInit, DueInit, PTL DEF Spec
<1>6. TypeInv /\ DueInv => DueMessageArrives
  <2> SUFFICES ASSUME TypeInv, DueInv, NEW d \in due
               PROVE  \/ d[1] \in Ran(Outgoing(d[2])) \/ d[1] = writer[d[2]].hand
                      \/ consumer.item = d[1] /\ Owner[d[2]] \in Ran(consumer.todo)
    BY DEF DueMessageArrives
  <2>1. d[2] \in Conns
    BY DEF TypeInv, TypeOK
  <2>2. Way(d[2]) = Ran(Outgoing(d[2]))
    BY <2>1, WayIsOutgoing
  <2>3. QED BY <2>2 DEF DueInv, Ahead
<1>7. QED BY <1>1, <1>5, <1>6, PTL
-----------------------------------------------------------------------------
(* What a crash may lose                                                     *)

Passed    == Upto(position) \ skipped
Taken(pi) == \E r \in handled : r.msg = topic[pi[1]][pi[2]]

\* The record in the consumer's hands has been passed, and is not handled yet; but
\* for that one, there is a lost record for each crash at most.
LossInv ==
  /\ IsFiniteSet(Lost)
  /\ IF consumer.pc = "store"
       THEN \E p \in 1..Partitions : \E i \in 1..position[p] :
              topic[p][i] = consumer.item /\ Cardinality(Lost \ {<<p, i>>}) <= life
       ELSE Cardinality(Lost) <= life

LEMMA Pairs ==
  ASSUME NEW pos, NEW x
  PROVE  x \in Upto(pos) <=> x[1] \in 1..Partitions /\ x[2] \in 1..pos[x[1]] /\ x = <<x[1], x[2]>>
<1>1. ASSUME x \in Upto(pos)
      PROVE  x[1] \in 1..Partitions /\ x[2] \in 1..pos[x[1]] /\ x = <<x[1], x[2]>>
  <2>1. PICK p \in 1..Partitions : x \in {p} \X (1..pos[p])
    BY <1>1 DEF Upto
  <2>2. QED BY <2>1
<1>2. ASSUME x[1] \in 1..Partitions, x[2] \in 1..pos[x[1]], x = <<x[1], x[2]>>
      PROVE  x \in Upto(pos)
  <2>1. x \in {x[1]} \X (1..pos[x[1]])
    BY <1>2
  <2>2. QED BY <1>2, <2>1 DEF Upto
<1>3. QED BY <1>1, <1>2

LEMMA PassedElements ==
  /\ \A x \in Passed : x[1] \in 1..Partitions /\ x[2] \in 1..position[x[1]] /\ x = <<x[1], x[2]>>
  /\ \A p \in 1..Partitions : \A i \in 1..position[p] : <<p, i>> \notin skipped => <<p, i>> \in Passed
<1>1. \A x : x \in Passed <=> /\ x[1] \in 1..Partitions /\ x[2] \in 1..position[x[1]]
                              /\ x = <<x[1], x[2]>> /\ x \notin skipped
  BY Pairs DEF Passed
<1>2. QED BY <1>1

LEMMA LossInit == Init => LossInv
<1> SUFFICES ASSUME Init PROVE LossInv
  OBVIOUS
<1>1. \A p \in 1..Partitions : position[p] = 0
  BY DEF Init
<1>2. \A p \in 1..Partitions : 1..position[p] = {}
  BY <1>1
<1>3. Lost = {}
  BY <1>2, PassedElements DEF Lost, Passed
<1>4. consumer.pc = "read" /\ life = 0
  BY DEF Init, Idle
<1>5. QED BY <1>3, <1>4, FS_EmptySet DEF LossInv

LEMMA LossStep ==
  ASSUME TypeInv, LossInv, [Next]_vars
  PROVE  LossInv'
<1>0. /\ topic \in [1..Partitions -> Seq(Msg)] /\ position \in [1..Partitions -> Nat]
      /\ \A p \in 1..Partitions : position[p] <= Len(topic[p]) /\ committed[p] <= position[p]
      /\ consumer \in ConsumerOK /\ life \in Nat
      /\ committed \in [1..Partitions -> Nat \cup {-1}]
  <2>1. /\ topic \in [1..Partitions -> Seq(Msg)] /\ position \in [1..Partitions -> Nat]
        /\ \A p \in 1..Partitions : position[p] <= Len(topic[p]) /\ committed[p] <= position[p]
        /\ committed \in [1..Partitions -> Nat \cup {-1}]
    BY DEF TypeInv, TypeOK
  <2>2. consumer \in ConsumerOK
    BY DEF TypeInv, TypeOK, ConsumerOK, Phase
  <2>3. life \in Nat
    BY KafkaAssumption DEF TypeInv, TypeOK
  <2>4. QED BY <2>1, <2>2, <2>3
<1>1. ASSUME UNCHANGED <<position, skipped, handled, life>>,
             \A p \in 1..Partitions : \A i \in 1..position[p] : topic'[p][i] = topic[p][i],
             \/ consumer.pc = "store" /\ UNCHANGED consumer
             \/ consumer.pc # "store" /\ consumer'.pc # "store"
      PROVE  LossInv'
  <2>1. Passed' = Passed
    BY <1>1 DEF Passed
  <2>2. \A x \in Passed : Taken(x)' = Taken(x)
    BY <1>1, PassedElements DEF Taken
  <2>3. Lost' = Lost
    BY <2>1, <2>2 DEF Lost, Passed, Taken
  <2>4. QED BY <1>1, <2>3 DEF LossInv
<1>2. ASSUME UNCHANGED <<topic, position, skipped, handled, life>>,
             \/ consumer.pc = "store" /\ UNCHANGED consumer
             \/ consumer.pc # "store" /\ consumer'.pc # "store"
      PROVE  LossInv'
  BY <1>1, <1>2
<1>3. ASSUME NEW c \in Conns, Publish(c) PROVE LossInv'
  <2>1. ASSUME NEW p \in 1..Partitions, NEW i \in 1..position[p] PROVE topic'[p][i] = topic[p][i]
    <3>1. i \in 1..Len(topic[p]) /\ topic[p] \in Seq(Msg)
      <4>1. Len(topic[p]) \in Nat /\ position[p] \in Nat /\ position[p] <= Len(topic[p])
        BY <1>0, LenProperties
      <4>2. QED BY <1>0, <4>1
    <3>2. reader[c].frame \in Msg
      BY <1>3 DEF Publish, TypeInv, HandInv
    <3>3. Append(topic[p], reader[c].frame)[i] = topic[p][i]
      BY <3>1, <3>2, AppendProperties
    <3>4. topic'[p] = Append(topic[p], reader[c].frame) \/ topic'[p] = topic[p]
      BY <1>0, <1>3 DEF Publish
    <3>5. QED BY <3>3, <3>4
  <2>2. UNCHANGED <<position, skipped, handled, life, consumer>>
    BY <1>3 DEF Publish, faults, history
  <2>3. QED BY <1>1, <2>1, <2>2
<1>4. ASSUME NEW p \in 1..Partitions, ReadMessage(p) PROVE LossInv'
  <2> DEFINE i == position[p] + 1
             x == <<p, i>>
  <2>1. /\ consumer.pc = "read" /\ position[p] < Len(topic[p])
        /\ position' = [position EXCEPT ![p] = i]
        /\ consumer'.pc = "store" /\ consumer'.item = topic[p][i]
        /\ UNCHANGED <<topic, skipped, handled, life>>
    BY <1>4 DEF ReadMessage, Idle, faults, history
  <2>2. position[p] \in Nat /\ position'[p] = i /\ i \in 1..position'[p]
    BY <1>0, <2>1
  <2>3. Lost' \subseteq Lost \cup {x}
    <3> SUFFICES ASSUME NEW y \in Lost', y # x PROVE y \in Lost
      OBVIOUS
    <3>1. /\ y[1] \in 1..Partitions /\ y[2] \in 1..position'[y[1]] /\ y = <<y[1], y[2]>>
          /\ y \notin skipped
      <4>1. y \in Passed'
        BY DEF Lost, Passed
      <4>2. QED BY <2>1, <4>1, Pairs DEF Passed
    <3>2. y[2] \in 1..position[y[1]]
      <4>1. CASE y[1] = p
        BY <2>2, <3>1, <4>1
      <4>2. CASE y[1] # p
        BY <1>0, <2>1, <3>1, <4>2
      <4>3. QED BY <4>1, <4>2
    <3>3. y \in Passed
      BY <3>1, <3>2, PassedElements
    <3>4. QED BY <2>1, <3>3 DEF Lost, Passed, Taken
  <2> HIDE DEF i
  <2>4. Lost' \ {x} \subseteq Lost
    BY <2>3
  <2>5. IsFiniteSet(Lost \cup {x}) /\ Cardinality(Lost) <= life
    BY <2>1, FS_AddElement DEF LossInv
  <2>6. IsFiniteSet(Lost') /\ Cardinality(Lost' \ {x}) <= Cardinality(Lost)
    BY <2>3, <2>4, <2>5, FS_Subset DEF LossInv
  <2>7. IsFiniteSet(Lost' \ {x}) /\ Cardinality(Lost' \ {x}) \in Nat /\ Cardinality(Lost) \in Nat
    BY <2>6, FS_RemoveElement, FS_CardinalityType DEF LossInv
  <2>8. Cardinality(Lost' \ {x}) <= life'
    BY <1>0, <2>1, <2>5, <2>6, <2>7
  <2>9. QED BY <2>1, <2>2, <2>6, <2>8 DEF LossInv
<1>5. ASSUME Store PROVE LossInv'
  <2>1. /\ consumer.pc = "store" /\ consumer'.pc # "store"
        /\ handled' = handled \cup {InLife(consumer.item)}
        /\ UNCHANGED <<topic, position, skipped, life>>
    BY <1>0, <1>5 DEF Store, Idle, ConsumerOK, brokerVars, faults
  <2>a. PICK p \in 1..Partitions : \E i \in 1..position[p] :
               topic[p][i] = consumer.item /\ Cardinality(Lost \ {<<p, i>>}) <= life
    BY <2>1 DEF LossInv
  <2>2. PICK i \in 1..position[p] :
               topic[p][i] = consumer.item /\ Cardinality(Lost \ {<<p, i>>}) <= life
    BY <2>a
  <2>3. Lost' \subseteq Lost \ {<<p, i>>}
    <3> SUFFICES ASSUME NEW y \in Lost' PROVE y \in Lost /\ y # <<p, i>>
      OBVIOUS
    <3>1. y \in Passed
      BY <2>1 DEF Lost, Passed
    <3>2. \A r \in handled \cup {InLife(consumer.item)} : r.msg # topic[y[1]][y[2]]
      BY <2>1 DEF Lost, Passed, Taken
    <3>3. InLife(consumer.item).msg = consumer.item
      BY DEF InLife
    <3>4. ~ Taken(y) /\ topic[y[1]][y[2]] # consumer.item
      BY <3>2, <3>3 DEF Taken
    <3>5. QED BY <2>2, <3>1, <3>4 DEF Lost, Passed, Taken
  <2>4. IsFiniteSet(Lost \ {<<p, i>>})
    BY FS_RemoveElement DEF LossInv
  <2>5. IsFiniteSet(Lost') /\ Cardinality(Lost') <= Cardinality(Lost \ {<<p, i>>})
    BY <2>3, <2>4, FS_Subset
  <2>6. Cardinality(Lost') \in Nat /\ Cardinality(Lost \ {<<p, i>>}) \in Nat
    BY <2>4, <2>5, FS_CardinalityType
  <2>7. Cardinality(Lost') <= life'
    BY <1>0, <2>1, <2>2, <2>5, <2>6
  <2>8. QED BY <2>1, <2>5, <2>7 DEF LossInv
<1>6. ASSUME Crash PROVE LossInv'
  <2>1. /\ \A p \in 1..Partitions :
             position'[p] = IF committed[p] = -1 THEN Len(topic[p]) ELSE committed[p]
        /\ skipped' = skipped \cup
             UNION {{p} \X (position[p] + 1 .. Len(topic[p])) : p \in {q \in 1..Partitions : committed[q] = -1}}
        /\ consumer'.pc = "read" /\ life' = life + 1
        /\ UNCHANGED <<topic, handled>>
    BY <1>6 DEF Crash, Idle
  <2>2. Lost' \subseteq Lost
    <3> SUFFICES ASSUME NEW y \in Lost' PROVE y \in Lost
      OBVIOUS
    <3>1. /\ y[1] \in 1..Partitions /\ y[2] \in 1..position'[y[1]] /\ y = <<y[1], y[2]>>
          /\ y \notin skipped' /\ ~ Taken(y)
      <4>1. y \in Passed' /\ ~ Taken(y)
        BY <2>1 DEF Lost, Passed, Taken
      <4>2. QED BY <4>1, Pairs DEF Passed
    <3>2. y \notin skipped
      BY <2>1, <3>1
    <3>3. /\ Len(topic[y[1]]) \in Nat /\ position[y[1]] \in Nat
          /\ committed[y[1]] \in Nat \/ committed[y[1]] = -1
          /\ committed[y[1]] <= position[y[1]]
      BY <1>0, <3>1, LenProperties
    <3>4. y[2] \in 1..position[y[1]]
      <4>1. CASE committed[y[1]] = -1
        <5>1. <<y[1], y[2]>> \notin {y[1]} \X (position[y[1]] + 1 .. Len(topic[y[1]]))
          BY <2>1, <3>1, <4>1
        <5>2. y[2] \notin position[y[1]] + 1 .. Len(topic[y[1]])
          BY <5>1
        <5>3. y[2] \in 1..Len(topic[y[1]])
          BY <2>1, <3>1, <4>1
        <5>4. QED BY <3>3, <5>2, <5>3
      <4>2. CASE committed[y[1]] # -1
        BY <2>1, <3>1, <3>3, <4>2
      <4>3. QED BY <4>1, <4>2
    <3>5. y \in Passed
      BY <3>1, <3>2, <3>4, PassedElements
    <3>6. QED BY <3>1, <3>5 DEF Lost, Passed, Taken
  <2>3. IsFiniteSet(Lost) /\ Cardinality(Lost) \in Nat /\ Cardinality(Lost) <= life + 1
    <3>1. CASE consumer.pc = "store"
      <4>1. PICK p \in 1..Partitions : \E i \in 1..position[p] : Cardinality(Lost \ {<<p, i>>}) <= life
        BY <3>1 DEF LossInv
      <4>2. PICK i \in 1..position[p] : Cardinality(Lost \ {<<p, i>>}) <= life
        BY <4>1
      <4>3. /\ Cardinality(Lost) \in Nat
            /\ Cardinality(Lost \ {<<p, i>>}) \in {Cardinality(Lost) - 1, Cardinality(Lost)}
        BY FS_RemoveElement, FS_CardinalityType DEF LossInv
      <4>4. QED BY <1>0, <4>2, <4>3 DEF LossInv
    <3>2. CASE consumer.pc # "store"
      <4>1. Cardinality(Lost) \in Nat /\ Cardinality(Lost) <= life
        BY <3>2, FS_CardinalityType DEF LossInv
      <4>2. QED BY <1>0, <4>1 DEF LossInv
    <3>3. QED BY <3>1, <3>2
  <2>4. IsFiniteSet(Lost') /\ Cardinality(Lost') <= Cardinality(Lost) /\ Cardinality(Lost') \in Nat
    BY <2>2, <2>3, FS_Subset, FS_CardinalityType
  <2>5. Cardinality(Lost') <= life'
    BY <1>0, <2>1, <2>3, <2>4
  <2>6. QED BY <2>1, <2>4, <2>5 DEF LossInv
<1>7. CASE AddClient
  BY <1>2, <1>7 DEF AddClient, brokerVars, faults, history
<1>8. ASSUME NEW c \in Conns,
             Connect(c) \/ LockLogin(c) \/ SendClientToLogin(c) \/ ReadFrame(c) \/ ReadFails(c)
      PROVE  LossInv'
  <2>1. UNCHANGED <<topic, position, skipped, handled, life, consumer>>
    BY <1>8 DEF Connect, LockLogin, SendClientToLogin, ReadFrame, ReadFails, brokerVars, faults, history
  <2>2. QED BY <1>2, <2>1
<1>9. ASSUME NEW c \in Conns, Disconnect(c) \/ TakeBack(c) \/ WriteBack(c) PROVE LossInv'
  <2>1. UNCHANGED <<topic, position, skipped, handled, life, consumer>>
    BY <1>9 DEF Disconnect, TakeBack, WriteBack, brokerVars, faults, history
  <2>2. QED BY <1>2, <2>1
<1>10. ASSUME NEW p \in 1..Partitions, Commit(p) PROVE LossInv'
  BY <1>2, <1>10 DEF Commit, faults, history
<1>11. CASE ReadError
  BY <1>2, <1>11 DEF ReadError, Idle, brokerVars, history
<1>12. CASE LockPush
  <2>1. consumer.pc = "lock" /\ consumer'.pc = "push"
    BY <1>0, <1>12 DEF LockPush, ConsumerOK
  <2>2. QED BY <1>2, <1>12, <2>1 DEF LockPush, brokerVars, faults
<1>13. CASE Push
  <2>1. consumer.pc = "push" /\ consumer.todo # <<>>
    BY <1>13 DEF Push, TypeInv, HandInv
  <2>2. consumer'.pc # "store"
    <3>1. CASE Rest
      BY <1>0, <2>1, <3>1, RestTypes
    <3>2. CASE consumer' = [consumer EXCEPT !.pc = "dead"]
      BY <1>0, <3>2 DEF ConsumerOK
    <3>3. QED BY <1>13, <3>1, <3>2 DEF Push
  <2>3. QED BY <1>2, <1>13, <2>1, <2>2 DEF Push, brokerVars, faults, history
<1>14. CASE UNCHANGED vars
  BY <1>2, <1>14 DEF vars, brokerVars, faults, history
<1>15. QED
  BY <1>3, <1>4, <1>5, <1>6, <1>7, <1>8, <1>9, <1>10, <1>11, <1>12, <1>13, <1>14
     DEF Next, ConnStep, WriterStep, ConsumerStep

\* However often the process dies, and whatever the broker has been told by then: the
\* records that were passed without being handled number at most one for each crash,
\* besides those that a restart without a committed offset passed over.
THEOREM CrashesLoseOneEach == Spec => []OneLostPerCrash
<1>1. Spec => []TypeInv
  BY InitTypes, TypeStep, PTL DEF Spec
<1>2. TypeInv /\ LossInv /\ [Next]_vars => LossInv'
  BY LossStep
<1>3. Spec => []LossInv
  BY <1>1, <1>2, LossInit, PTL DEF Spec
<1>4. TypeInv /\ LossInv => OneLostPerCrash
  <2> SUFFICES ASSUME TypeInv, LossInv PROVE OneLostPerCrash
    OBVIOUS
  <2>1. life \in Nat
    BY KafkaAssumption DEF TypeInv, TypeOK
  <2>2. Cardinality(Lost) <= life + (IF consumer.pc = "store" THEN 1 ELSE 0)
    <3>1. CASE consumer.pc = "store"
      <4>1. PICK p \in 1..Partitions : \E i \in 1..position[p] : Cardinality(Lost \ {<<p, i>>}) <= life
        BY <3>1 DEF LossInv
      <4>2. PICK i \in 1..position[p] : Cardinality(Lost \ {<<p, i>>}) <= life
        BY <4>1
      <4>3. /\ Cardinality(Lost) \in Nat
            /\ Cardinality(Lost \ {<<p, i>>}) \in {Cardinality(Lost) - 1, Cardinality(Lost)}
        BY FS_RemoveElement, FS_CardinalityType DEF LossInv
      <4>4. QED BY <2>1, <3>1, <4>2, <4>3
    <3>2. CASE consumer.pc # "store"
      <4>1. Cardinality(Lost) \in Nat /\ Cardinality(Lost) <= life
        BY <3>2, FS_CardinalityType DEF LossInv
      <4>2. QED BY <2>1, <3>2, <4>1
    <3>3. QED BY <3>1, <3>2
  <2>3. QED BY <2>2 DEF OneLostPerCrash
<1>5. QED BY <1>1, <1>3, <1>4, PTL
-----------------------------------------------------------------------------
(* The order of what one connection sent                                     *)

Sorted(s)   == \A i, j \in 1..Len(s) : i < j /\ s[i].conn = s[j].conn => s[i].n < s[j].n
Below(A, B) == \A x \in A, y \in B : x.conn = y.conn => x.n < y.n

LEMMA SortedAppend ==
  ASSUME NEW s \in Seq(Msg), NEW x \in Msg, Sorted(s), Below(Ran(s), {x})
  PROVE  Sorted(Append(s, x))
<1>1. /\ Len(Append(s, x)) = Len(s) + 1 /\ Len(s) \in Nat
      /\ \A i \in 1..Len(s) : Append(s, x)[i] = s[i]
      /\ Append(s, x)[Len(s) + 1] = x
  BY AppendProperties, LenProperties
<1> DEFINE t == Append(s, x)
<1>2. SUFFICES ASSUME NEW i \in 1..Len(s) + 1, NEW j \in 1..Len(s) + 1, i < j, t[i].conn = t[j].conn
               PROVE  t[i].n < t[j].n
  BY <1>1 DEF Sorted
<1>3. i \in 1..Len(s) /\ t[i] = s[i] /\ s[i] \in Ran(s)
  BY <1>1, <1>2 DEF Ran
<1>4. CASE j \in 1..Len(s)
  <2>1. t[j] = s[j]
    BY <1>1, <1>4
  <2> HIDE DEF t
  <2>2. QED BY <1>2, <1>3, <1>4, <2>1 DEF Sorted
<1>5. CASE j \notin 1..Len(s)
  <2>1. t[j] = x
    BY <1>1, <1>2, <1>5
  <2> HIDE DEF t
  <2>2. QED BY <1>2, <1>3, <2>1 DEF Below
<1>6. QED BY <1>4, <1>5

LEMMA SortedTail ==
  ASSUME NEW s \in Seq(Msg), s # <<>>, Sorted(s)
  PROVE  Sorted(Tail(s)) /\ Below({Head(s)}, Ran(Tail(s)))
<1>1. /\ Len(Tail(s)) = Len(s) - 1 /\ Len(s) \in Nat /\ Len(s) > 0 /\ Head(s) = s[1]
      /\ \A i \in 1..Len(Tail(s)) : Tail(s)[i] = s[i + 1]
  BY LongTail, HeadTailProperties
<1> DEFINE t == Tail(s)
<1>2. \A i \in 1..Len(t) : i + 1 \in 1..Len(s) /\ t[i] = s[i + 1] /\ 1 < i + 1
  BY <1>1
<1>3. 1 \in 1..Len(s)
  BY <1>1
<1> HIDE DEF t
<1>4. Sorted(t)
  <2> SUFFICES ASSUME NEW i \in 1..Len(t), NEW j \in 1..Len(t), i < j, t[i].conn = t[j].conn
               PROVE  t[i].n < t[j].n
    BY DEF Sorted
  <2>1. i + 1 < j + 1
    OBVIOUS
  <2>2. QED BY <1>2, <2>1 DEF Sorted
<1>5. ASSUME NEW y \in Ran(t), s[1].conn = y.conn PROVE s[1].n < y.n
  <2>1. PICK i \in 1..Len(t) : y = t[i]
    BY DEF Ran
  <2>2. QED BY <1>2, <1>3, <1>5, <2>1 DEF Sorted
<1>6. Below({s[1]}, Ran(t))
  BY <1>5 DEF Below
<1>7. QED BY <1>1, <1>4, <1>6 DEF t

LEMMA SortedConcat ==
  ASSUME NEW s \in Seq(Msg), NEW t \in Seq(Msg), Sorted(s), Sorted(t), Below(Ran(s), Ran(t))
  PROVE  Sorted(s \o t)
<1>1. /\ Len(s \o t) = Len(s) + Len(t) /\ Len(s) \in Nat /\ Len(t) \in Nat
      /\ \A i \in 1..(Len(s) + Len(t)) : (s \o t)[i] = IF i <= Len(s) THEN s[i] ELSE t[i - Len(s)]
  BY ConcatProperties, LenProperties
<1> DEFINE w == s \o t
<1>2. SUFFICES ASSUME NEW i \in 1..Len(s) + Len(t), NEW j \in 1..Len(s) + Len(t), i < j,
                      w[i].conn = w[j].conn
               PROVE  w[i].n < w[j].n
  BY <1>1 DEF Sorted
<1>3. /\ w[i] = IF i <= Len(s) THEN s[i] ELSE t[i - Len(s)]
      /\ w[j] = IF j <= Len(s) THEN s[j] ELSE t[j - Len(s)]
  BY <1>1
<1> HIDE DEF w
<1>4. CASE j <= Len(s)
  <2>1. i \in 1..Len(s) /\ j \in 1..Len(s) /\ w[i] = s[i] /\ w[j] = s[j]
    BY <1>1, <1>2, <1>3, <1>4
  <2>2. QED BY <1>2, <2>1 DEF Sorted
<1>5. CASE ~ (i <= Len(s))
  <2>1. /\ i - Len(s) \in 1..Len(t) /\ j - Len(s) \in 1..Len(t) /\ i - Len(s) < j - Len(s)
        /\ w[i] = t[i - Len(s)] /\ w[j] = t[j - Len(s)]
    BY <1>1, <1>2, <1>3, <1>5
  <2>2. QED BY <1>2, <2>1 DEF Sorted
<1>6. CASE i <= Len(s) /\ ~ (j <= Len(s))
  <2>1. /\ i \in 1..Len(s) /\ j - Len(s) \in 1..Len(t)
        /\ w[i] = s[i] /\ w[j] = t[j - Len(s)]
    BY <1>1, <1>3, <1>6
  <2>2. w[i] \in Ran(s) /\ w[j] \in Ran(t)
    BY <2>1 DEF Ran
  <2>3. QED BY <1>2, <2>2 DEF Below
<1>7. QED BY <1>4, <1>5, <1>6

LEMMA TargetsNoDup ==
  ASSUME DistinctTargets, NEW m \in Msg, m.to # From(m)
  PROVE  NoDup(Targets(m))
<1>1. NoDup(Members)
  BY DEF DistinctTargets
<1>2. NoDup(<<m.to, From(m)>>) /\ NoDup(<<m.to>>) /\ NoDup(<<>>)
  BY DEF NoDup
<1>3. NoDup(TextTargets(m))
  <2>1. m.to \in Users \/ m.to = Group
    BY DEF Msg
  <2>2. m.to = Group => m.to \notin Users
    BY KafkaAssumption
  <2>3. QED BY <1>1, <1>2, <2>1, <2>2 DEF TextTargets
<1>4. NoDup(FileTargets(m)) /\ NoDup(CallTargets(m))
  BY <1>1, <1>2 DEF FileTargets, CallTargets
<1>5. m.kind \in FrameKinds
  BY DEF Msg
<1>6. QED BY <1>3, <1>4, <1>5 DEF Targets, FrameKinds

\* What a connection has read is numbered upwards, and published in that order to
\* the one partition the key hashes to.
SentInv ==
  /\ \A p \in 1..Partitions : p # HashOfKey => topic[p] = <<>>
  /\ Sorted(topic[HashOfKey])
  /\ \A m \in Ran(topic[HashOfKey]) : m.to # From(m) /\ m.n <= frames[m.conn]
  /\ \A c \in Conns : reader[c].pc = "publish" =>
       LET f == reader[c].frame
       IN  /\ f.conn = c /\ f.n = frames[c] /\ f.to # From(f)
           /\ \A m \in Ran(topic[HashOfKey]) : m.conn = c => m.n < f.n

LEMMA SentInit == Init => SentInv
BY KafkaAssumption DEF Init, SentInv, Sorted, Ran

LEMMA SentStep ==
  ASSUME DistinctTargets, TypeInv, SentInv, [Next]_vars
  PROVE  SentInv'
<1>0. /\ topic \in [1..Partitions -> Seq(Msg)] /\ HashOfKey \in 1..Partitions
      /\ reader \in [Conns -> ReaderOK] /\ frames \in [Conns -> Nat]
      /\ topic[HashOfKey] \in Seq(Msg)
  BY KafkaAssumption DEF TypeInv, TypeOK, ReaderOK
<1>1. ASSUME UNCHANGED <<topic, frames>>,
             \A c \in Conns : reader'[c] = reader[c] \/ reader'[c].pc # "publish"
      PROVE  SentInv'
  BY <1>1 DEF SentInv
<1>2. ASSUME NEW c \in Conns, ReadFrame(c) PROVE SentInv'
  <2>1. PICK f \in Frames(c) : reader' = [reader EXCEPT ![c] = [pc |-> "publish", frame |-> f]]
    BY <1>2 DEF ReadFrame
  <2>2. /\ frames' = [frames EXCEPT ![c] = @ + 1] /\ UNCHANGED topic
        /\ frames[c] \in Nat /\ frames[c] < Len(Talk[c])
    BY <1>0, <1>2 DEF ReadFrame, brokerVars
  <2>3. f \in Msg /\ f.conn = c /\ f.n = frames[c] + 1
    BY <2>2, FrameTypes
  <2>4. f.to # From(f)
    <3>1. Talk[c] \in Seq(SUBSET (FrameKinds \X (Users \cup {Group}))) /\ frames[c] + 1 \in DOMAIN Talk[c]
      BY <2>2, KafkaAssumption
    <3>2. PICK kt \in Talk[c][frames[c] + 1] : f.to = kt[2]
      BY DEF Frames
    <3>3. QED BY <2>3, <3>1, <3>2 DEF DistinctTargets, From
  <2>5. /\ frames'[c] = frames[c] + 1 /\ \A d \in Conns \ {c} : frames'[d] = frames[d]
        /\ reader'[c] = [pc |-> "publish", frame |-> f] /\ \A d \in Conns \ {c} : reader'[d] = reader[d]
    BY <1>0, <2>1, <2>2
  <2>6. ASSUME NEW m \in Ran(topic[HashOfKey])
        PROVE  /\ m \in Msg /\ m.conn \in Conns /\ m.n \in Nat /\ frames[m.conn] \in Nat
               /\ m.n <= frames[m.conn] /\ m.n <= frames'[m.conn]
               /\ m.conn = c => m.n < f.n
    <3>1. m \in Msg
      BY <1>0 DEF Ran
    <3>2. m.conn \in Conns /\ m.n \in Nat /\ frames[m.conn] \in Nat /\ m.n <= frames[m.conn]
      BY <1>0, <3>1 DEF Msg, SentInv
    <3>3. frames'[m.conn] = frames[m.conn] \/ frames'[m.conn] = frames[m.conn] + 1
      BY <2>5, <3>2
    <3>4. QED BY <2>3, <2>5, <3>1, <3>2, <3>3
  <2>7. ASSUME NEW d \in Conns, reader'[d].pc = "publish"
        PROVE  LET g == reader'[d].frame
               IN  /\ g.conn = d /\ g.n = frames'[d] /\ g.to # From(g)
                   /\ \A m \in Ran(topic[HashOfKey]) : m.conn = d => m.n < g.n
    <3>1. CASE d = c
      BY <2>3, <2>4, <2>5, <2>6, <3>1
    <3>2. CASE d # c
      BY <2>5, <2>7, <3>2 DEF SentInv
    <3>3. QED BY <3>1, <3>2
  <2>8. QED BY <2>2, <2>6, <2>7 DEF SentInv
<1>3. ASSUME NEW c \in Conns, Publish(c) PROVE SentInv'
  <2> DEFINE f == reader[c].frame
             log == topic[HashOfKey]
  <2>1. /\ f \in Msg /\ f.conn = c /\ f.n = frames[c] /\ f.to # From(f)
        /\ \A m \in Ran(log) : m.conn = c => m.n < f.n
    BY <1>3 DEF Publish, TypeInv, HandInv, SentInv
  <2>2. /\ reader'[c].pc = "read" /\ \A d \in Conns \ {c} : reader'[d] = reader[d]
        /\ UNCHANGED frames
    BY <1>0, <1>3 DEF Publish
  <2>3. CASE UNCHANGED topic
    BY <1>1, <2>2, <2>3
  <2>4. CASE topic' = [topic EXCEPT ![HashOfKey] = Append(@, f)]
    <3>1. topic'[HashOfKey] = Append(log, f) /\ \A p \in 1..Partitions : p # HashOfKey => topic'[p] = topic[p]
      BY <1>0, <2>4
    <3>2. Ran(Append(log, f)) = Ran(log) \cup {f} /\ log \in Seq(Msg)
      BY <1>0, <2>1, RanAppend
    <3>3. Below(Ran(log), {f})
      BY <2>1 DEF Below
    <3>4. Sorted(Append(log, f))
      BY <2>1, <3>2, <3>3, SortedAppend DEF SentInv
    <3>5. ASSUME NEW m \in Ran(log) \cup {f} PROVE m.to # From(m) /\ m.n <= frames'[m.conn]
      BY <1>0, <2>1, <2>2, <3>5 DEF SentInv
    <3>6. ASSUME NEW d \in Conns, reader'[d].pc = "publish"
          PROVE  LET g == reader'[d].frame
                 IN  /\ g.conn = d /\ g.n = frames'[d] /\ g.to # From(g)
                     /\ \A m \in Ran(log) \cup {f} : m.conn = d => m.n < g.n
      <4>1. d # c /\ reader'[d] = reader[d]
        BY <2>2, <3>6
      <4>2. QED BY <2>1, <2>2, <3>6, <4>1 DEF SentInv
    <3>7. QED BY <3>1, <3>2, <3>4, <3>5, <3>6 DEF SentInv
  <2>5. QED BY <1>3, <2>3, <2>4 DEF Publish, PartitionOf
<1>4. ASSUME NEW c \in Conns, Connect(c) \/ LockLogin(c) \/ SendClientToLogin(c) \/ ReadFails(c)
      PROVE  SentInv'
  <2>1. \A d \in Conns : reader'[d] = reader[d] \/ reader'[d].pc # "publish"
    BY <1>0, <1>4 DEF Connect, LockLogin, SendClientToLogin, ReadFails, SetReader, ReaderOK
  <2>2. UNCHANGED <<topic, frames>>
    BY <1>4 DEF Connect, LockLogin, SendClientToLogin, ReadFails, brokerVars
  <2>3. QED BY <1>1, <2>1, <2>2
<1>5. CASE Crash
  <2>1. \A d \in Conns : reader'[d] = reader[d] \/ reader'[d].pc # "publish"
    BY <1>5 DEF Crash
  <2>2. QED BY <1>1, <1>5, <2>1 DEF Crash
<1>6. CASE UNCHANGED <<topic, frames, reader>>
  BY <1>1, <1>6
<1>7. QED
  BY <1>2, <1>3, <1>4, <1>5, <1>6
     DEF Next, ConnStep, WriterStep, ConsumerStep, vars, brokerVars, connVars, AddClient, Disconnect,
         TakeBack, WriteBack, ReadMessage, Commit, ReadError, Store, LockPush, Push

\* What the consumer holds is the record before its offset, and whom it pushes it to
\* are different users.
HandedInv ==
  /\ consumer.pc \in {"store", "lock", "push"} =>
       position[HashOfKey] > 0 /\ consumer.item = topic[HashOfKey][position[HashOfKey]]
  /\ consumer.pc \in {"lock", "push"} => NoDup(consumer.todo)

LEMMA HandedInit == Init => HandedInv
BY DEF Init, Idle, HandedInv

LEMMA HandedStep ==
  ASSUME DistinctTargets, TypeInv, SentInv, HandedInv, [Next]_vars
  PROVE  HandedInv'
<1>0. /\ topic \in [1..Partitions -> Seq(Msg)] /\ position \in [1..Partitions -> Nat]
      /\ HashOfKey \in 1..Partitions /\ consumer \in ConsumerOK
      /\ topic[HashOfKey] \in Seq(Msg) /\ Len(topic[HashOfKey]) \in Nat
      /\ position[HashOfKey] \in Nat /\ position[HashOfKey] <= Len(topic[HashOfKey])
  BY KafkaAssumption, LenProperties DEF TypeInv, TypeOK, ConsumerOK, Phase
<1>1. ASSUME UNCHANGED <<topic, position>>,
             \/ UNCHANGED consumer
             \/ consumer'.pc \in {"read", "dead"}
             \/ /\ consumer'.pc = "push" /\ consumer.pc \in {"lock", "push"}
                /\ consumer'.item = consumer.item /\ NoDup(consumer'.todo)
      PROVE  HandedInv'
  BY <1>1 DEF HandedInv
<1>2. ASSUME NEW c \in Conns, Publish(c) PROVE HandedInv'
  <2>1. reader[c].frame \in Msg
    BY <1>2 DEF Publish, TypeInv, HandInv
  <2>2. \/ topic'[HashOfKey] = Append(topic[HashOfKey], reader[c].frame)
        \/ topic'[HashOfKey] = topic[HashOfKey]
    BY <1>0, <1>2 DEF Publish, PartitionOf
  <2>3. position[HashOfKey] > 0 =>
          topic'[HashOfKey][position[HashOfKey]] = topic[HashOfKey][position[HashOfKey]]
    <3>1. position[HashOfKey] > 0 => position[HashOfKey] \in 1..Len(topic[HashOfKey])
      BY <1>0
    <3>2. QED BY <1>0, <2>1, <2>2, <3>1, AppendProperties
  <2>4. UNCHANGED <<position, consumer>>
    BY <1>2 DEF Publish
  <2>5. QED BY <2>3, <2>4 DEF HandedInv
<1>3. ASSUME NEW p \in 1..Partitions, ReadMessage(p) PROVE HandedInv'
  <2>1. p = HashOfKey
    <3>1. topic[p] # <<>>
      BY <1>0, <1>3 DEF ReadMessage
    <3>2. QED BY <3>1 DEF SentInv
  <2>2. /\ position'[HashOfKey] = position[HashOfKey] + 1 /\ UNCHANGED topic
        /\ consumer'.pc = "store" /\ consumer'.item = topic[HashOfKey][position[HashOfKey] + 1]
    BY <1>0, <1>3, <2>1 DEF ReadMessage, Idle
  <2>3. QED BY <1>0, <2>2 DEF HandedInv
<1>4. CASE Store
  <2>1. consumer.pc = "store" /\ consumer.item \in Msg /\ UNCHANGED <<topic, position>>
    BY <1>4 DEF Store, brokerVars, TypeInv, HandInv
  <2>2. consumer.item = topic[HashOfKey][position[HashOfKey]] /\ position[HashOfKey] > 0
    BY <2>1 DEF HandedInv
  <2>3. CASE consumer' = Idle
    BY <1>1, <2>1, <2>3 DEF Idle
  <2>4. CASE consumer' = [consumer EXCEPT !.pc = "lock", !.todo = Targets(consumer.item)]
    <3>1. /\ consumer'.pc = "lock" /\ consumer'.item = consumer.item
          /\ consumer'.todo = Targets(consumer.item)
      BY <1>0, <2>4 DEF ConsumerOK
    <3>2. consumer.item.to # From(consumer.item)
      <4>1. position[HashOfKey] \in 1..Len(topic[HashOfKey])
        BY <1>0, <2>2
      <4>2. consumer.item \in Ran(topic[HashOfKey])
        BY <2>2, <4>1 DEF Ran
      <4>3. QED BY <4>2 DEF SentInv
    <3>3. NoDup(Targets(consumer.item))
      BY <2>1, <3>2, TargetsNoDup
    <3>4. QED BY <2>1, <2>2, <3>1, <3>3 DEF HandedInv
  <2>5. QED BY <1>4, <2>3, <2>4 DEF Store
<1>5. CASE LockPush
  <2>1. /\ consumer.pc = "lock" /\ consumer'.pc = "push" /\ consumer'.item = consumer.item
        /\ consumer'.todo = consumer.todo
    BY <1>0, <1>5 DEF LockPush, ConsumerOK
  <2>2. QED BY <1>1, <1>5, <2>1 DEF LockPush, brokerVars, HandedInv
<1>6. CASE Push
  <2>1. /\ consumer.pc = "push" /\ consumer.todo # <<>> /\ consumer.todo \in Seq(Users)
        /\ UNCHANGED <<topic, position>> /\ NoDup(consumer.todo)
    BY <1>0, <1>6 DEF Push, brokerVars, TypeInv, HandInv, ConsumerOK, HandedInv
  <2>2. CASE Rest
    <3>1. NoDup(Tail(consumer.todo))
      BY <2>1, NoDupTail
    <3>2. \/ consumer'.pc = "read"
          \/ consumer'.pc = "push" /\ consumer'.item = consumer.item /\ consumer'.todo = Tail(consumer.todo)
      BY <1>0, <2>1, <2>2, RestTypes DEF ConsumerOK
    <3>3. QED BY <1>1, <2>1, <3>1, <3>2
  <2>3. CASE consumer' = [consumer EXCEPT !.pc = "dead"]
    <3>1. consumer'.pc = "dead"
      BY <1>0, <2>3 DEF ConsumerOK
    <3>2. QED BY <1>1, <2>1, <3>1
  <2>4. QED BY <1>6, <2>2, <2>3 DEF Push
<1>7. CASE Crash
  BY <1>7 DEF Crash, Idle, HandedInv
<1>8. CASE ReadError
  BY <1>1, <1>8 DEF ReadError, Idle, brokerVars
<1>9. CASE UNCHANGED <<topic, position, consumer>>
  BY <1>1, <1>9
<1>10. QED
  BY <1>2, <1>3, <1>4, <1>5, <1>6, <1>7, <1>8, <1>9
     DEF Next, ConnStep, WriterStep, ConsumerStep, vars, brokerVars, AddClient, Disconnect,
         TakeBack, WriteBack, Commit, Connect, LockLogin, SendClientToLogin, ReadFrame, ReadFails

\* Before it logs in a connection has got nothing and is not in the map.
EarlyInv ==
  /\ \A c \in Conns : reader[c].pc \in Early => written[c] = <<>> /\ SendBack[c] = <<>>
  /\ \A u \in Users : Clients[u] # None => reader[Clients[u]].pc \notin Early
  /\ start # None => reader[start].pc \notin Early

LEMMA EarlyInit == Init => EarlyInv
BY DEF Init, EarlyInv

LEMMA EarlyStep ==
  ASSUME TypeInv, EarlyInv, [Next]_vars
  PROVE  EarlyInv'
<1>0. /\ reader \in [Conns -> ReaderOK] /\ Clients \in [Users -> Conns \cup {None}]
      /\ start \in Conns \cup {None} /\ None \notin Conns /\ consumer \in ConsumerOK
      /\ SendBack \in [Conns -> Seq(Msg)] /\ written \in [Conns -> Seq(Msg)]
  BY KafkaAssumption DEF TypeInv, TypeOK, ReaderOK, ConsumerOK, Phase
<1>1. ASSUME UNCHANGED <<Clients, start>>,
             \A c \in Conns : reader'[c].pc \in Early =>
               reader[c].pc \in Early /\ written'[c] = written[c] /\ SendBack'[c] = SendBack[c]
      PROVE  EarlyInv'
  BY <1>0, <1>1 DEF EarlyInv
<1>2. CASE AddClient
  <2>1. /\ start \in Conns /\ Owner[start] \in Users /\ reader[start].pc \notin Early
        /\ Clients' = [Clients EXCEPT ![Owner[start]] = start] /\ start' = None
        /\ UNCHANGED <<reader, written, SendBack>>
    BY <1>0, <1>2, KafkaAssumption DEF AddClient, connVars, history, EarlyInv
  <2>2. QED BY <1>0, <2>1 DEF EarlyInv
<1>3. ASSUME NEW c \in Conns, SendClientToLogin(c) PROVE EarlyInv'
  <2>1. reader'[c].pc = "read" /\ \A d \in Conns \ {c} : reader'[d] = reader[d]
    BY <1>0, <1>3 DEF SendClientToLogin, SetReader
  <2>2. start' = c /\ UNCHANGED <<Clients, written, SendBack>>
    BY <1>3 DEF SendClientToLogin, history
  <2>3. reader'[c].pc \notin Early
    BY <2>1 DEF Early
  <2>4. QED BY <1>0, <2>1, <2>2, <2>3 DEF EarlyInv
<1>4. ASSUME NEW c \in Conns,
             Connect(c) \/ LockLogin(c) \/ ReadFrame(c) \/ ReadFails(c) \/ Publish(c)
      PROVE  EarlyInv'
  <2>1. \A d \in Conns : reader'[d].pc \in Early => reader[d].pc \in Early
    <3>1. CASE Connect(c) \/ LockLogin(c) \/ ReadFails(c)
      <4>1. /\ \A d \in Conns \ {c} : reader'[d] = reader[d]
            /\ reader[c].pc \in Early \/ reader'[c].pc = "done"
        <5>1. CASE Connect(c)
          BY <1>0, <5>1 DEF Connect, SetReader, Early
        <5>2. CASE LockLogin(c)
          BY <1>0, <5>2 DEF LockLogin, SetReader, Early
        <5>3. CASE ReadFails(c)
          BY <1>0, <5>3 DEF ReadFails, SetReader, ReaderOK
        <5>4. QED BY <3>1, <5>1, <5>2, <5>3
      <4>2. QED BY <4>1 DEF Early
    <3>2. CASE Publish(c)
      BY <1>0, <3>2 DEF Publish, ReaderOK, Early
    <3>3. CASE ReadFrame(c)
      <4>1. reader'[c].pc = "publish" /\ \A d \in Conns \ {c} : reader'[d] = reader[d]
        BY <1>0, <3>3 DEF ReadFrame
      <4>2. QED BY <4>1 DEF Early
    <3>4. QED BY <1>4, <3>1, <3>2, <3>3
  <2>2. UNCHANGED <<Clients, start, written, SendBack>>
    BY <1>4 DEF Connect, LockLogin, ReadFrame, ReadFails, Publish, history
  <2>3. QED BY <1>1, <2>1, <2>2
<1>5. ASSUME NEW c \in Conns, TakeBack(c) \/ WriteBack(c) PROVE EarlyInv'
  <2>1. reader[c].pc \notin Early
    BY <1>5 DEF TakeBack, WriteBack, TypeInv, HandInv
  <2>2. /\ UNCHANGED <<Clients, start, reader>>
        /\ \A d \in Conns \ {c} : written'[d] = written[d] /\ SendBack'[d] = SendBack[d]
    BY <1>0, <1>5 DEF TakeBack, WriteBack, history
  <2>3. QED BY <1>1, <2>1, <2>2
<1>6. CASE Push
  <2>1. Head(consumer.todo) \in Users
    BY <1>0, <1>6, LongTail DEF Push, TypeInv, HandInv, ConsumerOK
  <2> DEFINE k == Clients[Head(consumer.todo)]
  <2>2. UNCHANGED <<Clients, start, reader, written>>
    BY <1>6 DEF Push, history
  <2>3. SendBack' = SendBack \/ (k # None /\ SendBack' = [SendBack EXCEPT ![k] = Append(@, consumer.item)])
    BY <1>6 DEF Push
  <2>4. k # None => reader[k].pc \notin Early
    BY <2>1 DEF EarlyInv
  <2> HIDE DEF k
  <2>5. \A d \in Conns : reader[d].pc \in Early => SendBack'[d] = SendBack[d]
    BY <1>0, <2>3, <2>4
  <2>6. QED BY <1>1, <2>2, <2>5
<1>7. CASE Crash
  <2>1. /\ \A c \in Conns : reader'[c].pc \in Early => reader[c].pc \in Early
        /\ \A u \in Users : Clients'[u] = None
        /\ \A c \in Conns : SendBack'[c] = <<>>
        /\ start' = None /\ UNCHANGED written
    BY <1>0, <1>7 DEF Crash, Early
  <2>2. QED BY <2>1 DEF EarlyInv
<1>8. CASE UNCHANGED <<Clients, start, reader, written, SendBack>>
  BY <1>1, <1>8
<1>9. QED
  BY <1>2, <1>3, <1>4, <1>5, <1>6, <1>7, <1>8
     DEF Next, ConnStep, WriterStep, ConsumerStep, vars, connVars, history, Disconnect,
         ReadMessage, Commit, ReadError, Store, LockPush

\* The connections that may still be pushed to in this life.
Current(c) == c = start \/ Clients[Owner[c]] = c \/ reader[c].pc \in Early
\* The consumer has taken a record that c has not got yet, and may get.
Pending(c) ==
  \/ consumer.pc \in {"store", "lock"}
  \/ consumer.pc = "push" /\ Owner[c] \in Ran(consumer.todo) /\ Clients[Owner[c]] = c
Reach(c) == IF Pending(c) THEN position[HashOfKey] - 1 ELSE position[HashOfKey]

\* All that a current connection has got comes from before the record at hand: after a
\* restart the old records are read again, but only for new connections.
FlowInv ==
  \A c \in Conns : Current(c) =>
    \A m \in Way(c) : \E i \in 1..Reach(c) : topic[HashOfKey][i] = m

LEMMA FlowInit == Init => FlowInv
BY DEF Init, FlowInv, Way, Ran

LEMMA FlowStep ==
  ASSUME TypeInv, MutexInv, MapInv, SentInv, HandedInv, EarlyInv, FlowInv, [Next]_vars
  PROVE  FlowInv'
<1>0. /\ topic \in [1..Partitions -> Seq(Msg)] /\ position \in [1..Partitions -> Nat]
      /\ HashOfKey \in 1..Partitions /\ consumer \in ConsumerOK
      /\ topic[HashOfKey] \in Seq(Msg) /\ Len(topic[HashOfKey]) \in Nat
      /\ position[HashOfKey] \in Nat /\ position[HashOfKey] <= Len(topic[HashOfKey])
  BY KafkaAssumption, LenProperties DEF TypeInv, TypeOK, ConsumerOK, Phase
<1>a. /\ writer \in [Conns -> WriterOK] /\ SendBack \in [Conns -> Seq(Msg)]
      /\ written \in [Conns -> Seq(Msg)] /\ Clients \in [Users -> Conns \cup {None}]
      /\ reader \in [Conns -> ReaderOK] /\ start \in Conns \cup {None}
      /\ Owner \in [Conns -> Users] /\ None \notin Conns
  BY KafkaAssumption DEF TypeInv, TypeOK, WriterOK, ReaderOK
<1>1. ASSUME NEW c \in Conns,
             Current(c)' => Current(c) /\ Way(c)' \subseteq Way(c),
             \A i \in 1..Reach(c) : i \in 1..Reach(c)' /\ topic'[HashOfKey][i] = topic[HashOfKey][i]
      PROVE  Current(c)' => \A m \in Way(c)' : \E i \in 1..Reach(c)' : topic'[HashOfKey][i] = m
  BY <1>1 DEF FlowInv
<1>2. ASSUME NEW c \in Conns, UNCHANGED <<topic, position>>, Pending(c)' => Pending(c)
      PROVE  \A i \in 1..Reach(c) : i \in 1..Reach(c)' /\ topic'[HashOfKey][i] = topic[HashOfKey][i]
  BY <1>0, <1>2 DEF Reach
<1>3. ASSUME UNCHANGED <<topic, position, consumer>>, UNCHANGED Clients \/ consumer.pc # "push",
             \A c \in Conns : Current(c)' => Current(c) /\ Way(c)' \subseteq Way(c)
      PROVE  FlowInv'
  <2>1. \A c \in Conns : Pending(c)' => Pending(c)
    BY <1>3 DEF Pending
  <2>2. QED BY <1>1, <1>2, <1>3, <2>1 DEF FlowInv
<1>4. CASE AddClient
  <2>1. /\ consumer.pc # "push" /\ UNCHANGED <<topic, position, consumer, reader, writer, SendBack, written>>
        /\ start \in Conns /\ start' = None /\ Clients' = [Clients EXCEPT ![Owner[start]] = start]
    BY <1>a, <1>4, FreeIsNotConsumer DEF AddClient, brokerVars, connVars, history, MutexInv
  <2>2. \A c \in Conns : Current(c)' => Current(c) /\ Way(c)' \subseteq Way(c)
    BY <1>a, <2>1 DEF Current, Way
  <2>3. QED BY <1>3, <2>1, <2>2
<1>5. ASSUME NEW c \in Conns, SendClientToLogin(c) PROVE FlowInv'
  <2>1. /\ reader[c].pc = "login" /\ start' = c /\ \A d \in Conns \ {c} : reader'[d] = reader[d]
        /\ UNCHANGED <<topic, position, consumer, Clients, written, SendBack>>
        /\ writer[c].pc = "off" /\ writer' = [writer EXCEPT ![c].pc = "range"] /\ start = None
    BY <1>a, <1>5 DEF SendClientToLogin, SetReader, brokerVars, history, TypeInv, HandInv, Early
  <2>2. \A d \in Conns : Way(d)' \subseteq Way(d)
    BY <1>a, <2>1 DEF Way, WriterOK
  <2>3. \A d \in Conns : Current(d)' => Current(d)
    BY <1>a, <2>1 DEF Current, Early
  <2>4. QED BY <1>3, <2>1, <2>2, <2>3
<1>6. ASSUME NEW c \in Conns,
             Connect(c) \/ LockLogin(c) \/ ReadFrame(c) \/ ReadFails(c) \/ Disconnect(c)
      PROVE  FlowInv'
  <2>1. \A d \in Conns : reader'[d].pc \in Early => reader[d].pc \in Early
    BY <1>a, <1>6 DEF Connect, LockLogin, ReadFrame, ReadFails, Disconnect, SetReader, ReaderOK, Early
  <2>2. UNCHANGED <<topic, position, consumer, Clients, start, writer, written, SendBack>>
    BY <1>6 DEF Connect, LockLogin, ReadFrame, ReadFails, Disconnect, brokerVars, history
  <2>3. \A d \in Conns : Current(d)' => Current(d) /\ Way(d)' \subseteq Way(d)
    BY <2>1, <2>2 DEF Current, Way
  <2>4. QED BY <1>3, <2>2, <2>3
<1>7. ASSUME NEW c \in Conns, Publish(c) PROVE FlowInv'
  <2>1. \A d \in Conns : reader'[d].pc \in Early => reader[d].pc \in Early
    BY <1>a, <1>7 DEF Publish, ReaderOK, Early
  <2>2. UNCHANGED <<position, consumer, Clients, start, writer, written, SendBack>>
    BY <1>7 DEF Publish, history
  <2>3. reader[c].frame \in Msg
    BY <1>7 DEF Publish, TypeInv, HandInv
  <2>4. \/ topic'[HashOfKey] = Append(topic[HashOfKey], reader[c].frame)
        \/ topic'[HashOfKey] = topic[HashOfKey]
    BY <1>0, <1>7 DEF Publish, PartitionOf
  <2>5. \A i \in 1..position[HashOfKey] : topic'[HashOfKey][i] = topic[HashOfKey][i]
    <3>1. \A i \in 1..position[HashOfKey] : i \in 1..Len(topic[HashOfKey])
      BY <1>0
    <3>2. \A i \in 1..Len(topic[HashOfKey]) :
            Append(topic[HashOfKey], reader[c].frame)[i] = topic[HashOfKey][i]
      BY <1>0, <2>3, AppendProperties
    <3>3. QED BY <2>4, <3>1, <3>2
  <2>6. ASSUME NEW d \in Conns
        PROVE  \A i \in 1..Reach(d) : i \in 1..Reach(d)' /\ topic'[HashOfKey][i] = topic[HashOfKey][i]
    <3>1. Reach(d)' = Reach(d)
      BY <2>2 DEF Reach, Pending
    <3>2. \A i \in 1..Reach(d) : i \in 1..position[HashOfKey]
      BY <1>0 DEF Reach
    <3>3. QED BY <2>5, <3>1, <3>2
  <2>7. \A d \in Conns : Current(d)' => Current(d) /\ Way(d)' \subseteq Way(d)
    BY <2>1, <2>2 DEF Current, Way
  <2>8. QED BY <1>1, <2>6, <2>7 DEF FlowInv
<1>8. ASSUME NEW c \in Conns, TakeBack(c) PROVE FlowInv'
  <2>1. /\ writer[c].pc = "range" /\ SendBack[c] # <<>> /\ SendBack[c] \in Seq(Msg)
        /\ writer'[c].pc = "write" /\ writer'[c].hand = Head(SendBack[c])
        /\ \A d \in Conns \ {c} : writer'[d] = writer[d]
        /\ SendBack'[c] = Tail(SendBack[c]) /\ \A d \in Conns \ {c} : SendBack'[d] = SendBack[d]
        /\ UNCHANGED <<topic, position, consumer, Clients, start, reader, written>>
    BY <1>a, <1>8 DEF TakeBack, brokerVars, history
  <2>2. Ran(SendBack[c]) = {Head(SendBack[c])} \cup Ran(Tail(SendBack[c]))
    BY <2>1, RanTail
  <2>3. ASSUME NEW d \in Conns PROVE Way(d)' \subseteq Way(d)
    <3>1. CASE d = c
      BY <2>1, <2>2, <3>1 DEF Way
    <3>2. CASE d # c
      BY <2>1, <3>2 DEF Way
    <3>3. QED BY <3>1, <3>2
  <2>4. \A d \in Conns : Current(d)' => Current(d)
    BY <2>1 DEF Current
  <2>5. QED BY <1>3, <2>1, <2>3, <2>4
<1>9. ASSUME NEW c \in Conns, WriteBack(c) PROVE FlowInv'
  <2>1. /\ writer[c].pc = "write" /\ writer[c].hand \in Msg
        /\ UNCHANGED <<topic, position, consumer, Clients, start, reader, SendBack>>
        /\ \A d \in Conns \ {c} : writer'[d] = writer[d] /\ written'[d] = written[d]
    BY <1>a, <1>9 DEF WriteBack, brokerVars, TypeInv, HandInv
  <2>2. /\ writer'[c].pc # "write"
        /\ written'[c] = Append(written[c], writer[c].hand) \/ written'[c] = written[c]
    BY <1>a, <1>9 DEF WriteBack, WriterOK
  <2>3. Ran(Append(written[c], writer[c].hand)) = Ran(written[c]) \cup {writer[c].hand}
    BY <1>a, <2>1, RanAppend
  <2>4. ASSUME NEW d \in Conns PROVE Way(d)' \subseteq Way(d)
    <3>1. CASE d = c
      BY <2>1, <2>2, <2>3, <3>1 DEF Way
    <3>2. CASE d # c
      BY <2>1, <3>2 DEF Way
    <3>3. QED BY <3>1, <3>2
  <2>5. \A d \in Conns : Current(d)' => Current(d)
    BY <2>1 DEF Current
  <2>6. QED BY <1>3, <2>1, <2>4, <2>5
<1>10. ASSUME UNCHANGED <<Clients, start, reader, writer, written, SendBack>>
       PROVE  \A c \in Conns : (Current(c)' => Current(c)) /\ Way(c)' \subseteq Way(c)
  BY <1>10 DEF Current, Way
<1>11. ASSUME NEW p \in 1..Partitions, ReadMessage(p) PROVE FlowInv'
  <2>1. p = HashOfKey
    <3>1. topic[p] # <<>>
      BY <1>0, <1>11 DEF ReadMessage
    <3>2. QED BY <3>1 DEF SentInv
  <2>2. /\ consumer.pc = "read" /\ consumer'.pc = "store" /\ UNCHANGED topic
        /\ position'[HashOfKey] = position[HashOfKey] + 1
        /\ UNCHANGED <<Clients, start, reader, writer, written, SendBack>>
    BY <1>0, <1>11, <2>1 DEF ReadMessage, Idle, connVars, history
  <2>3. \A c \in Conns : Reach(c) = position[HashOfKey] /\ Reach(c)' = position[HashOfKey]
    BY <1>0, <2>2 DEF Reach, Pending
  <2>4. QED BY <1>1, <1>10, <2>2, <2>3 DEF FlowInv
<1>12. CASE ReadError \/ Store
  <2>1. /\ UNCHANGED <<topic, position, Clients, start, reader, writer, written, SendBack>>
        /\ \/ consumer'.pc \in {"read", "dead"}
           \/ consumer.pc = "store" /\ consumer'.pc = "lock"
    <3>1. CASE ReadError
      BY <3>1 DEF ReadError, Idle, brokerVars, connVars, history
    <3>2. CASE Store
      <4>1. \/ consumer' = Idle
            \/ consumer' = [consumer EXCEPT !.pc = "lock", !.todo = Targets(consumer.item)]
        BY <3>2 DEF Store
      <4>2. consumer'.pc \in {"read", "lock"}
        <5>1. CASE consumer' = Idle
          BY <5>1 DEF Idle
        <5>2. CASE consumer' = [consumer EXCEPT !.pc = "lock", !.todo = Targets(consumer.item)]
          BY <1>0, <5>2 DEF ConsumerOK
        <5>3. QED BY <4>1, <5>1, <5>2
      <4>3. QED BY <3>2, <4>2 DEF Store, brokerVars, connVars
    <3>3. QED BY <1>12, <3>1, <3>2
  <2>2. \A c \in Conns : Pending(c)' => Pending(c)
    BY <2>1 DEF Pending
  <2>3. QED BY <1>1, <1>2, <1>10, <2>1, <2>2 DEF FlowInv
<1>13. CASE LockPush
  <2>1. /\ UNCHANGED <<topic, position, Clients, start, reader, writer, written, SendBack>>
        /\ consumer.pc = "lock"
    BY <1>13 DEF LockPush, brokerVars, connVars
  <2>2. \A c \in Conns : Pending(c)' => Pending(c)
    BY <2>1 DEF Pending
  <2>3. QED BY <1>1, <1>2, <1>10, <2>1, <2>2 DEF FlowInv
<1>14. CASE Push
  <2>1. /\ consumer.pc = "push" /\ consumer.todo # <<>> /\ consumer.todo \in Seq(Users)
        /\ consumer.item \in Msg /\ NoDup(consumer.todo)
        /\ UNCHANGED <<topic, position, Clients, start, reader, writer, written>>
        /\ position[HashOfKey] > 0 /\ consumer.item = topic[HashOfKey][position[HashOfKey]]
    BY <1>0, <1>14 DEF Push, brokerVars, history, TypeInv, HandInv, ConsumerOK, HandedInv
  <2>2. /\ Ran(consumer.todo) = {Head(consumer.todo)} \cup Ran(Tail(consumer.todo))
        /\ Head(consumer.todo) \notin Ran(Tail(consumer.todo)) /\ Head(consumer.todo) \in Users
    BY <2>1, RanTail, NoDupTail, LongTail
  <2>3. \A c \in Conns : Current(c)' => Current(c)
    BY <2>1 DEF Current
  <2>4. \/ consumer'.pc \in {"read", "dead"}
        \/ consumer'.pc = "push" /\ consumer'.todo = Tail(consumer.todo)
    <3>1. CASE Rest
      BY <1>0, <2>1, <3>1, RestTypes DEF ConsumerOK
    <3>2. CASE consumer' = [consumer EXCEPT !.pc = "dead"]
      BY <1>0, <3>2 DEF ConsumerOK
    <3>3. QED BY <1>14, <3>1, <3>2 DEF Push
  <2>5. \A c \in Conns : /\ Pending(c)' => Pending(c)
                         /\ Owner[c] = Head(consumer.todo) => ~ Pending(c)'
    BY <2>1, <2>2, <2>4 DEF Pending
  <2> DEFINE k == Clients[Head(consumer.todo)]
  <2>6. \/ UNCHANGED SendBack
        \/ k # None /\ SendBack' = [SendBack EXCEPT ![k] = Append(@, consumer.item)]
    BY <1>14 DEF Push
  <2>7. k # None => k \in Conns /\ Owner[k] = Head(consumer.todo)
    BY <2>2 DEF MapInv
  <2>8. ASSUME NEW c \in Conns, Current(c)', NEW m \in Way(c)'
        PROVE  \E i \in 1..Reach(c)' : topic'[HashOfKey][i] = m
    <3>1. CASE m \in Way(c)
      BY <1>1, <1>2, <2>1, <2>3, <2>5, <2>8, <3>1 DEF FlowInv
    <3>2. CASE m \notin Way(c)
      <4>1. SendBack'[c] # SendBack[c]
        BY <2>1, <2>8, <3>2 DEF Way
      <4>2. c = k /\ k # None /\ SendBack'[c] = Append(SendBack[c], consumer.item)
        <5> HIDE DEF k
        <5>1. QED BY <1>a, <2>6, <4>1
      <4>3. Ran(SendBack'[c]) = Ran(SendBack[c]) \cup {consumer.item}
        <5> HIDE DEF k
        <5>1. SendBack[c] \in Seq(Msg) /\ consumer.item \in Msg
          BY <1>a, <2>1
        <5>2. QED BY <4>2, <5>1, RanAppend
      <4>4. m = consumer.item
        BY <2>1, <2>8, <3>2, <4>3 DEF Way
      <4>5. Reach(c)' = position[HashOfKey]
        BY <2>1, <2>5, <2>7, <4>2 DEF Reach
      <4>6. position[HashOfKey] \in 1..Reach(c)'
        BY <1>0, <2>1, <4>5
      <4>7. QED BY <2>1, <4>4, <4>6
    <3>3. QED BY <3>1, <3>2
  <2>9. QED BY <2>8 DEF FlowInv
<1>15. CASE Crash
  <2>1. /\ \A c \in Conns : reader'[c].pc \in Early => reader[c].pc \in Early
        /\ \A c \in Conns : reader[c].pc \in Early => reader'[c].pc \notin Early \/ writer'[c] = writer[c]
        /\ \A u \in Users : Clients'[u] = None
        /\ \A c \in Conns : SendBack'[c] = <<>>
        /\ start' = None /\ UNCHANGED written
    BY <1>a, <1>15 DEF Crash, Early
  <2>2. ASSUME NEW c \in Conns, Current(c)' PROVE Way(c)' = {}
    <3>1. reader'[c].pc \in Early
      BY <1>a, <2>1, <2>2 DEF Current
    <3>2. written'[c] = <<>> /\ writer'[c].pc = "off"
      BY <2>1, <3>1 DEF EarlyInv, TypeInv, HandInv
    <3>3. QED BY <2>1, <3>2 DEF Way, Ran
  <2>3. QED BY <2>2 DEF FlowInv
<1>16. ASSUME NEW p \in 1..Partitions, Commit(p) PROVE FlowInv'
  <2>1. UNCHANGED <<topic, position, consumer, Clients, start, reader, writer, written, SendBack>>
    BY <1>16 DEF Commit, connVars, history
  <2>2. QED BY <1>3, <1>10, <2>1
<1>17. CASE UNCHANGED vars
  BY <1>3, <1>10, <1>17 DEF vars, brokerVars, connVars, history
<1>18. QED
  BY <1>4, <1>5, <1>6, <1>7, <1>8, <1>9, <1>11, <1>12, <1>13, <1>14, <1>15, <1>16, <1>17
     DEF Next, ConnStep, WriterStep, ConsumerStep

\* What has been written is below what is in hand, and that below what is queued.
Ordered(c) ==
  /\ Sorted(written[c]) /\ Sorted(SendBack[c]) /\ Below(Ran(written[c]), Ran(SendBack[c]))
  /\ writer[c].pc = "write" => /\ Below(Ran(written[c]), {writer[c].hand})
                               /\ Below({writer[c].hand}, Ran(SendBack[c]))

OrderInv == \A c \in Conns : Ordered(c)

LEMMA OrderInit == Init => OrderInv
BY DEF Init, OrderInv, Ordered, Sorted, Below, Ran

LEMMA OrderStep ==
  ASSUME TypeInv, MapInv, SentInv, HandedInv, FlowInv, OrderInv, [Next]_vars
  PROVE  OrderInv'
<1>0. /\ writer \in [Conns -> WriterOK] /\ SendBack \in [Conns -> Seq(Msg)]
      /\ written \in [Conns -> Seq(Msg)] /\ Clients \in [Users -> Conns \cup {None}]
      /\ reader \in [Conns -> ReaderOK] /\ consumer \in ConsumerOK
  BY DEF TypeInv, TypeOK, WriterOK, ReaderOK, ConsumerOK, Phase
<1>1. ASSUME UNCHANGED <<written, SendBack>>,
             \A c \in Conns : writer'[c] = writer[c] \/ writer'[c].pc # "write"
      PROVE  OrderInv'
  BY <1>1 DEF OrderInv, Ordered
<1>2. ASSUME NEW c \in Conns, SendClientToLogin(c) PROVE OrderInv'
  <2>1. writer' = [writer EXCEPT ![c].pc = "range"] /\ UNCHANGED <<written, SendBack>>
    BY <1>2 DEF SendClientToLogin, history
  <2>2. \A d \in Conns : writer'[d] = writer[d] \/ writer'[d].pc # "write"
    BY <1>0, <2>1
  <2>3. QED BY <1>1, <2>1, <2>2
<1>3. ASSUME NEW c \in Conns, TakeBack(c) PROVE OrderInv'
  <2>1. /\ SendBack[c] # <<>> /\ SendBack[c] \in Seq(Msg)
        /\ writer'[c].hand = Head(SendBack[c])
        /\ \A d \in Conns \ {c} : writer'[d] = writer[d]
        /\ SendBack'[c] = Tail(SendBack[c]) /\ \A d \in Conns \ {c} : SendBack'[d] = SendBack[d]
        /\ UNCHANGED written
    BY <1>0, <1>3 DEF TakeBack, history
  <2>2. Ran(SendBack[c]) = {Head(SendBack[c])} \cup Ran(Tail(SendBack[c])) /\ Ordered(c)
    BY <2>1, RanTail DEF OrderInv
  <2>3. Sorted(Tail(SendBack[c])) /\ Below({Head(SendBack[c])}, Ran(Tail(SendBack[c])))
    BY <2>1, <2>2, SortedTail DEF Ordered
  <2>4. Below(Ran(written[c]), {Head(SendBack[c])}) /\ Below(Ran(written[c]), Ran(Tail(SendBack[c])))
    BY <2>2 DEF Ordered, Below
  <2>5. Ordered(c)'
    BY <2>1, <2>2, <2>3, <2>4 DEF Ordered
  <2>6. \A d \in Conns \ {c} : Ordered(d)'
    BY <2>1 DEF OrderInv, Ordered
  <2>7. QED BY <2>5, <2>6 DEF OrderInv
<1>4. ASSUME NEW c \in Conns, WriteBack(c) PROVE OrderInv'
  <2>1. /\ writer[c].pc = "write" /\ writer[c].hand \in Msg /\ written[c] \in Seq(Msg)
        /\ \A d \in Conns \ {c} : writer'[d] = writer[d] /\ written'[d] = written[d]
        /\ UNCHANGED SendBack /\ Ordered(c)
    BY <1>0, <1>4 DEF WriteBack, TypeInv, HandInv, OrderInv
  <2>2. /\ writer'[c].pc # "write"
        /\ written'[c] = Append(written[c], writer[c].hand) \/ written'[c] = written[c]
    BY <1>0, <1>4 DEF WriteBack, WriterOK
  <2>3. /\ Ran(Append(written[c], writer[c].hand)) = Ran(written[c]) \cup {writer[c].hand}
        /\ Sorted(Append(written[c], writer[c].hand))
    BY <2>1, RanAppend, SortedAppend DEF Ordered
  <2>4. Below(Ran(Append(written[c], writer[c].hand)), Ran(SendBack[c]))
    BY <2>1, <2>3 DEF Ordered, Below
  <2>5. Ordered(c)'
    BY <2>1, <2>2, <2>3, <2>4 DEF Ordered
  <2>6. \A d \in Conns \ {c} : Ordered(d)'
    BY <2>1 DEF OrderInv, Ordered
  <2>7. QED BY <2>5, <2>6 DEF OrderInv
<1>5. CASE Push
  <2>1. /\ consumer.pc = "push" /\ consumer.todo # <<>> /\ consumer.todo \in Seq(Users)
        /\ consumer.item \in Msg /\ UNCHANGED <<writer, written>>
        /\ position[HashOfKey] > 0 /\ consumer.item = topic[HashOfKey][position[HashOfKey]]
    BY <1>0, <1>5 DEF Push, history, TypeInv, HandInv, ConsumerOK, HandedInv
  <2>2. \/ UNCHANGED SendBack
        \/ /\ Clients[Head(consumer.todo)] # None
           /\ SendBack' = [SendBack EXCEPT ![Clients[Head(consumer.todo)]] = Append(@, consumer.item)]
    BY <1>5 DEF Push
  <2>3. CASE UNCHANGED SendBack
    BY <1>1, <2>1, <2>3
  <2>4. CASE ~ UNCHANGED SendBack
    <3>1. /\ Head(consumer.todo) \in Users /\ Head(consumer.todo) \in Ran(consumer.todo)
      BY <2>1, LongTail, RanTail
    <3>2. PICK k \in Conns : /\ k = Clients[Head(consumer.todo)] /\ Owner[k] = Head(consumer.todo)
                             /\ SendBack' = [SendBack EXCEPT ![k] = Append(@, consumer.item)]
      BY <2>2, <2>4, <3>1 DEF MapInv
    <3>3. Current(k) /\ Reach(k) = position[HashOfKey] - 1
      BY <2>1, <3>1, <3>2 DEF Current, Reach, Pending
    <3>4. \A m \in Way(k) : \E i \in 1..position[HashOfKey] - 1 : topic[HashOfKey][i] = m
      BY <3>2, <3>3 DEF FlowInv
    <3>5. /\ position[HashOfKey] \in 1..Len(topic[HashOfKey])
          /\ \A i \in 1..position[HashOfKey] - 1 : i \in 1..Len(topic[HashOfKey]) /\ i < position[HashOfKey]
      <4>1. HashOfKey \in 1..Partitions
        BY KafkaAssumption
      <4>2. /\ Len(topic[HashOfKey]) \in Nat /\ position[HashOfKey] \in Nat
            /\ position[HashOfKey] <= Len(topic[HashOfKey])
        BY <4>1, LenProperties DEF TypeInv, TypeOK
      <4>3. QED BY <2>1, <4>2
    <3>6. Below(Way(k), {consumer.item})
      <4> SUFFICES ASSUME NEW m \in Way(k), m.conn = consumer.item.conn PROVE m.n < consumer.item.n
        BY DEF Below
      <4>1. PICK i \in 1..position[HashOfKey] - 1 : topic[HashOfKey][i] = m
        BY <3>4
      <4>2. i \in 1..Len(topic[HashOfKey]) /\ i < position[HashOfKey]
        BY <3>5
      <4>3. QED BY <2>1, <3>5, <4>1, <4>2 DEF SentInv, Sorted
    <3>7. /\ SendBack'[k] = Append(SendBack[k], consumer.item) /\ SendBack[k] \in Seq(Msg)
          /\ \A d \in Conns \ {k} : SendBack'[d] = SendBack[d]
      BY <1>0, <3>2
    <3>8. /\ Below(Ran(written[k]), {consumer.item}) /\ Below(Ran(SendBack[k]), {consumer.item})
          /\ writer[k].pc = "write" => Below({writer[k].hand}, {consumer.item})
      BY <3>6 DEF Way, Below
    <3>9. /\ Ran(SendBack'[k]) = Ran(SendBack[k]) \cup {consumer.item}
          /\ Ordered(k)
      <4>1. Ran(SendBack'[k]) = Ran(SendBack[k]) \cup {consumer.item}
        BY <2>1, <3>7, RanAppend
      <4>2. QED BY <3>2, <4>1 DEF OrderInv
    <3>10. Sorted(SendBack'[k])
      BY <2>1, <3>7, <3>8, <3>9, SortedAppend DEF Ordered
    <3>11. Ordered(k)'
      <4>1. Below(Ran(written[k]), Ran(SendBack'[k]))
        BY <3>8, <3>9 DEF Ordered, Below
      <4>2. writer[k].pc = "write" => Below({writer[k].hand}, Ran(SendBack'[k]))
        BY <3>8, <3>9 DEF Ordered, Below
      <4>3. QED BY <2>1, <3>9, <3>10, <4>1, <4>2 DEF Ordered
    <3>12. \A d \in Conns \ {k} : Ordered(d)'
      BY <2>1, <3>7 DEF OrderInv, Ordered
    <3>13. QED BY <3>11, <3>12 DEF OrderInv
  <2>5. QED BY <2>3, <2>4
<1>6. CASE Crash
  <2>1. /\ UNCHANGED written /\ \A c \in Conns : SendBack'[c] = <<>>
        /\ \A c \in Conns : writer'[c].pc = "done" \/ (reader[c].pc = "new" /\ writer'[c] = writer[c])
    BY <1>6 DEF Crash
  <2>2. ASSUME NEW c \in Conns PROVE writer'[c].pc # "write"
    BY <2>1 DEF TypeInv, HandInv, Early
  <2>3. Sorted(<<>>) /\ \A A : Below(A, Ran(<<>>))
    BY DEF Sorted, Below, Ran
  <2>4. QED BY <2>1, <2>2, <2>3 DEF OrderInv, Ordered
<1>7. CASE UNCHANGED <<written, SendBack, writer>>
  BY <1>1, <1>7
<1>8. QED
  BY <1>2, <1>3, <1>4, <1>5, <1>6, <1>7
     DEF Next, ConnStep, WriterStep, ConsumerStep, vars, connVars, history, AddClient, Disconnect,
         Connect, LockLogin, ReadFrame, ReadFails, Publish, ReadMessage, Commit, ReadError, Store, LockPush

LEMMA OutgoingSorted ==
  ASSUME TypeInv, NEW c \in Conns, Ordered(c)
  PROVE  Sorted(Outgoing(c))
<1>1. written[c] \in Seq(Msg) /\ SendBack[c] \in Seq(Msg)
  BY DEF TypeInv, TypeOK
<1>2. CASE writer[c].pc = "write"
  <2>1. writer[c].hand \in Msg
    BY <1>2 DEF TypeInv, HandInv
  <2> DEFINE one  == <<writer[c].hand>>
             sent == written[c] \o one
  <2>2. one \in Seq(Msg) /\ Ran(one) = {writer[c].hand} /\ Sorted(one)
    BY <2>1 DEF Ran, Sorted
  <2>3. Below(Ran(written[c]), Ran(one)) /\ Below(Ran(one), Ran(SendBack[c]))
    BY <1>2, <2>2 DEF Ordered
  <2> HIDE DEF one
  <2>4. sent \in Seq(Msg) /\ Sorted(sent) /\ Ran(sent) = Ran(written[c]) \cup Ran(one)
    <3>1. Sorted(written[c])
      BY DEF Ordered
    <3>2. sent \in Seq(Msg)
      BY <1>1, <2>2, ConcatProperties
    <3>3. Sorted(sent)
      BY <1>1, <2>2, <2>3, <3>1, SortedConcat
    <3>4. Ran(sent) = Ran(written[c]) \cup Ran(one)
      BY <1>1, <2>2, RanConcat
    <3>5. QED BY <3>2, <3>3, <3>4
  <2>5. Below(Ran(sent), Ran(SendBack[c]))
    BY <2>3, <2>4 DEF Ordered, Below
  <2> HIDE DEF sent
  <2>6. Sorted(sent \o SendBack[c])
    BY <1>1, <2>4, <2>5, SortedConcat DEF Ordered
  <2>7. QED BY <1>2, <2>6 DEF Outgoing, sent, one
<1>3. CASE writer[c].pc # "write"
  <2>1. written[c] \o <<>> = written[c]
    BY <1>1, ConcatEmptySeq
  <2>2. Sorted(written[c] \o SendBack[c])
    BY <1>1, SortedConcat DEF Ordered
  <2>3. QED BY <1>3, <2>1, <2>2 DEF Outgoing
<1>4. QED BY <1>2, <1>3

\* Where nobody writes to himself and no member list names a user twice: what one
\* connection sends to another arrives in the order it was sent, each frame once,
\* whatever the broker, the consumer, the writers, failures and restarts do.
THEOREM OrderIsKept ==
  ASSUME DistinctTargets
  PROVE  Spec => []DeliveredInSendOrder
<1>1. Spec => []TypeInv
  BY InitTypes, TypeStep, PTL DEF Spec
<1>2. TypeInv /\ MutexInv /\ [Next]_vars => MutexInv'
  BY MutexStep
<1>3. TypeInv /\ MapInv /\ [Next]_vars => MapInv'
  BY MapStep
<1>4. TypeInv /\ SentInv /\ [Next]_vars => SentInv'
  BY SentStep
<1>5. TypeInv /\ SentInv /\ HandedInv /\ [Next]_vars => HandedInv'
  BY HandedStep
<1>6. TypeInv /\ EarlyInv /\ [Next]_vars => EarlyInv'
  BY EarlyStep
<1>7. TypeInv /\ MutexInv /\ MapInv /\ SentInv /\ HandedInv /\ EarlyInv /\ FlowInv /\ [Next]_vars
        => FlowInv'
  BY FlowStep
<1>8. TypeInv /\ MapInv /\ SentInv /\ HandedInv /\ FlowInv /\ OrderInv /\ [Next]_vars => OrderInv'
  BY OrderStep
<1>9. Spec => [](TypeInv /\ OrderInv)
  BY <1>1, <1>2, <1>3, <1>4, <1>5, <1>6, <1>7, <1>8, MutexInit, MapInit, SentInit, HandedInit,
     EarlyInit, FlowInit, OrderInit, PTL DEF Spec
<1>10. TypeInv /\ OrderInv => DeliveredInSendOrder
  <2> SUFFICES ASSUME TypeInv, OrderInv, NEW c \in Conns PROVE Sorted(Outgoing(c))
    BY DEF DeliveredInSendOrder, Sorted
  <2>1. QED BY OutgoingSorted DEF OrderInv
<1>11. QED BY <1>9, <1>10, PTL
=============================================================================
