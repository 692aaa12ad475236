------------------------- MODULE MembershipRowProofs -------------------------
(***************************************************************************)
(* What Membership promises of the rows, proved on the groundwork of       *)
(* MembershipProofs: what can happen to a row in a step (RowEvent), and    *)
(* from it, topic by topic, the properties of contacts, applications and   *)
(* sessions.                                                               *)
(***************************************************************************)
EXTENDS MembershipProofs

(* What can happen to a row in a step. *)
SameRow(t, i) == i \in 1..Len(rows[t]) /\ rows'[t][i] = rows[t][i]

HiddenRow(t, i) ==
  /\ i \in 1..Len(rows[t]) /\ ~rows'[t][i].live
  /\ t # "contact" => rows'[t][i].status = rows[t][i].status

NewRow(s, t, i) ==
  LET c == CallOf(s)
  IN  /\ c.do = "Insert" /\ c.table = t /\ i = Len(rows[t]) + 1
      /\ rows'[t][i] = [user |-> c.user, to |-> c.to, status |-> c.status, live |-> TRUE]

\* The row that the handler s holds is written back.
InHand(s, t, i) ==
  /\ run[s].held # <<>> /\ run[s].held[1].table = t /\ run[s].held[1].id = i /\ i \in 1..Len(rows[t])
  /\ Copies(run[s].req, run[s].held[1], rows)

SavedRow(s, t, i) ==
  /\ CallOf(s).do = "Save" /\ CallOf(s).table = t /\ InHand(s, t, i)
  /\ rows'[t][i] = Put(run[s].held[1].row, CallOf(s).status, TRUE)

CopiedRow(s, t, i) ==
  /\ CallOf(s).do = "EachFound" /\ CallOf(s).how = "save" /\ t = "session" /\ run[s].req.op = "UpdateGroupInfo"
  /\ InHand(s, t, i)
  /\ rows'[t][i] = run[s].held[1].row

BlackRow(s, t, i) ==
  /\ CallOf(s).do = "Update" /\ run[s].req.op = "BlackContact" /\ t = "contact" /\ CallOf(s).table = t
  /\ i \in Matching(CallOf(s)) /\ i \in 1..Len(rows[t])
  /\ rows'[t][i] = Put(rows[t][i], CallOf(s).status, TRUE)

RowEvent(s, t, i) ==
  SameRow(t, i) \/ HiddenRow(t, i) \/ NewRow(s, t, i) \/ SavedRow(s, t, i) \/ CopiedRow(s, t, i) \/ BlackRow(s, t, i)

LEMMA InsertEvents ==
  ASSUME Typed, NEW s \in Slots, InsertRow(s), NEW t \in Tables, NEW i \in 1..Len(rows'[t])
  PROVE  SameRow(t, i) \/ NewRow(s, t, i)
<1> DEFINE c == CallOf(s)
           row == [user |-> c.user, to |-> c.to, status |-> c.status, live |-> TRUE]
<1>0. run[s] # Idle /\ c.do = "Insert" /\ rows' = [rows EXCEPT ![c.table] = Append(@, row)]
  BY DEF InsertRow, At
<1>1. Fits(run[s].req, c)  BY <1>0, Here
<1>2. c.table \in Tables /\ c.user \in Users /\ c.to \in Ids /\ c.status \in RowSts
  BY <1>0, <1>1 DEF Fits, RowCall, RowTopic
<1>3. row \in Row  BY <1>2 DEF Row
<1>4. NewRow(s, t, i) <=> c.table = t /\ i = Len(rows[t]) + 1 /\ rows'[t][i] = row  BY <1>0 DEF NewRow
<1> HIDE DEF row, c
<1>5. rows[t] \in Seq(Row) /\ Len(rows[t]) \in Nat /\ rows \in [Tables -> Seq(Row)]  BY DEF Typed
<1>6. CASE c.table = t
  <2> DEFINE q == Append(rows[t], row)
  <2>1. rows'[t] = q  BY <1>0, <1>2, <1>5, <1>6
  <2>2. Len(q) = Len(rows[t]) + 1 /\ \A n \in 1..Len(rows[t]) + 1 : q[n] = IF n <= Len(rows[t]) THEN rows[t][n] ELSE row
    BY <1>3, <1>5, AppendProperty
  <2> HIDE DEF q
  <2>3. i \in 1..Len(rows[t]) + 1  BY <2>1, <2>2
  <2>4. CASE i <= Len(rows[t])  BY <1>5, <2>1, <2>2, <2>3, <2>4 DEF SameRow
  <2>5. CASE ~(i <= Len(rows[t]))
    <3>1. i = Len(rows[t]) + 1  BY <1>5, <2>3, <2>5
    <3>2. rows'[t][i] = row  BY <2>1, <2>2, <2>3, <2>5
    <3> QED  BY <1>4, <1>6, <3>1, <3>2
  <2> QED  BY <2>4, <2>5
<1>7. CASE c.table # t
  <2>1. rows'[t] = rows[t]  BY <1>0, <1>2, <1>5, <1>7
  <2> QED  BY <2>1 DEF SameRow
<1> QED  BY <1>6, <1>7

LEMMA HandAt ==
  ASSUME Typed, NEW s \in Slots, Step(s), CallOf(s).do \in {"Save", "EachFound"}, run[s].held # <<>>
  PROVE  LET e == run[s].held[1]
         IN  /\ Head(run[s].held) = e /\ e \in HeldRow /\ Copies(run[s].req, e, rows) /\ e.table = CallOf(s).table
             /\ CallOf(s).table \in Tables /\ e.id \in 1..Len(rows[e.table]) /\ InHand(s, e.table, e.id)
<1> DEFINE h == run[s]
           c == CallOf(s)
           e == h.held[1]
<1>1. /\ h.req \in Requests /\ OutlineAt(h.req, h.pc, h.held, h.group)
      /\ HeldIn(h.req, h.held, rows) /\ h.held \in Seq(HeldRow) /\ Fits(h.req, c) /\ c = CallsOf[h.req][h.pc]
  BY StepLeaves, Here
<1>2. Head(h.held) = e /\ e \in HeldRow /\ Copies(h.req, e, rows)  BY <1>1, TailHeld
<1>3. e.table = c.table
  <2>1. CASE c.do = "Save"
    <3>1. CallsOf[h.req][h.pc].do = "Save"  BY <1>1, <2>1
    <3>2. h.held[1].table = CallsOf[h.req][h.pc].table  BY <1>1, <3>1, SaveInHand
    <3> QED  BY <1>1, <3>2
  <2>2. CASE c.do = "EachFound"
    <3>1. CallsOf[h.req][h.pc].do = "EachFound"  BY <1>1, <2>2
    <3>2. h.held[1].table = CallsOf[h.req][h.pc].table  BY <1>1, <3>1, EachOutline
    <3> QED  BY <1>1, <3>2
  <2> QED  BY <2>1, <2>2
<1>4. c.table \in Tables  BY <1>1 DEF Fits, RowCall
<1> HIDE DEF c
<1>5. e.id \in 1..Len(rows[e.table])  BY <1>2 DEF Copies
<1>6. InHand(s, e.table, e.id)  BY <1>2, <1>5 DEF InHand
<1> QED  BY <1>2, <1>3, <1>4, <1>5, <1>6 DEF c

LEMMA WrittenRow ==
  ASSUME Typed, NEW t \in Tables, NEW n \in 1..Len(rows[t]), NEW new, rows' = [rows EXCEPT ![t][n] = new]
  PROVE  /\ rows'[t][n] = new
         /\ \A x \in Tables : Len(rows'[x]) = Len(rows[x])
         /\ \A x \in Tables : \A i \in 1..Len(rows'[x]) : SameRow(x, i) \/ (x = t /\ i = n)
<1>1. rows \in [Tables -> Seq(Row)] /\ rows[t] \in Seq(Row) /\ Len(rows[t]) \in Nat  BY DEF Typed
<1> DEFINE q == [rows[t] EXCEPT ![n] = new]
<1>2. rows' = [rows EXCEPT ![t] = q]  BY <1>1
<1>3. Len(q) = Len(rows[t]) /\ \A i \in 1..Len(rows[t]) : q[i] = IF i = n THEN new ELSE rows[t][i]
  BY <1>1
<1> HIDE DEF q
<1>4. \A x \in Tables : rows'[x] = (IF x = t THEN q ELSE rows[x])  BY <1>1, <1>2
<1> QED  BY <1>3, <1>4 DEF SameRow

LEMMA SaveEvents ==
  ASSUME Typed, NEW s \in Slots, Step(s), CallOf(s).do = "Save", NEW t \in Tables, NEW i \in 1..Len(rows'[t])
  PROVE  SameRow(t, i) \/ SavedRow(s, t, i)
<1> DEFINE h == run[s]
           c == CallOf(s)
           e == h.held[1]
           new == Put(e.row, c.status, TRUE)
<1>0. rows' = [rows EXCEPT ![c.table][Head(h.held).id] = Put(Head(h.held).row, c.status, TRUE)]
  BY ActionOf DEF SaveRow
<1>1. h.held # <<>>
  <2>1. /\ h.req \in Requests /\ OutlineAt(h.req, h.pc, h.held, h.group) /\ h.held \in Seq(HeldRow)
        /\ c = CallsOf[h.req][h.pc]
    BY StepLeaves, Here
  <2>2. Len(h.held) >= 1  BY <2>1, SaveInHand
  <2>3. Len(h.held) # 0  BY <2>1, <2>2
  <2> QED  BY <2>1, <2>3, EmptySeq, Zenon
<1>2. Head(h.held) = e /\ e.table = c.table /\ c.table \in Tables /\ e.id \in 1..Len(rows[e.table])
      /\ InHand(s, e.table, e.id)
  BY <1>1, HandAt
<1>3. rows' = [rows EXCEPT ![c.table][e.id] = new]  BY <1>0, <1>2
<1>4. SavedRow(s, c.table, e.id) <=> rows'[c.table][e.id] = new  BY <1>2 DEF SavedRow
<1> HIDE DEF new, e, c
<1>5. rows'[c.table][e.id] = new /\ (SameRow(t, i) \/ (t = c.table /\ i = e.id))  BY <1>2, <1>3, WrittenRow
<1> QED  BY <1>4, <1>5

LEMMA EachEvents ==
  ASSUME Typed, NEW s \in Slots, Step(s), CallOf(s).do = "EachFound", NEW t \in Tables, NEW i \in 1..Len(rows'[t])
  PROVE  SameRow(t, i) \/ HiddenRow(t, i) \/ CopiedRow(s, t, i)
<1> DEFINE h == run[s]
           c == CallOf(s)
           e == h.held[1]
           new == IF c.how = "save" THEN e.row ELSE [rows[c.table][e.id] EXCEPT !.live = FALSE]
<1>1. CASE h.held = <<>>
  <2>1. rows' = rows  BY <1>1, ActionOf DEF EachRow
  <2> QED  BY <2>1 DEF SameRow
<1>2. CASE h.held # <<>>
  <2>0. rows' = [rows EXCEPT ![c.table][Head(h.held).id] =
                      IF c.how = "save" THEN Head(h.held).row ELSE [@ EXCEPT !.live = FALSE]]
    BY <1>2, ActionOf DEF EachRow
  <2>1. Head(h.held) = e /\ e.table = c.table /\ c.table \in Tables /\ e.id \in 1..Len(rows[e.table])
      /\ InHand(s, e.table, e.id)
    BY <1>2, HandAt
  <2>2. rows' = [rows EXCEPT ![c.table][e.id] = new]
    <3>1. rows \in [Tables -> Seq(Row)]  BY DEF Typed
    <3> HIDE DEF e, c
    <3> QED  BY <2>0, <2>1, <3>1
  <2>3. c.how \in {"hide", "save"} /\ (c.how = "save" => h.req.op = "UpdateGroupInfo" /\ c.table = "session")
    BY StepLeaves, Here DEF Fits, RowCall
  <2>4. rows[c.table][e.id] \in Row  BY <2>1, TypedRow
  <2>5. c.how = "save" => (CopiedRow(s, c.table, e.id) <=> rows'[c.table][e.id] = new)
    BY <2>1, <2>3 DEF CopiedRow
  <2>6. c.how # "save" => ~new.live /\ new.status = rows[c.table][e.id].status
    BY <2>4 DEF Row
  <2> HIDE DEF new, e, c
  <2>7. rows'[c.table][e.id] = new /\ (SameRow(t, i) \/ (t = c.table /\ i = e.id))  BY <2>1, <2>2, WrittenRow
  <2>8. CASE t = c.table /\ i = e.id
    <3>1. CASE c.how = "save"  BY <2>5, <2>7, <2>8, <3>1
    <3>2. CASE c.how # "save"  BY <2>1, <2>6, <2>7, <2>8, <3>2 DEF HiddenRow
    <3> QED  BY <3>1, <3>2
  <2> QED  BY <2>7, <2>8
<1> QED  BY <1>1, <1>2

LEMMA UpdateEvents ==
  ASSUME Typed, NEW s \in Slots, Step(s), CallOf(s).do = "Update", NEW t \in Tables
  PROVE  LET c == CallOf(s)
         IN  /\ Len(rows'[t]) = Len(rows[t])
             /\ \A i \in 1..Len(rows'[t]) :
                  /\ t = c.table /\ i \in Matching(c) => rows'[t][i] = Put(rows[t][i], c.status, c.live)
                  /\ t # c.table \/ i \notin Matching(c) => SameRow(t, i)
                  /\ SameRow(t, i) \/ HiddenRow(t, i) \/ BlackRow(s, t, i)
<1> DEFINE c == CallOf(s)
           old == rows[c.table]
           q == [i \in DOMAIN old |-> IF i \in Matching(c) THEN Put(old[i], c.status, c.live) ELSE old[i]]
<1>0. rows' = [rows EXCEPT ![c.table] = q]  BY ActionOf DEF UpdateRows
<1>1. RowCall(run[s].req, c)  BY StepLeaves, Here DEF Fits
<1>2. /\ c.table \in Tables /\ NewStatus(c.status) /\ c.live \in BOOLEAN
      /\ c.live => run[s].req.op = "BlackContact" /\ c.table = "contact"
      /\ c.table # "contact" => c.status = {}
  BY <1>1 DEF RowCall, RowTopic
<1>3. rows \in [Tables -> Seq(Row)] /\ old \in Seq(Row) /\ DOMAIN old = 1..Len(old) /\ Len(old) \in Nat
  BY <1>2 DEF Typed
<1> HIDE DEF c
<1>5. /\ Len(q) = Len(old)
      /\ \A i \in 1..Len(old) : q[i] = IF i \in Matching(c) THEN Put(old[i], c.status, c.live) ELSE old[i]
  BY <1>3
<1> HIDE DEF q
<1>6. rows'[t] = IF t = c.table THEN q ELSE rows[t]  BY <1>0, <1>2, <1>3
<1>7. Len(rows'[t]) = Len(rows[t])  BY <1>5, <1>6
<1>8. ASSUME NEW i \in 1..Len(rows'[t])
      PROVE  /\ t = c.table /\ i \in Matching(c) => rows'[t][i] = Put(rows[t][i], c.status, c.live)
             /\ t # c.table \/ i \notin Matching(c) => SameRow(t, i)
  <2>1. i \in 1..Len(rows[t])  BY <1>7, <1>8
  <2> QED  BY <1>5, <1>6, <2>1 DEF SameRow
<1>9. ASSUME NEW i \in 1..Len(rows'[t])  PROVE SameRow(t, i) \/ HiddenRow(t, i) \/ BlackRow(s, t, i)
  <2>1. CASE t # c.table \/ i \notin Matching(c)  BY <1>8, <1>9, <2>1
  <2>2. CASE t = c.table /\ i \in Matching(c)
    <3>1. i \in 1..Len(rows[t])  BY <1>7, <1>9
    <3>2. rows[t][i] \in Row  BY <3>1, TypedRow
    <3> DEFINE new == Put(rows[t][i], c.status, c.live)
    <3>3. /\ new.live = c.live
          /\ new.status = IF c.status = {} THEN rows[t][i].status ELSE CHOOSE x \in c.status : TRUE
      BY <1>2, <3>2, PutKeeps
    <3>4. rows'[t][i] = new  BY <1>8, <1>9, <2>2
    <3>5. c.live => (BlackRow(s, t, i) <=> rows'[t][i] = new)
      BY <1>2, <2>2, <3>1 DEF BlackRow, c
    <3> HIDE DEF new
    <3>6. CASE c.live  BY <3>4, <3>5, <3>6
    <3>7. CASE ~c.live
      <4>1. t # "contact" => rows'[t][i].status = rows[t][i].status  BY <1>2, <2>2, <3>3, <3>4
      <4> QED  BY <3>1, <3>3, <3>4, <3>7, <4>1 DEF HiddenRow
    <3> QED  BY <3>6, <3>7
  <2> QED  BY <2>1, <2>2
<1> QED  BY <1>7, <1>8, <1>9 DEF c

LEMMA RowEvents ==
  ASSUME Typed, NEW s \in Slots, Step(s), NEW t \in Tables, NEW i \in 1..Len(rows'[t])
  PROVE  RowEvent(s, t, i)
<1> DEFINE do == CallOf(s).do
<1>1. CASE do \notin {"Insert", "Save", "Update", "EachFound"}
  <2>1. rows' = rows  BY <1>1, Leaves
  <2> QED  BY <2>1 DEF RowEvent, SameRow
<1>2. CASE do = "Insert"  BY <1>2, ActionOf, InsertEvents DEF RowEvent
<1>3. CASE do = "Save"  BY <1>3, SaveEvents DEF RowEvent
<1>4. CASE do = "EachFound"  BY <1>4, EachEvents DEF RowEvent
<1>5. CASE do = "Update"  BY <1>5, UpdateEvents DEF RowEvent
<1> QED  BY <1>1, <1>2, <1>3, <1>4, <1>5

-----------------------------------------------------------------------------
(* At most one live row from a user to a contact. *)
LiveRow(t, i) == i \in 1..Len(rows[t]) /\ rows[t][i].live
HasTopic(t, i, y) == Topic(t, rows[t][i].user, rows[t][i].to) = y
NoTwins(t, y) ==
  \A i, j \in 1..Len(rows[t]) :
    LiveRow(t, i) /\ LiveRow(t, j) /\ HasTopic(t, i, y) /\ rows[t][i].user = rows[t][j].user /\ rows[t][i].to = rows[t][j].to
      => i = j
NoneYet(t, u, x) == \A i \in 1..Len(rows[t]) : LiveRow(t, i) => rows[t][i].user # u \/ rows[t][i].to # x

\* Where a live row comes from.
LEMMA LiveEvents ==
  ASSUME Typed, NEW s \in Slots, Step(s), NEW t \in Tables, NEW i \in 1..Len(rows'[t]), rows'[t][i].live
  PROVE  \/ LiveRow(t, i) /\ rows'[t][i].user = rows[t][i].user /\ rows'[t][i].to = rows[t][i].to
         \/ NewRow(s, t, i)
         \/ i \in 1..Len(rows[t]) /\ rows'[t][i].user = rows[t][i].user /\ rows'[t][i].to = rows[t][i].to
            /\ (SavedRow(s, t, i) \/ CopiedRow(s, t, i))
<1>1. RowEvent(s, t, i)  BY RowEvents
<1>2. i \in 1..Len(rows[t]) => rows'[t][i].user = rows[t][i].user /\ rows'[t][i].to = rows[t][i].to
  BY StepIsTyped DEF StepTyped, RowsFrame, Grown
<1>3. CASE SameRow(t, i)  BY <1>2, <1>3 DEF SameRow, LiveRow
<1>4. CASE HiddenRow(t, i)  BY <1>4 DEF HiddenRow
<1>5. CASE NewRow(s, t, i)  BY <1>5
<1>6. CASE SavedRow(s, t, i)
  <2>1. i \in 1..Len(rows[t])  BY <1>6 DEF SavedRow, InHand
  <2> QED  BY <1>2, <1>6, <2>1
<1>7. CASE CopiedRow(s, t, i)
  <2>1. i \in 1..Len(rows[t])  BY <1>7 DEF CopiedRow, InHand
  <2> QED  BY <1>2, <1>7, <2>1
<1>8. CASE BlackRow(s, t, i)
  <2>1. i \in Matching(CallOf(s)) /\ CallOf(s).table = t  BY <1>8 DEF BlackRow
  <2>2. i \in 1..Len(rows[t]) /\ rows[t][i].live  BY <2>1, Matched
  <2> QED  BY <1>2, <2>2 DEF LiveRow
<1> QED  BY <1>1, <1>3, <1>4, <1>5, <1>6, <1>7, <1>8 DEF RowEvent

\* A step that brings no row to life keeps them apart.
LEMMA NoTwinsKept ==
  ASSUME Typed, NEW t \in Tables, NEW y, NoTwins(t, y),
         \A i \in 1..Len(rows'[t]) : rows'[t][i].live /\ HasTopic(t, i, y)' =>
            LiveRow(t, i) /\ rows'[t][i].user = rows[t][i].user /\ rows'[t][i].to = rows[t][i].to
  PROVE  NoTwins(t, y)'
<1> SUFFICES ASSUME NEW i \in 1..Len(rows'[t]), NEW j \in 1..Len(rows'[t]), rows'[t][i].live, rows'[t][j].live,
                    HasTopic(t, i, y)', rows'[t][i].user = rows'[t][j].user, rows'[t][i].to = rows'[t][j].to
             PROVE  i = j
  BY DEF NoTwins, LiveRow
<1>1. HasTopic(t, j, y)'  BY DEF HasTopic
<1>2. LiveRow(t, i) /\ rows'[t][i].user = rows[t][i].user /\ rows'[t][i].to = rows[t][i].to  OBVIOUS
<1>3. LiveRow(t, j) /\ rows'[t][j].user = rows[t][j].user /\ rows'[t][j].to = rows[t][j].to  BY <1>1
<1>4. HasTopic(t, i, y)  BY <1>2 DEF HasTopic
<1> QED  BY <1>2, <1>3, <1>4 DEF NoTwins, LiveRow

\* One that puts in a row there was none of keeps them apart as well.
LEMMA NoTwinsAdded ==
  ASSUME Typed, NEW t \in Tables, NEW y, NoTwins(t, y), NEW u, NEW x, Topic(t, u, x) = y => NoneYet(t, u, x),
         \A i \in 1..Len(rows'[t]) : rows'[t][i].live /\ HasTopic(t, i, y)' =>
            \/ LiveRow(t, i) /\ rows'[t][i].user = rows[t][i].user /\ rows'[t][i].to = rows[t][i].to
            \/ i = Len(rows[t]) + 1 /\ rows'[t][i].user = u /\ rows'[t][i].to = x
  PROVE  NoTwins(t, y)'
<1> SUFFICES ASSUME NEW i \in 1..Len(rows'[t]), NEW j \in 1..Len(rows'[t]), rows'[t][i].live, rows'[t][j].live,
                    HasTopic(t, i, y)', rows'[t][i].user = rows'[t][j].user, rows'[t][i].to = rows'[t][j].to
             PROVE  i = j
  BY DEF NoTwins, LiveRow
<1> DEFINE Old(k) == LiveRow(t, k) /\ rows'[t][k].user = rows[t][k].user /\ rows'[t][k].to = rows[t][k].to
           New(k) == k = Len(rows[t]) + 1 /\ rows'[t][k].user = u /\ rows'[t][k].to = x
<1>1. HasTopic(t, j, y)'  BY DEF HasTopic
<1>2. (Old(i) \/ New(i)) /\ (Old(j) \/ New(j))  BY <1>1
<1>3. CASE Old(i) /\ Old(j)
  <2>1. HasTopic(t, i, y)  BY <1>3 DEF HasTopic
  <2> QED  BY <1>3, <2>1 DEF NoTwins, LiveRow
<1>4. CASE Old(i) /\ New(j)
  <2>1. Topic(t, u, x) = y  BY <1>1, <1>4 DEF HasTopic
  <2> QED  BY <1>4, <2>1 DEF NoneYet, LiveRow
<1>5. CASE New(i) /\ Old(j)
  <2>1. Topic(t, u, x) = y  BY <1>5 DEF HasTopic
  <2> QED  BY <1>5, <2>1 DEF NoneYet, LiveRow
<1>6. CASE New(i) /\ New(j)  BY <1>6
<1> QED  BY <1>2, <1>3, <1>4, <1>5, <1>6

LEMMA ElsewhereNoTwins ==
  ASSUME Typed, NEW t \in Tables, NEW y, NoTwins(t, y), Elsewhere(y)
  PROVE  NoTwins(t, y)'
<1>1. \A i \in 1..Len(rows'[t]) : HasTopic(t, i, y)' => i \in 1..Len(rows[t]) /\ rows'[t][i] = rows[t][i]
  BY DEF Elsewhere, HasTopic
<1> QED  BY <1>1, NoTwinsKept DEF LiveRow

LEMMA ElsewhereNone ==
  ASSUME Typed, NEW t \in Tables, NEW y, Elsewhere(y), NEW u, NEW x, Topic(t, u, x) = y, NoneYet(t, u, x)
  PROVE  NoneYet(t, u, x)'
<1> SUFFICES ASSUME NEW i \in 1..Len(rows'[t]), rows'[t][i].live, rows'[t][i].user = u, rows'[t][i].to = x
             PROVE  FALSE
  BY DEF NoneYet, LiveRow
<1>1. i \in 1..Len(rows[t]) /\ rows'[t][i] = rows[t][i]  BY DEF Elsewhere
<1> QED  BY <1>1 DEF NoneYet, LiveRow
-----------------------------------------------------------------------------
(* Applications. *)
Answering == {"PassContactApply", "RefuseContactApply", "BlackApply"}

LEMMA ApplyShape ==
  ASSUME NEW r \in Requests, NEW c, c = CallsOf[r], r.op = "ApplyContact"
  PROVE  /\ Len(c) = 4 /\ r.owner \in Users /\ r.contact \in Ids
         /\ c[1].do \in {"FirstUser", "FirstGroup"}
         /\ c[2].do = "FirstOr" /\ c[2].table = "apply" /\ c[2].user = r.owner /\ c[2].to = r.contact
         /\ c[3].do = "Insert" /\ c[3].table = "apply" /\ c[3].user = r.owner /\ c[3].to = r.contact
         /\ c[3].status = "PENDING"
         /\ c[4].do = "Save" /\ c[4].table = "apply"
         /\ r.contact \in Users => "BLACK" \notin c[2].among /\ c[4].status = {"PENDING"}
         /\ r.contact \notin Users => c[4].status = {}
<1> DEFINE x1 == FirstUser(r.contact, {"NORMAL"})
           y1 == FirstGroup(r.contact, {"NORMAL"})
           x2 == FirstOr("apply", r.owner, r.contact, ApplySts \ {"BLACK"})
           y2 == FirstOr("apply", r.owner, r.contact, ApplySts)
           x3 == Insert("apply", r.owner, r.contact, "PENDING")
           x4 == Save("apply", {"PENDING"})
           y4 == Save("apply", {})
<1>1. /\ x1.do = "FirstUser" /\ y1.do = "FirstGroup"
      /\ x2.do = "FirstOr" /\ x2.table = "apply" /\ x2.user = r.owner /\ x2.to = r.contact /\ "BLACK" \notin x2.among
      /\ y2.do = "FirstOr" /\ y2.table = "apply" /\ y2.user = r.owner /\ y2.to = r.contact
  BY DEF FirstUser, FirstGroup, FirstOr
<1>2. /\ x3.do = "Insert" /\ x3.table = "apply" /\ x3.user = r.owner /\ x3.to = r.contact /\ x3.status = "PENDING"
      /\ x4.do = "Save" /\ x4.table = "apply" /\ x4.status = {"PENDING"}
      /\ y4.do = "Save" /\ y4.table = "apply" /\ y4.status = {}
  BY DEF Insert, Save
<1>3. r.contact \in Users => c = << x1, x2, x3, x4 >>  BY ApplyContactCalls DEF ApplyContact
<1>4. r.contact \notin Users => c = << y1, y2, x3, y4 >>  BY ApplyContactCalls DEF ApplyContact
<1>5. r.owner \in Users /\ r.contact \in Ids  BY ApplyContactCalls DEF Ids
<1> HIDE DEF x1, y1, x2, y2, x3, x4, y4
<1>6. CASE r.contact \in Users
  <2>1. Len(c) = 4 /\ c[1] = x1 /\ c[2] = x2 /\ c[3] = x3 /\ c[4] = x4  BY <1>3, <1>6, FourCalls
  <2> QED  BY <1>1, <1>2, <1>5, <1>6, <2>1
<1>7. CASE r.contact \notin Users
  <2>1. Len(c) = 4 /\ c[1] = y1 /\ c[2] = y2 /\ c[3] = x3 /\ c[4] = y4  BY <1>4, <1>7, FourCalls
  <2> QED  BY <1>1, <1>2, <1>5, <1>7, <2>1
<1> QED  BY <1>6, <1>7

LEMMA AnswerShape ==
  ASSUME NEW r \in Requests, NEW c, c = CallsOf[r], r.op \in Answering
  PROVE  /\ c[1].do = "First" /\ c[1].table = "apply"
         /\ r.op # "PassContactApply" => Len(c) = 2 /\ c[2].do = "Save" /\ c[2].table = "apply"
         /\ r.op = "PassContactApply" =>
              /\ Len(c) = 6 /\ c[2].do \in {"FindUser", "FindGroup"} /\ c[3].do = "Save" /\ c[3].table = "apply"
              /\ c[4].do = "Insert" /\ c[5].do \in {"Insert", "SaveGroup"} /\ c[6].do = "Forget"
         /\ \A p \in 1..Len(c) : c[p].do = "Save" => c[p].status \in {{"AGREE"}, {"REFUSE"}, {"BLACK"}}
<1>1. CASE r.op = "PassContactApply"
  <2>1. /\ Len(c) = 6 /\ c[1].do = "First" /\ c[1].table = "apply"
        /\ c[2].do \in {"FindUser", "FindGroup"} /\ c[3].do = "Save" /\ c[3].table = "apply"
        /\ c[4].do = "Insert" /\ c[5].do \in {"Insert", "SaveGroup"} /\ c[6].do = "Forget"
    BY <1>1, PassLists
  <2>2. c[3] = Save("apply", {"AGREE"})
    <3>1. CASE r.owner \in Users  BY <1>1, <3>1, PassApplyCalls DEF PassToUser
    <3>2. CASE r.owner \notin Users  BY <1>1, <3>2, PassApplyCalls DEF PassToGroup
    <3> QED  BY <3>1, <3>2
  <2>3. c[3].status = {"AGREE"}  BY <2>2 DEF Save
  <2>4. ASSUME NEW p \in 1..Len(c), c[p].do = "Save"  PROVE p = 3
    <3>1. p \in {1, 2, 3, 4, 5, 6}  BY <2>1
    <3> QED  BY <2>1, <2>4, <3>1
  <2> QED  BY <1>1, <2>1, <2>3, <2>4
<1>2. CASE r.op # "PassContactApply"
  <2>0. r.op \in {"RefuseContactApply", "BlackApply"}  BY <1>2 DEF Answering
  <2>1. Len(c) = 2 /\ c[1].do = "First" /\ c[1].table = "apply" /\ c[2].do = "Save" /\ c[2].table = "apply"
    BY <2>0, DenyLists
  <2>2. c[2] = Save("apply", {"REFUSE"}) \/ c[2] = Save("apply", {"BLACK"})
    BY <2>0, RefuseApplyCalls, BlackApplyCalls DEF RefuseContactApply, BlackApply
  <2>3. c[2].status \in {{"REFUSE"}, {"BLACK"}}  BY <2>2 DEF Save
  <2>4. ASSUME NEW p \in 1..Len(c), c[p].do = "Save"  PROVE p = 2
    <3>1. p \in {1, 2}  BY <2>1
    <3> QED  BY <2>1, <2>4, <3>1
  <2> QED  BY <1>2, <2>1, <2>3, <2>4
<1> QED  BY <1>1, <1>2

-----------------------------------------------------------------------------
(* What a handler has in hand after a call. *)
HeldNow(s, h, v, n) ==
  run'[s] # Idle => run'[s].held = v /\ run'[s].pc = h.pc + n

LEMMA SkipHolds ==
  ASSUME Typed, NEW s \in Slots, run[s] # Idle, NEW v, NEW n, Skip(s, [run[s] EXCEPT !.held = v], n)
  PROVE  HeldNow(s, run[s], v, n)
<1> DEFINE x == [run[s] EXCEPT !.held = v]
<1>1. DOMAIN run = Slots /\ DOMAIN run[s] = Fields  BY Here DEF BodyOK
<1>2. DOMAIN x = Fields /\ x.held = v /\ x.pc = run[s].pc  BY <1>1 DEF Fields
<1>3. Skip(s, x, n)  OBVIOUS
<1> HIDE DEF x
<1> DEFINE z == [x EXCEPT !.pc = @ + n]
<1>4. z.held = v /\ z.pc = run[s].pc + n  BY <1>2 DEF Fields
<1>5. run' = [run EXCEPT ![s] = Idle] \/ run' = [run EXCEPT ![s] = z]  BY <1>3 DEF Skip, Return
<1> HIDE DEF z
<1>6. run'[s] = Idle \/ run'[s] = z  BY <1>1, <1>5
<1> QED  BY <1>4, <1>6 DEF HeldNow

Taken(s, c, h, n) ==
  /\ Matching(c) # {} /\ FirstId(c) \in Matching(c) /\ rows[c.table][FirstId(c)].status \in c.among
  /\ run'[s].held = Append(h.held, Held(c.table, FirstId(c))) /\ run'[s].pc = h.pc + n

LEMMA FirstTakes ==
  ASSUME Typed, NEW s \in Slots, Step(s), CallOf(s).do \in {"First", "FirstOr"}, run'[s] # Idle
  PROVE  /\ rows' = rows
         /\ CallOf(s).do = "First" => Taken(s, CallOf(s), run[s], 1)
         /\ CallOf(s).do = "FirstOr" =>
              \/ Taken(s, CallOf(s), run[s], 2)
              \/ Matching(CallOf(s)) = {} /\ run'[s].pc = run[s].pc + 1 /\ run'[s].held = run[s].held
<1> DEFINE c == CallOf(s)
           h == run[s]
           v == Append(h.held, Held(c.table, FirstId(c)))
           n == IF c.do = "First" THEN 1 ELSE 2
<1>0. ReadRow(s) /\ h # Idle /\ rows' = rows /\ DOMAIN run = Slots /\ DOMAIN h = Fields /\ Fits(h.req, c)
  BY ActionOf, StepLeaves, Leaves, Here DEF BodyOK
<1>1. ~Return(s)  BY <1>0, Returns
<1>2. c.table \in Tables  BY <1>0 DEF Fits, RowCall, RowTopic
<1>3. \/ Matching(c) = {} /\ c.do = "FirstOr" /\ GoOn(s, h)
      \/ /\ Matching(c) # {} /\ rows[c.table][FirstId(c)].status \in c.among
         /\ Skip(s, [h EXCEPT !.held = v], n)
  <2> HIDE DEF v
  <2>1. /\ Matching(c) = {} => IF c.do = "First" THEN Return(s) ELSE GoOn(s, h)
        /\ Matching(c) # {} => IF rows[c.table][FirstId(c)].status \notin c.among THEN Return(s)
                               ELSE Skip(s, [h EXCEPT !.held = v], n)
    BY <1>0 DEF ReadRow, v
  <2> QED  BY <1>1, <2>1
<1>4. CASE Matching(c) = {} /\ c.do = "FirstOr" /\ GoOn(s, h)
  <2>1. Skip(s, h, 1)  BY <1>4 DEF GoOn
  <2>2. Passes(s, {}, 1)  BY <1>0, <2>1, SamePasses
  <2>3. run'[s].pc = h.pc + 1 /\ run'[s].held = h.held  BY <2>2 DEF Passes, Fields
  <2> QED  BY <1>0, <1>4, <2>3
<1>5. CASE Matching(c) # {} /\ rows[c.table][FirstId(c)].status \in c.among /\ Skip(s, [h EXCEPT !.held = v], n)
  <2>1. FirstId(c) \in Matching(c)  BY <1>2, <1>5, FirstMatches
  <2>2. HeldNow(s, h, v, n)  BY <1>0, <1>5, SkipHolds
  <2>3. run'[s].held = v /\ run'[s].pc = h.pc + n  BY <2>2 DEF HeldNow
  <2>4. Taken(s, c, h, n)  BY <1>5, <2>1, <2>3 DEF Taken
  <2>5. CASE c.do = "First"  BY <1>0, <2>4, <2>5
  <2>6. CASE c.do = "FirstOr"  BY <1>0, <2>4, <2>6
  <2> QED  BY <2>5, <2>6
<1> QED  BY <1>3, <1>4, <1>5

PutIn(c) == [table |-> c.table, id |-> Len(rows[c.table]) + 1,
             row |-> [user |-> c.user, to |-> c.to, status |-> c.status, live |-> TRUE]]

LEMMA InsertTakes ==
  ASSUME Typed, NEW s \in Slots, Step(s), CallOf(s).do = "Insert", run'[s] # Idle
  PROVE  run'[s].held = Append(run[s].held, PutIn(CallOf(s))) /\ run'[s].pc = run[s].pc + 1
<1> DEFINE v == Append(run[s].held, PutIn(CallOf(s)))
<1>1. InsertRow(s) /\ run[s] # Idle  BY ActionOf, StepLeaves
<1>2. Skip(s, [run[s] EXCEPT !.held = v], 1)  BY <1>1 DEF InsertRow, GoOn, PutIn
<1> HIDE DEF v
<1>3. HeldNow(s, run[s], v, 1)  BY <1>1, <1>2, SkipHolds
<1> QED  BY <1>3 DEF HeldNow, v

LEMMA SaveTakes ==
  ASSUME Typed, NEW s \in Slots, Step(s), CallOf(s).do = "Save", run'[s] # Idle
  PROVE  run'[s].held = Tail(run[s].held) /\ run'[s].pc = run[s].pc + 1
<1> DEFINE v == Tail(run[s].held)
<1>1. SaveRow(s) /\ run[s] # Idle  BY ActionOf, StepLeaves
<1>2. Skip(s, [run[s] EXCEPT !.held = v], 1)  BY <1>1 DEF SaveRow, GoOn
<1> HIDE DEF v
<1>3. HeldNow(s, run[s], v, 1)  BY <1>1, <1>2, SkipHolds
<1> QED  BY <1>3 DEF HeldNow, v

LEMMA FindTakes ==
  ASSUME Typed, NEW s \in Slots, Step(s), CallOf(s).do \in {"Find", "FindEither"}, run'[s] # Idle
  PROVE  run'[s].held = FoundList(CallOf(s)) /\ run'[s].pc = run[s].pc + 1
<1> DEFINE v == FoundList(CallOf(s))
<1>1. FindRows(s) /\ run[s] # Idle  BY ActionOf, StepLeaves
<1>2. Skip(s, [run[s] EXCEPT !.held = v], 1)  BY <1>1 DEF FindRows, GoOn, FoundList
<1> HIDE DEF v
<1>3. HeldNow(s, run[s], v, 1)  BY <1>1, <1>2, SkipHolds
<1> QED  BY <1>3 DEF HeldNow, v

LEMMA EachTakes ==
  ASSUME Typed, NEW s \in Slots, Step(s), CallOf(s).do = "EachFound", run'[s] # Idle
  PROVE  \/ run[s].held = <<>> /\ run'[s].held = run[s].held /\ run'[s].pc = run[s].pc + 1 /\ rows' = rows
         \/ run[s].held # <<>> /\ run'[s].held = Tail(run[s].held) /\ run'[s].pc = run[s].pc
<1> DEFINE h == run[s]
<1>0. EachRow(s) /\ h # Idle /\ DOMAIN run = Slots /\ DOMAIN h = Fields  BY ActionOf, StepLeaves, Here DEF BodyOK
<1>1. CASE h.held = <<>>
  <2>1. Skip(s, h, 1) /\ rows' = rows  BY <1>0, <1>1 DEF EachRow, GoOn
  <2>2. Passes(s, {}, 1)  BY <1>0, <2>1, SamePasses
  <2>3. run'[s].pc = h.pc + 1 /\ run'[s].held = h.held  BY <2>2 DEF Passes, Fields
  <2> QED  BY <1>1, <2>1, <2>3
<1>2. CASE h.held # <<>>
  <2> DEFINE v == Tail(h.held)
             x == [h EXCEPT !.held = v]
  <2>1. Stay(s, x)  BY <1>0, <1>2 DEF EachRow
  <2> HIDE DEF v
  <2>2. x.held = v /\ x.pc = h.pc  BY <1>0 DEF Fields
  <2> HIDE DEF x
  <2>3. run'[s] = x  BY <1>0, <2>1, Stays
  <2> QED  BY <1>2, <2>2, <2>3 DEF v
<1> QED  BY <1>1, <1>2

LEMMA FirstOfAppend ==
  ASSUME NEW S, NEW q \in Seq(S), Len(q) = 0, NEW e \in S
  PROVE  Append(q, e)[1] = e
BY AppendProperty

-----------------------------------------------------------------------------
(* One application from a user to a contact; who is about to put one in has   *)
(* found none, and who is about to write one back has what is in the table.   *)

\* The handler has looked an application up, or put it in, and not yet written it back.
Holding(h) ==
  \/ h.req.op \in {"RefuseContactApply", "BlackApply"} /\ h.pc = 2
  \/ h.req.op = "PassContactApply" /\ h.pc \in {2, 3}
  \/ h.req.op = "ApplyContact" /\ h.pc = 4

FoundNone(h, y) ==
  h.req.op = "ApplyContact" /\ h.pc = 3 /\ Topic("apply", h.req.owner, h.req.contact) = y =>
    NoneYet("apply", h.req.owner, h.req.contact)

SameInHand(h, y) ==
  Holding(h) =>
    LET e == h.held[1]
    IN  Topic("apply", e.row.user, e.row.to) = y =>
          /\ rows["apply"][e.id] = e.row /\ e.row.live
          /\ h.req.op = "ApplyContact" /\ h.req.contact \in Users => e.row.status # "BLACK"

ApplyOK(y) ==
  /\ NoTwins("apply", y)
  /\ \A s \in Slots : On(s, y) => FoundNone(run[s], y) /\ SameInHand(run[s], y)

LEMMA HoldsOne ==
  ASSUME Typed, NEW s \in Slots, run[s] # Idle, Holding(run[s])
  PROVE  LET h == run[s]
             e == h.held[1]
         IN  /\ Len(h.held) = 1 /\ h.held # <<>> /\ e \in HeldRow /\ e.table = "apply" /\ Copies(h.req, e, rows)
             /\ e.id \in 1..Len(rows["apply"]) /\ e.row \in Row
             /\ rows["apply"][e.id].user = e.row.user /\ rows["apply"][e.id].to = e.row.to
<1> DEFINE h == run[s]
           e == h.held[1]
<1>1. OutlineAt(h.req, h.pc, h.held, h.group) /\ HeldIn(h.req, h.held, rows) /\ h.held \in Seq(HeldRow)  BY Here
<1>2. AllOf(h.held, 1, "apply")
  <2>1. HoldsOK(h.req.op, h.pc, h.held)  BY <1>1 DEF OutlineAt
  <2>2. CASE h.req.op \in {"RefuseContactApply", "BlackApply"} /\ h.pc = 2  BY <2>1, <2>2 DEF HoldsOK
  <2>3. CASE h.req.op = "PassContactApply" /\ h.pc \in {2, 3}  BY <2>1, <2>3 DEF HoldsOK
  <2>4. CASE h.req.op = "ApplyContact" /\ h.pc = 4  BY <2>1, <2>4 DEF HoldsOK
  <2> QED  BY <2>2, <2>3, <2>4 DEF Holding
<1>3. Len(h.held) = 1 /\ e.table = "apply" /\ e \in HeldRow /\ Copies(h.req, e, rows)
  BY <1>1, <1>2 DEF AllOf, HeldIn
<1>4. h.held # <<>>
  <2>1. Len(h.held) # 0  BY <1>3
  <2> QED  BY <1>1, <2>1, EmptySeq, Zenon
<1>5. e.row \in Row  BY <1>3 DEF HeldRow
<1> QED  BY <1>3, <1>4, <1>5 DEF Copies

\* An application is written back from such a hand.
LEMMA SavesHolding ==
  ASSUME Typed, NEW s \in Slots, Step(s), CallOf(s).do = "Save", CallOf(s).table = "apply"
  PROVE  /\ Holding(run[s]) /\ run[s].req.op \in Answering \cup {"ApplyContact"}
         /\ run[s].req.op \in Answering => CallOf(s).status \in {{"AGREE"}, {"REFUSE"}, {"BLACK"}}
         /\ run[s].req.op = "ApplyContact" /\ run[s].req.contact \in Users => CallOf(s).status = {"PENDING"}
         /\ run[s].req.op = "ApplyContact" /\ run[s].req.contact \notin Users => CallOf(s).status = {}
<1> DEFINE h == run[s]
           r == h.req
           c == CallsOf[r]
<1>0. r \in Requests /\ CallOf(s) = c[h.pc] /\ h.pc \in 1..Len(c) /\ RowCall(r, CallOf(s))
  BY StepLeaves, Here DEF Fits
<1>1. r.op \in Answering \cup {"ApplyContact"}
  <2>1. /\ r.op \in {"ApplyContact", "PassContactApply", "RefuseContactApply", "BlackApply", "CancelBlackContact"}
        /\ "apply" = IF r.op = "CancelBlackContact" THEN "contact" ELSE "apply"
    BY <1>0 DEF RowCall
  <2> QED  BY <2>1 DEF Answering
<1>2. c[h.pc].do = "Save"  BY <1>0
<1>3. CASE r.op = "ApplyContact"
  <2>1. /\ Len(c) = 4 /\ c[1].do \in {"FirstUser", "FirstGroup"} /\ c[2].do = "FirstOr" /\ c[3].do = "Insert"
        /\ r.contact \in Users => c[4].status = {"PENDING"}
        /\ r.contact \notin Users => c[4].status = {}
    BY <1>0, <1>3, ApplyShape
  <2>2. h.pc \in {1, 2, 3, 4}  BY <1>0, <2>1
  <2>3. h.pc = 4  BY <1>2, <2>1, <2>2
  <2> QED  BY <1>0, <1>3, <2>1, <2>3 DEF Holding, Answering
<1>4. CASE r.op = "PassContactApply"
  <2>0. r.op \in Answering  BY <1>4 DEF Answering
  <2>1. /\ Len(c) = 6 /\ c[1].do = "First" /\ c[2].do \in {"FindUser", "FindGroup"}
        /\ c[4].do = "Insert" /\ c[5].do \in {"Insert", "SaveGroup"} /\ c[6].do = "Forget"
        /\ c[h.pc].status \in {{"AGREE"}, {"REFUSE"}, {"BLACK"}}
    BY <1>0, <1>2, <1>4, <2>0, AnswerShape
  <2>2. h.pc \in {1, 2, 3, 4, 5, 6}  BY <1>0, <2>1
  <2>3. h.pc = 3  BY <1>2, <2>1, <2>2
  <2> QED  BY <1>0, <1>4, <2>0, <2>1, <2>3 DEF Holding
<1>5. CASE r.op \in {"RefuseContactApply", "BlackApply"}
  <2>0. r.op \in Answering /\ r.op # "PassContactApply" /\ r.op # "ApplyContact"  BY <1>5 DEF Answering
  <2>1. /\ Len(c) = 2 /\ c[1].do = "First" /\ c[h.pc].status \in {{"AGREE"}, {"REFUSE"}, {"BLACK"}}
    BY <1>0, <1>2, <2>0, AnswerShape
  <2>2. h.pc \in {1, 2}  BY <1>0, <2>1
  <2>3. h.pc = 2  BY <1>2, <2>1, <2>2
  <2> QED  BY <1>0, <1>5, <2>0, <2>1, <2>3 DEF Holding
<1> QED  BY <1>1, <1>3, <1>4, <1>5 DEF Answering

LEMMA BeginsApply ==
  ASSUME Typed, NEW y, ApplyOK(y), NEW s \in Slots, Begins(s, y)
  PROVE  ApplyOK(y)'
<1>1. rows' = rows  BY DEF Begins, tables
<1>2. NoTwins("apply", y)'  BY <1>1 DEF ApplyOK, NoTwins, LiveRow, HasTopic
<1>3. run'[s].pc = 1  BY DEF Begins, NewHandler
<1>4. FoundNone(run[s], y)' /\ SameInHand(run[s], y)'  BY <1>3 DEF FoundNone, SameInHand, Holding
<1>5. \A t \in Slots : t # s => ~On(t, y)'  BY DEF Begins
<1> QED  BY <1>2, <1>4, <1>5 DEF ApplyOK

LEMMA ElsewhereApply ==
  ASSUME Typed, NEW y, ApplyOK(y), Elsewhere(y)
  PROVE  ApplyOK(y)'
<1>1. NoTwins("apply", y)'  BY TablesAre, ElsewhereNoTwins DEF ApplyOK
<1> SUFFICES ASSUME NEW s \in Slots, On(s, y)'  PROVE FoundNone(run[s], y)' /\ SameInHand(run[s], y)'
  BY <1>1 DEF ApplyOK
<1>2. On(s, y) /\ run'[s] = run[s]  BY DEF Elsewhere
<1>3. FoundNone(run[s], y) /\ SameInHand(run[s], y) /\ run[s] # Idle  BY <1>2 DEF ApplyOK, On
<1>4. FoundNone(run[s], y)'
  <2> SUFFICES ASSUME run[s].req.op = "ApplyContact", run[s].pc = 3, Topic("apply", run[s].req.owner, run[s].req.contact) = y
               PROVE  NoneYet("apply", run[s].req.owner, run[s].req.contact)'
    BY <1>2 DEF FoundNone
  <2>1. NoneYet("apply", run[s].req.owner, run[s].req.contact)  BY <1>3 DEF FoundNone
  <2>2. (\A u, x : Topic("apply", u, x) = y /\ NoneYet("apply", u, x) => NoneYet("apply", u, x)')
    BY TablesAre, ElsewhereNone
  <2>3. (\A i \in 1..Len(rows'["apply"]) : rows'["apply"][i].live =>
            rows'["apply"][i].user # run[s].req.owner \/ rows'["apply"][i].to # run[s].req.contact)
    BY <2>1, <2>2 DEF NoneYet, LiveRow
  <2> QED  BY <1>2, <2>3 DEF NoneYet, LiveRow
<1>5. SameInHand(run[s], y)'
  <2> DEFINE e == run[s].held[1]
  <2> SUFFICES ASSUME Holding(run[s]), Topic("apply", e.row.user, e.row.to) = y
               PROVE  rows'["apply"][e.id] = rows["apply"][e.id]
    BY <1>2, <1>3 DEF SameInHand, Holding
  <2>1. e.id \in 1..Len(rows["apply"]) /\ rows["apply"][e.id].user = e.row.user /\ rows["apply"][e.id].to = e.row.to
    BY <1>3, HoldsOne
  <2> HIDE DEF e
  <2>2. /\ Grown(rows, rows')
        /\ \A i \in 1..Len(rows'["apply"]) :
             Topic("apply", rows'["apply"][i].user, rows'["apply"][i].to) = y => rows'["apply"][i] = rows["apply"][i]
    BY TablesAre DEF Elsewhere
  <2>3. e.id \in 1..Len(rows'["apply"]) /\ rows'["apply"][e.id].user = e.row.user /\ rows'["apply"][e.id].to = e.row.to
    BY <2>1, <2>2, TablesAre DEF Grown
  <2> QED  BY <2>2, <2>3
<1> QED  BY <1>4, <1>5

LEMMA TakenRow ==
  ASSUME Typed, NEW s \in Slots, NEW c, c.table = "apply", NEW n, Taken(s, c, run[s], n), run[s] # Idle, Len(run[s].held) = 0
  PROVE  LET e == run'[s].held[1]
         IN  rows["apply"][e.id] = e.row /\ e.row.live /\ e.row.status \in c.among
<1> DEFINE i == FirstId(c)
           e == Held("apply", i)
<1>1. i \in Matching(c) /\ rows["apply"][i].status \in c.among /\ run'[s].held = Append(run[s].held, e)
  BY DEF Taken
<1>2. i \in 1..Len(rows["apply"]) /\ rows["apply"][i].live  BY <1>1, TablesAre, Matched
<1> HIDE DEF i
<1>3. e \in HeldRow /\ e.id = i /\ e.row = rows["apply"][i]  BY <1>2, TablesAre, HeldProperty
<1>4. run[s].held \in Seq(HeldRow)  BY Here
<1> HIDE DEF e
<1>5. run'[s].held[1] = e  BY <1>1, <1>3, <1>4, FirstOfAppend
<1> QED  BY <1>1, <1>2, <1>3, <1>5

LEMMA WorksNoTwins ==
  ASSUME Typed, NEW y, ApplyOK(y), NEW s \in Slots, Works(s, y)
  PROVE  NoTwins("apply", y)'
<1> DEFINE h == run[s]
           r == h.req
           c == CallOf(s)
           Old(i) == LiveRow("apply", i) /\ rows'["apply"][i].user = rows["apply"][i].user
                     /\ rows'["apply"][i].to = rows["apply"][i].to
<1>0. /\ h # Idle /\ r \in Requests /\ Step(s) /\ c = CallsOf[r][h.pc] /\ h.pc \in 1..Len(CallsOf[r]) /\ RowCall(r, c)
      /\ "apply" \in Tables
  BY Here, TablesAre DEF Works, On, Fits
<1>1. NoTwins("apply", y) /\ FoundNone(h, y) /\ SameInHand(h, y)  BY DEF ApplyOK, Works
<1>2. ASSUME NEW i \in 1..Len(rows'["apply"]), rows'["apply"][i].live, HasTopic("apply", i, y)'
      PROVE  Old(i) \/ NewRow(s, "apply", i)
  <2>1. ~CopiedRow(s, "apply", i)  BY DEF CopiedRow
  <2>2. CASE i \in 1..Len(rows["apply"]) /\ rows'["apply"][i].user = rows["apply"][i].user
             /\ rows'["apply"][i].to = rows["apply"][i].to /\ SavedRow(s, "apply", i)
    <3>1. c.do = "Save" /\ c.table = "apply" /\ i = h.held[1].id  BY <2>2 DEF SavedRow, InHand
    <3>2. Holding(h)  BY <1>0, <3>1, SavesHolding
    <3> DEFINE e == h.held[1]
    <3>3. rows["apply"][e.id].user = e.row.user /\ rows["apply"][e.id].to = e.row.to  BY <1>0, <3>2, HoldsOne
    <3>4. Topic("apply", e.row.user, e.row.to) = y  BY <1>2, <2>2, <3>1, <3>3 DEF HasTopic
    <3>5. rows["apply"][e.id] = e.row /\ e.row.live  BY <1>1, <3>2, <3>4 DEF SameInHand
    <3> QED  BY <2>2, <3>1, <3>5 DEF LiveRow
  <2>3. \/ Old(i) \/ NewRow(s, "apply", i)
        \/ i \in 1..Len(rows["apply"]) /\ rows'["apply"][i].user = rows["apply"][i].user
             /\ rows'["apply"][i].to = rows["apply"][i].to /\ SavedRow(s, "apply", i)
    BY <1>0, <1>2, <2>1, LiveEvents
  <2> QED  BY <2>2, <2>3
<1>3. CASE c.do = "Insert" /\ c.table = "apply"
  <2>1. r.op = "ApplyContact"  BY <1>0, <1>3 DEF RowCall
  <2>2. h.pc = 3 /\ c.user = r.owner /\ c.to = r.contact
    <3>1. /\ Len(CallsOf[r]) = 4 /\ CallsOf[r][1].do \in {"FirstUser", "FirstGroup"} /\ CallsOf[r][2].do = "FirstOr"
          /\ CallsOf[r][3].user = r.owner /\ CallsOf[r][3].to = r.contact /\ CallsOf[r][4].do = "Save"
      BY <1>0, <2>1, ApplyShape
    <3>2. h.pc \in {1, 2, 3, 4}  BY <1>0, <3>1
    <3>3. h.pc = 3  BY <1>0, <1>3, <3>1, <3>2
    <3> QED  BY <1>0, <3>1, <3>3
  <2>3. Topic("apply", c.user, c.to) = y => NoneYet("apply", c.user, c.to)
    BY <1>1, <2>1, <2>2 DEF FoundNone
  <2>4. ASSUME NEW i \in 1..Len(rows'["apply"]), rows'["apply"][i].live, HasTopic("apply", i, y)'
        PROVE  \/ Old(i)
               \/ i = Len(rows["apply"]) + 1 /\ rows'["apply"][i].user = c.user /\ rows'["apply"][i].to = c.to
    <3>1. Old(i) \/ NewRow(s, "apply", i)  BY <1>2, <2>4
    <3> QED  BY <3>1 DEF NewRow
  <2> HIDE DEF c
  <2>5. "apply" \in Tables /\ NoTwins("apply", y)  BY <1>0, <1>1
  <2> DEFINE u == c.user
             x == c.to
  <2>6. Topic("apply", u, x) = y => NoneYet("apply", u, x)  BY <2>3
  <2>7. \A i \in 1..Len(rows'["apply"]) : rows'["apply"][i].live /\ HasTopic("apply", i, y)' =>
          \/ Old(i)
          \/ i = Len(rows["apply"]) + 1 /\ rows'["apply"][i].user = u /\ rows'["apply"][i].to = x
    BY <2>4
  <2> HIDE DEF u, x, r, h
  <2> QED  BY <2>5, <2>6, <2>7, NoTwinsAdded
<1>4. CASE ~(c.do = "Insert" /\ c.table = "apply")
  <2>1. \A i : ~NewRow(s, "apply", i)  BY <1>4 DEF NewRow
  <2>2. \A i \in 1..Len(rows'["apply"]) : rows'["apply"][i].live /\ HasTopic("apply", i, y)' => Old(i)  BY <1>2, <2>1
  <2> QED  BY <1>0, <1>1, <2>2, NoTwinsKept
<1> QED  BY <1>3, <1>4

LEMMA ApplyContactHand ==
  ASSUME Typed, NEW y, ApplyOK(y), NEW s \in Slots, Works(s, y), run[s].req.op = "ApplyContact", run'[s] # Idle
  PROVE  FoundNone(run[s], y)' /\ SameInHand(run[s], y)'
<1> DEFINE h == run[s]
           r == h.req
           c == CallOf(s)
<1>0. /\ h # Idle /\ r \in Requests /\ Step(s) /\ c = CallsOf[r][h.pc] /\ h.pc \in 1..Len(CallsOf[r])
      /\ OutlineAt(r, h.pc, h.held, h.group) /\ h.held \in Seq(HeldRow) /\ Fits(r, c)
  BY Here DEF Works, On
<1>1. /\ Len(CallsOf[r]) = 4 /\ r.owner \in Users /\ r.contact \in Ids
      /\ CallsOf[r][1].do \in {"FirstUser", "FirstGroup"}
      /\ CallsOf[r][2].do = "FirstOr" /\ CallsOf[r][2].table = "apply"
      /\ CallsOf[r][2].user = r.owner /\ CallsOf[r][2].to = r.contact
      /\ CallsOf[r][3].do = "Insert" /\ CallsOf[r][3].table = "apply" /\ CallsOf[r][3].status = "PENDING"
      /\ CallsOf[r][4].do = "Save"
      /\ r.contact \in Users => "BLACK" \notin CallsOf[r][2].among
  BY <1>0, ApplyShape
<1>2. run'[s].req = r /\ run'[s].pc \in 1..4  BY <1>0, <1>1, FieldsKept
<1>3. h.pc <= 3 => Len(h.held) = 0  BY <1>0 DEF OutlineAt, HoldsOK, AllOf
<1>4. h.pc \in {1, 2, 3, 4}  BY <1>0, <1>1
<1>5. CASE h.pc = 1
  <2>1. run'[s].pc = h.pc + 1  BY <1>0, <1>1, <1>5, FieldsKept
  <2>2. run'[s].pc = 2  BY <1>5, <2>1
  <2> QED  BY <1>2, <2>2 DEF FoundNone, SameInHand, Holding
<1>6. CASE h.pc = 2
  <2>1. c.do = "FirstOr" /\ c.table = "apply" /\ c.user = r.owner /\ c.to = r.contact
        /\ (r.contact \in Users => "BLACK" \notin c.among)
    BY <1>0, <1>1, <1>6
  <2>1a. Len(h.held) = 0  BY <1>3, <1>6
  <2> HIDE DEF c
  <2>2. rows' = rows /\ (Taken(s, c, h, 2) \/ (Matching(c) = {} /\ run'[s].pc = h.pc + 1))
    BY <1>0, <2>1, FirstTakes DEF c
  <2>3. CASE Matching(c) = {} /\ run'[s].pc = h.pc + 1
    <3>1. run'[s].pc = 3  BY <1>6, <2>3
    <3>2. NoneYet("apply", r.owner, r.contact)
      <4>1. DOMAIN rows["apply"] = 1..Len(rows["apply"])  BY TablesAre DEF Typed
      <4> QED  BY <2>1, <2>3, <4>1 DEF NoneYet, LiveRow, Matching, LiveRows
    <3>3. NoneYet("apply", r.owner, r.contact)'  BY <2>2, <1>2, <3>2 DEF NoneYet, LiveRow
    <3> QED  BY <1>2, <3>1, <3>3 DEF FoundNone, SameInHand, Holding
  <2>4. CASE Taken(s, c, h, 2)
    <3>1. run'[s].pc = 4  BY <1>6, <2>4 DEF Taken
    <3> DEFINE e == run'[s].held[1]
    <3>2. rows["apply"][e.id] = e.row /\ e.row.live /\ e.row.status \in c.among
      BY <1>0, <2>1, <2>1a, <2>4, TakenRow
    <3>3. run'[s].req = r /\ "apply" \in DOMAIN rows'  BY <1>2, <2>2, TablesAre DEF Typed
    <3>4. rows'["apply"][e.id] = e.row /\ (r.contact \in Users => e.row.status # "BLACK")  BY <2>1, <2>2, <3>2
    <3> HIDE DEF e
    <3> QED  BY <1>2, <3>1, <3>2, <3>4 DEF FoundNone, SameInHand, e
  <2> QED  BY <2>2, <2>3, <2>4
<1>7. CASE h.pc = 3
  <2>1. c.do = "Insert" /\ c.table = "apply" /\ c.status = "PENDING"  BY <1>0, <1>1, <1>7
  <2>2. run'[s].held = Append(h.held, PutIn(c)) /\ run'[s].pc = 4  BY <1>0, <1>7, <2>1, InsertTakes
  <2>3. c.table \in Tables /\ c.user \in Users /\ c.to \in Ids /\ c.status \in RowSts
    BY <1>0, <2>1 DEF Fits, RowCall, RowTopic
  <2> HIDE DEF c
  <2> DEFINE row == [user |-> c.user, to |-> c.to, status |-> c.status, live |-> TRUE]
  <2>4. row \in Row /\ row.live /\ row.status = "PENDING"  BY <2>1, <2>3 DEF Row
  <2>5. PutIn(c).id = Len(rows["apply"]) + 1 /\ PutIn(c).row = row /\ PutIn(c).table = "apply"  BY <2>1 DEF PutIn
  <2>6. rows' = [rows EXCEPT !["apply"] = Append(@, row)]  BY <1>0, <2>1, ActionOf DEF InsertRow, c
  <2>7. rows["apply"] \in Seq(Row) /\ rows \in [Tables -> Seq(Row)] /\ Len(rows["apply"]) \in Nat
    BY TablesAre DEF Typed
  <2> HIDE DEF row
  <2>8. PutIn(c) \in HeldRow  BY <2>1, <2>3, <2>4, <2>5, <2>7 DEF HeldRow, PutIn, row
  <2>9. run'[s].held[1] = PutIn(c)  BY <1>0, <1>3, <1>7, <2>2, <2>8, FirstOfAppend
  <2>10. rows'["apply"][Len(rows["apply"]) + 1] = row
    <3>1. rows'["apply"] = Append(rows["apply"], row)  BY <2>6, <2>7, TablesAre
    <3> QED  BY <2>4, <2>7, <3>1
  <2> QED  BY <1>2, <2>2, <2>4, <2>5, <2>9, <2>10 DEF FoundNone, SameInHand
<1>8. CASE h.pc = 4
  <2>1. run'[s].pc = h.pc + 1  BY <1>0, <1>1, <1>8, FieldsKept
  <2> QED  BY <1>2, <1>8, <2>1
<1> QED  BY <1>4, <1>5, <1>6, <1>7, <1>8

LEMMA AnswerHand ==
  ASSUME Typed, NEW y, ApplyOK(y), NEW s \in Slots, Works(s, y), run[s].req.op \in Answering, run'[s] # Idle
  PROVE  SameInHand(run[s], y)'
<1> DEFINE h == run[s]
           r == h.req
           c == CallOf(s)
           n == Len(CallsOf[r])
<1>0. /\ h # Idle /\ r \in Requests /\ Step(s) /\ c = CallsOf[r][h.pc] /\ h.pc \in 1..n
      /\ OutlineAt(r, h.pc, h.held, h.group) /\ h.held \in Seq(HeldRow) /\ Fits(r, c)
  BY Here DEF Works, On
<1>1. /\ CallsOf[r][1].do = "First" /\ CallsOf[r][1].table = "apply"
      /\ r.op # "PassContactApply" => n = 2 /\ CallsOf[r][2].do = "Save"
      /\ r.op = "PassContactApply" =>
           /\ n = 6 /\ CallsOf[r][2].do \in {"FindUser", "FindGroup"} /\ CallsOf[r][3].do = "Save"
           /\ CallsOf[r][4].do = "Insert" /\ CallsOf[r][5].do \in {"Insert", "SaveGroup"} /\ CallsOf[r][6].do = "Forget"
  BY <1>0, AnswerShape
<1>2. run'[s].req = r /\ run'[s].pc \in 1..n /\ r.op # "ApplyContact"  BY <1>0, FieldsKept DEF Answering
<1>3. run'[s].pc = h.pc + 1 /\ h.pc \in Int
  <2>1. c.do \notin {"FirstOr", "SaveUser", "EachFound", "EachGroup", "EachUser"}
    <3>1. CASE r.op # "PassContactApply"
      <4>1. h.pc \in {1, 2}  BY <1>0, <1>1, <3>1
      <4> QED  BY <1>0, <1>1, <3>1, <4>1
    <3>2. CASE r.op = "PassContactApply"
      <4>1. h.pc \in {1, 2, 3, 4, 5, 6}  BY <1>0, <1>1, <3>2
      <4> QED  BY <1>0, <1>1, <3>2, <4>1
    <3> QED  BY <3>1, <3>2
  <2> QED  BY <1>0, <2>1, FieldsKept
<1>4. CASE h.pc = 1
  <2>1. c.do = "First" /\ c.table = "apply"  BY <1>0, <1>1, <1>4
  <2>2. Len(h.held) = 0  BY <1>0, <1>4 DEF OutlineAt, HoldsOK, AllOf, Answering
  <2> HIDE DEF c
  <2>3. rows' = rows /\ Taken(s, c, h, 1)  BY <1>0, <2>1, FirstTakes DEF c
  <2> DEFINE e == run'[s].held[1]
  <2>4. rows["apply"][e.id] = e.row /\ e.row.live  BY <1>0, <2>1, <2>2, <2>3, TakenRow
  <2> QED  BY <1>2, <2>3, <2>4 DEF SameInHand
<1>5. CASE h.pc = 2 /\ r.op = "PassContactApply"
  <2>1. c.do \in {"FindUser", "FindGroup"}  BY <1>0, <1>1, <1>5
  <2>2. rows' = rows /\ run'[s].held = h.held  BY <1>0, <2>1, FieldsKept, Leaves DEF Changing
  <2>3. SameInHand(h, y)  BY DEF ApplyOK, Works
  <2>4. Holding(h)  BY <1>5 DEF Holding
  <2> QED  BY <1>2, <2>2, <2>3, <2>4 DEF SameInHand
<1>6. CASE h.pc # 1 /\ ~(h.pc = 2 /\ r.op = "PassContactApply")
  <2>1. ~Holding(run[s])'
    <3>1. CASE r.op # "PassContactApply"
      <4>1. h.pc \in {1, 2}  BY <1>0, <1>1, <3>1
      <4>2. run'[s].pc = 3 /\ n = 2  BY <1>1, <1>3, <1>6, <3>1, <4>1
      <4> QED  BY <1>2, <4>2
    <3>2. CASE r.op = "PassContactApply"
      <4>1. run'[s].pc \notin {2, 3}  BY <1>0, <1>3, <1>6, <3>2
      <4> QED  BY <1>2, <3>2, <4>1 DEF Holding
    <3> QED  BY <3>1, <3>2
  <2> QED  BY <2>1 DEF SameInHand
<1> QED  BY <1>4, <1>5, <1>6

LEMMA WorksApply ==
  ASSUME Typed, NEW y, ApplyOK(y), NEW s \in Slots, Works(s, y)
  PROVE  ApplyOK(y)'
<1>0. Step(s) /\ \A t \in Slots : t # s => ~On(t, y)'  BY DEF Works
<1>1. ASSUME run'[s] # Idle  PROVE FoundNone(run[s], y)' /\ SameInHand(run[s], y)'
  <2>0. run'[s].req = run[s].req  BY <1>0, <1>1, FieldsKept
  <2>1. CASE run[s].req.op = "ApplyContact"  BY <1>1, <2>1, ApplyContactHand
  <2>2. CASE run[s].req.op \in Answering
    <3>1. run[s].req.op # "ApplyContact"  BY <2>2 DEF Answering
    <3> QED  BY <1>1, <2>0, <2>2, <3>1, AnswerHand DEF FoundNone
  <2>3. CASE run[s].req.op \notin Answering \cup {"ApplyContact"}
    BY <2>0, <2>3 DEF FoundNone, SameInHand, Holding, Answering
  <2> QED  BY <2>1, <2>2, <2>3
<1>2. NoTwins("apply", y)'  BY WorksNoTwins
<1> QED  BY <1>0, <1>1, <1>2 DEF ApplyOK, On

LEMMA ApplyStep ==
  ASSUME Typed, Apart, [Next]_vars, NEW y, y \notin disturbed', ApplyOK(y)
  PROVE  ApplyOK(y)'
BY StepAbout, ElsewhereApply, BeginsApply, WorksApply

AppliesOK == \A u \in Users, x \in Ids : Between(u, x) \notin disturbed => ApplyOK(Between(u, x))

LEMMA InitRows == Init => \A t \in Tables : Len(rows[t]) = 0 /\ \A y : NoTwins(t, y)
BY DEF Init, NoTwins

LEMMA InitApplies == Init => AppliesOK
<1> SUFFICES ASSUME Init, NEW u \in Users, NEW x \in Ids  PROVE ApplyOK(Between(u, x))
  BY DEF AppliesOK
<1>1. \A s \in Slots : ~On(s, Between(u, x))  BY DEF Init, On
<1>2. NoTwins("apply", Between(u, x))  BY InitRows, TablesAre
<1> QED  BY <1>1, <1>2 DEF ApplyOK

LEMMA AppliesStep == Typed /\ Apart /\ AppliesOK /\ [Next]_vars => AppliesOK'
<1> SUFFICES ASSUME Typed, Apart, AppliesOK, [Next]_vars, NEW u \in Users, NEW x \in Ids, Between(u, x) \notin disturbed'
             PROVE  ApplyOK(Between(u, x))'
  BY DEF AppliesOK
<1> DEFINE y == Between(u, x)
<1>1. y \notin disturbed /\ y \notin disturbed'  BY DisturbedGrows
<1>2. ApplyOK(y)  BY <1>1 DEF AppliesOK
<1> HIDE DEF y
<1>3. ApplyOK(y)'  BY <1>1, <1>2, ApplyStep
<1> QED  BY <1>3 DEF y

LEMMA AlwaysApplies == Spec => [](Typed /\ Apart /\ AppliesOK)
<1>1. Init => Apart  BY DEF Init, Apart
<1> QED  BY <1>1, InitTyped, TypedStep, ApartStep, InitApplies, AppliesStep, PTL DEF Spec

\* An application that is blacklisted is not made pending by any call.
LEMMA BlackStep ==
  ASSUME Typed, AppliesOK, NEW s \in Slots, Step(s), NEW i \in 1..Len(rows["apply"]), rows["apply"][i].status = "BLACK",
         Between(rows["apply"][i].user, rows["apply"][i].to) \notin disturbed
  PROVE  rows'["apply"][i].status # "PENDING"
<1> DEFINE r == rows["apply"][i]
           y == Between(r.user, r.to)
           h == run[s]
           c == CallOf(s)
<1>0. h # Idle /\ h.req \in Requests /\ RowCall(h.req, c) /\ "apply" \in Tables  BY StepLeaves, Here, TablesAre DEF Fits
<1>1. i \in 1..Len(rows'["apply"]) /\ rows["apply"][i] \in Row
  <2>1. Grown(rows, rows')  BY StepIsTyped DEF StepTyped, RowsFrame
  <2> QED  BY <2>1, TablesAre, TypedRow DEF Grown
<1>2. RowEvent(s, "apply", i)  BY <1>0, <1>1, RowEvents
<1>3. CASE SameRow("apply", i)  BY <1>3 DEF SameRow
<1>4. CASE HiddenRow("apply", i)  BY <1>4 DEF HiddenRow
<1>5. CASE NewRow(s, "apply", i)
  <2>1. Len(rows["apply"]) \in Nat  BY <1>0 DEF Typed
  <2> QED  BY <1>5, <2>1 DEF NewRow
<1>6. CASE SavedRow(s, "apply", i)
  <2>1. c.do = "Save" /\ c.table = "apply" /\ i = h.held[1].id /\ InHand(s, "apply", i)
        /\ rows'["apply"][i] = Put(h.held[1].row, c.status, TRUE)
    BY <1>6 DEF SavedRow, InHand
  <2>2. /\ Holding(h) /\ h.req.op \in Answering \cup {"ApplyContact"}
        /\ h.req.op \in Answering => c.status \in {{"AGREE"}, {"REFUSE"}, {"BLACK"}}
        /\ h.req.op = "ApplyContact" /\ h.req.contact \in Users => c.status = {"PENDING"}
        /\ h.req.op = "ApplyContact" /\ h.req.contact \notin Users => c.status = {}
    BY <2>1, SavesHolding
  <2> DEFINE e == h.held[1]
  <2>3. /\ rows["apply"][e.id].user = e.row.user /\ rows["apply"][e.id].to = e.row.to /\ e.row \in Row
        /\ Copies(h.req, e, rows) /\ e.table = "apply"
    BY <1>0, <2>2, HoldsOne
  <2> HIDE DEF e
  <2>4. Topic("apply", e.row.user, e.row.to) = y /\ e.row.user \in Users /\ e.row.to \in Ids
    BY <2>1, <2>3 DEF Topic, e, Row
  <2>5. y \in AboutOf[h.req]  BY <2>3, <2>4 DEF Copies, RowTopic
  <2>6. On(s, y)  BY <1>0, <2>5 DEF On
  <2>7. ApplyOK(y)
    <3>1. y = Between(e.row.user, e.row.to)  BY <2>4 DEF Topic
    <3> HIDE DEF y
    <3>2. Between(e.row.user, e.row.to) \notin disturbed  BY <3>1 DEF y
    <3> QED  BY <2>4, <3>1, <3>2 DEF AppliesOK
  <2>8. rows["apply"][e.id] = e.row /\ (h.req.op = "ApplyContact" /\ h.req.contact \in Users => e.row.status # "BLACK")
    BY <2>2, <2>4, <2>6, <2>7 DEF ApplyOK, SameInHand, e
  <2>9. e.row.status = "BLACK" /\ rows'["apply"][i] = Put(e.row, c.status, TRUE)  BY <2>1, <2>8 DEF e
  <2> DEFINE new == Put(e.row, c.status, TRUE)
  <2>10. NewStatus(c.status)  BY <1>0, <2>1 DEF RowCall
  <2>11. new.status = IF c.status = {} THEN "BLACK" ELSE CHOOSE x \in c.status : TRUE
    BY <2>3, <2>9, <2>10, PutKeeps
  <2> HIDE DEF new, c
  <2>12. c.status = {} \/ c.status \in {{"AGREE"}, {"REFUSE"}, {"BLACK"}}  BY <2>2, <2>8, <2>9
  <2>13. \A v : (CHOOSE x \in {v} : TRUE) = v  OBVIOUS
  <2>14. new.status # "PENDING"
    <3>1. CASE c.status = {}  BY <2>11, <3>1
    <3>2. CASE c.status = {"AGREE"}  BY <2>11, <2>13, <3>2
    <3>3. CASE c.status = {"REFUSE"}  BY <2>11, <2>13, <3>3
    <3>4. CASE c.status = {"BLACK"}  BY <2>11, <2>13, <3>4
    <3> QED  BY <2>12, <3>1, <3>2, <3>3, <3>4
  <2> QED  BY <2>9, <2>14 DEF new
<1>7. CASE CopiedRow(s, "apply", i)  BY <1>7 DEF CopiedRow
<1>8. CASE BlackRow(s, "apply", i)  BY <1>8 DEF BlackRow
<1> QED  BY <1>2, <1>3, <1>4, <1>5, <1>6, <1>7, <1>8 DEF RowEvent

\* However often the applicant applies, an application that was blacklisted is not
\* made pending again by any step, unless requests about the two overlapped or failed:
\* ApplyContact has found another status in the row that it writes back.
THEOREM BlackStays == Spec => BlackStaysBlack
<1> DEFINE Step1 == \A i \in DOMAIN rows["apply"] :
       LET r == rows["apply"][i]
       IN  r.status = "BLACK" /\ Between(r.user, r.to) \notin disturbed => rows'["apply"][i].status # "PENDING"
<1>1. Typed /\ Apart /\ AppliesOK /\ [Next]_vars => [Step1]_vars
  <2> SUFFICES ASSUME Typed, AppliesOK, Next, NEW i \in DOMAIN rows["apply"], rows["apply"][i].status = "BLACK",
                      Between(rows["apply"][i].user, rows["apply"][i].to) \notin disturbed
               PROVE  rows'["apply"][i].status # "PENDING"
    OBVIOUS
  <2>0. i \in 1..Len(rows["apply"])  BY TablesAre DEF Typed
  <2>1. ASSUME NEW s \in Slots, Step(s)  PROVE rows'["apply"][i].status # "PENDING"  BY <2>0, <2>1, BlackStep
  <2>2. ASSUME NEW s \in Slots, Submit(s) \/ Fault(s)  PROVE rows' = rows  BY <2>2 DEF Submit, Fault, tables
  <2>3. ASSUME NEW e \in cache, Expire(e)  PROVE rows' = rows  BY <2>3 DEF Expire, tables
  <2> QED  BY <2>1, <2>2, <2>3 DEF Next
<1>2. [][Step1]_vars <=> BlackStaysBlack  BY PTL DEF BlackStaysBlack
<1> QED  BY <1>1, <1>2, AlwaysApplies, PTL DEF Spec

-----------------------------------------------------------------------------
(* One session of a user with a contact: who is about to put one in has found *)
(* none, and the sessions of a group that are written back are as they were.  *)
NoSession(h, y) ==
  h.req.op = "OpenSession" /\ h.pc \in {2, 3, 4} /\ Topic("session", h.req.owner, h.req.contact) = y =>
    NoneYet("session", h.req.owner, h.req.contact)

SameFound(h, y) ==
  h.req.op = "UpdateGroupInfo" /\ h.pc = 4 => \A n \in 1..Len(h.held) :
    Topic("session", h.held[n].row.user, h.held[n].row.to) = y =>
      rows["session"][h.held[n].id] = h.held[n].row /\ h.held[n].row.live

SessionOK(y) ==
  /\ NoTwins("session", y)
  /\ \A s \in Slots : On(s, y) => NoSession(run[s], y) /\ SameFound(run[s], y)

LEMMA OpenShape ==
  ASSUME NEW r \in Requests, NEW c, c = CallsOf[r], r.op = "OpenSession"
  PROVE  /\ Len(c) = 6 /\ r.owner \in Users /\ r.contact \in Ids
         /\ c[1].do = "IfNone" /\ c[1].table = "session" /\ c[1].user = r.owner /\ c[1].to = r.contact
         /\ c[2].do = "FirstUser" /\ c[2].who = r.owner
         /\ r.contact \in Users => c[3].do = "FirstUser" /\ c[3].who = r.contact /\ c[3].among = {"NORMAL"}
         /\ r.contact \notin Users => c[3].do = "FirstGroup" /\ c[3].group = r.contact
         /\ c[4].do = "Insert" /\ c[4].table = "session" /\ c[4].user = r.owner /\ c[4].to = r.contact
         /\ c[5].do = "Forget" /\ c[6].do = "Forget"
<1> DEFINE x1 == IfNone("session", r.owner, r.contact)
           x2 == FirstUser(r.owner, UserSts)
           y3 == FirstUser(r.contact, {"NORMAL"})
           z3 == FirstGroup(r.contact, {"NORMAL"})
           x3 == IF r.contact \in Users THEN y3 ELSE z3
           x4 == Insert("session", r.owner, r.contact, "OPEN")
           x5 == Forget("group_session_list_", r.owner)
           x6 == Forget("session_list_", r.owner)
<1>1. /\ x1.do = "IfNone" /\ x1.table = "session" /\ x1.user = r.owner /\ x1.to = r.contact
      /\ x2.do = "FirstUser" /\ x2.who = r.owner
      /\ y3.do = "FirstUser" /\ y3.who = r.contact /\ y3.among = {"NORMAL"}
      /\ z3.do = "FirstGroup" /\ z3.group = r.contact
  BY DEF IfNone, FirstUser, FirstGroup
<1>2. /\ x4.do = "Insert" /\ x4.table = "session" /\ x4.user = r.owner /\ x4.to = r.contact
      /\ x5.do = "Forget" /\ x6.do = "Forget"
  BY DEF Insert, Forget
<1>3. c = << x1, x2, x3, x4, x5, x6 >>  BY OpenSessionCalls
<1>4. r.owner \in Users /\ r.contact \in Ids  BY OpenSessionCalls DEF Ids
<1>5. (r.contact \in Users => x3 = y3) /\ (r.contact \notin Users => x3 = z3)  OBVIOUS
<1> HIDE DEF x1, x2, x3, y3, z3, x4, x5, x6
<1>6. Len(c) = 6 /\ c[1] = x1 /\ c[2] = x2 /\ c[3] = x3 /\ c[4] = x4 /\ c[5] = x5 /\ c[6] = x6
  BY <1>3, SixCalls
<1> QED  BY <1>1, <1>2, <1>4, <1>5, <1>6

LEMMA UpdateShape ==
  ASSUME NEW r \in Requests, NEW c, c = CallsOf[r], r.op = "UpdateGroupInfo"
  PROVE  /\ Len(c) = 4 /\ r.contact \in Groups
         /\ c[1].do = "FirstGroup" /\ c[1].group = r.contact /\ c[2].do = "SaveGroup" /\ c[2].how = "same"
         /\ c[3].do = "Find" /\ c[3].table = "session"
         /\ c[4].do = "EachFound" /\ c[4].table = "session" /\ c[4].how = "save"
<1> DEFINE x1 == FirstGroup(r.contact, GroupSts)
           x2 == SaveGroup("same", OwnerOf[r.contact])
           x3 == Find("session", Users, r.contact)
           x4 == EachFound("session", "save")
<1>1. /\ x1.do = "FirstGroup" /\ x1.group = r.contact /\ x2.do = "SaveGroup" /\ x2.how = "same"
      /\ x3.do = "Find" /\ x3.table = "session"
      /\ x4.do = "EachFound" /\ x4.table = "session" /\ x4.how = "save"
  BY DEF FirstGroup, SaveGroup, Find, EachFound
<1>2. c = << x1, x2, x3, x4 >> /\ r.contact \in Groups  BY UpdateGroupInfoCalls DEF UpdateGroupInfo
<1> HIDE DEF x1, x2, x3, x4
<1>3. Len(c) = 4 /\ c[1] = x1 /\ c[2] = x2 /\ c[3] = x3 /\ c[4] = x4  BY <1>2, FourCalls
<1> QED  BY <1>1, <1>2, <1>3

LEMMA BeginsSession ==
  ASSUME Typed, NEW y, SessionOK(y), NEW s \in Slots, Begins(s, y)
  PROVE  SessionOK(y)'
<1>1. rows' = rows  BY DEF Begins, tables
<1>2. NoTwins("session", y)'  BY <1>1 DEF SessionOK, NoTwins, LiveRow, HasTopic
<1>3. run'[s].pc = 1  BY DEF Begins, NewHandler
<1>4. NoSession(run[s], y)' /\ SameFound(run[s], y)'  BY <1>3 DEF NoSession, SameFound
<1>5. \A t \in Slots : t # s => ~On(t, y)'  BY DEF Begins
<1> QED  BY <1>2, <1>4, <1>5 DEF SessionOK

LEMMA ElsewhereSession ==
  ASSUME Typed, NEW y, SessionOK(y), Elsewhere(y)
  PROVE  SessionOK(y)'
<1>0. "session" \in Tables  BY TablesAre
<1>1. NoTwins("session", y)'  BY <1>0, ElsewhereNoTwins DEF SessionOK
<1> SUFFICES ASSUME NEW s \in Slots, On(s, y)'  PROVE NoSession(run[s], y)' /\ SameFound(run[s], y)'
  BY <1>1 DEF SessionOK
<1>2. On(s, y) /\ run'[s] = run[s]  BY DEF Elsewhere
<1>3. NoSession(run[s], y) /\ SameFound(run[s], y) /\ run[s] # Idle  BY <1>2 DEF SessionOK, On
<1>4. NoSession(run[s], y)'
  <2> SUFFICES ASSUME run[s].req.op = "OpenSession", run[s].pc \in {2, 3, 4},
                      Topic("session", run[s].req.owner, run[s].req.contact) = y
               PROVE  (\A i \in 1..Len(rows'["session"]) : rows'["session"][i].live =>
                        rows'["session"][i].user # run[s].req.owner \/ rows'["session"][i].to # run[s].req.contact)
    BY <1>2 DEF NoSession, NoneYet, LiveRow
  <2>1. NoneYet("session", run[s].req.owner, run[s].req.contact)  BY <1>3 DEF NoSession
  <2>2. \A u, x : Topic("session", u, x) = y /\ NoneYet("session", u, x) => NoneYet("session", u, x)'
    BY <1>0, ElsewhereNone
  <2> QED  BY <2>1, <2>2 DEF NoneYet, LiveRow
<1>5. SameFound(run[s], y)'
  <2> SUFFICES ASSUME run[s].req.op = "UpdateGroupInfo", run[s].pc = 4, NEW n \in 1..Len(run[s].held),
                      Topic("session", run[s].held[n].row.user, run[s].held[n].row.to) = y
               PROVE  rows'["session"][run[s].held[n].id] = rows["session"][run[s].held[n].id]
    BY <1>2, <1>3 DEF SameFound
  <2> DEFINE e == run[s].held[n]
  <2>1. e.table = "session" /\ Copies(run[s].req, e, rows)
    <3>1. run[s].req \in Requests /\ OutlineAt(run[s].req, run[s].pc, run[s].held, run[s].group)
          /\ HeldIn(run[s].req, run[s].held, rows)
      BY <1>3, Here
    <3>2. CallsOf[run[s].req][4].do = "EachFound" /\ CallsOf[run[s].req][4].table = "session"  BY <3>1, UpdateShape
    <3> QED  BY <3>1, <3>2 DEF OutlineAt, HeldIn
  <2> HIDE DEF e
  <2>2. e.id \in 1..Len(rows["session"]) /\ rows["session"][e.id].user = e.row.user /\ rows["session"][e.id].to = e.row.to
    BY <2>1 DEF Copies
  <2>3. /\ Grown(rows, rows')
        /\ \A i \in 1..Len(rows'["session"]) :
             Topic("session", rows'["session"][i].user, rows'["session"][i].to) = y => rows'["session"][i] = rows["session"][i]
    BY <1>0 DEF Elsewhere
  <2>4. e.id \in 1..Len(rows'["session"]) /\ rows'["session"][e.id].user = e.row.user /\ rows'["session"][e.id].to = e.row.to
    BY <2>2, <2>3, <1>0 DEF Grown
  <2> QED  BY <2>3, <2>4 DEF e
<1> QED  BY <1>4, <1>5

LEMMA OpenHand ==
  ASSUME Typed, NEW y, SessionOK(y), NEW s \in Slots, Works(s, y), run[s].req.op = "OpenSession", run'[s] # Idle
  PROVE  NoSession(run[s], y)'
<1> DEFINE h == run[s]
           r == h.req
           c == CallOf(s)
<1>0. /\ h # Idle /\ r \in Requests /\ Step(s) /\ c = CallsOf[r][h.pc] /\ h.pc \in 1..Len(CallsOf[r]) /\ DOMAIN run = Slots
  BY Here DEF Works, On
<1>1. /\ Len(CallsOf[r]) = 6
      /\ CallsOf[r][1].do = "IfNone" /\ CallsOf[r][1].table = "session"
      /\ CallsOf[r][1].user = r.owner /\ CallsOf[r][1].to = r.contact
      /\ CallsOf[r][2].do = "FirstUser" /\ CallsOf[r][3].do \in {"FirstUser", "FirstGroup"}
      /\ CallsOf[r][4].do = "Insert" /\ CallsOf[r][5].do = "Forget" /\ CallsOf[r][6].do = "Forget"
  BY <1>0, OpenShape
<1>2. run'[s].req = r  BY <1>0, FieldsKept
<1>3. h.pc \in {1, 2, 3, 4, 5, 6}  BY <1>0, <1>1
<1>4. c.do \notin {"FirstOr", "SaveUser", "EachFound", "EachGroup", "EachUser"}  BY <1>0, <1>1, <1>3
<1>5. run'[s].pc = h.pc + 1  BY <1>0, <1>4, FieldsKept
<1> SUFFICES ASSUME run'[s].pc \in {2, 3, 4}, Topic("session", r.owner, r.contact) = y
             PROVE  (\A i \in 1..Len(rows'["session"]) : rows'["session"][i].live =>
                       rows'["session"][i].user # r.owner \/ rows'["session"][i].to # r.contact)
  BY <1>2 DEF NoSession, NoneYet, LiveRow
<1>6. h.pc \in {1, 2, 3}  BY <1>3, <1>5
<1>7. c.do \in {"IfNone", "FirstUser", "FirstGroup"}  BY <1>0, <1>1, <1>6
<1>8. rows' = rows  BY <1>0, <1>7, Leaves
<1>9. NoneYet("session", r.owner, r.contact)
  <2>1. CASE h.pc \in {2, 3}
    <3>1. NoSession(h, y)  BY DEF SessionOK, Works
    <3> QED  BY <2>1, <3>1 DEF NoSession
  <2>2. CASE h.pc = 1
    <3>1. c.do = "IfNone" /\ c.table = "session" /\ c.user = r.owner /\ c.to = r.contact  BY <1>0, <1>1, <2>2
    <3>2. ~Return(s)  BY <1>0, Returns
    <3>3. FindSession(s)  BY <1>0, <3>1, ActionOf
    <3>4. Matching(c) = {}  BY <3>2, <3>3 DEF FindSession
    <3>5. DOMAIN rows["session"] = 1..Len(rows["session"])  BY TablesAre DEF Typed
    <3> HIDE DEF c
    <3> QED  BY <3>1, <3>4, <3>5 DEF NoneYet, LiveRow, Matching, LiveRows
  <2> QED  BY <1>6, <2>1, <2>2
<1> QED  BY <1>8, <1>9 DEF NoneYet, LiveRow

LEMMA UpdateHand ==
  ASSUME Typed, NEW y, SessionOK(y), NEW s \in Slots, Works(s, y), run[s].req.op = "UpdateGroupInfo", run'[s] # Idle
  PROVE  SameFound(run[s], y)'
<1> DEFINE h == run[s]
           r == h.req
           c == CallOf(s)
<1>0. /\ h # Idle /\ r \in Requests /\ Step(s) /\ c = CallsOf[r][h.pc] /\ h.pc \in 1..Len(CallsOf[r])
      /\ HeldIn(r, h.held, rows) /\ OutlineAt(r, h.pc, h.held, h.group) /\ h.held \in Seq(HeldRow) /\ RowCall(r, c)
      /\ "session" \in Tables
  BY Here, TablesAre DEF Works, On, Fits
<1>1. /\ Len(CallsOf[r]) = 4
      /\ CallsOf[r][1].do = "FirstGroup" /\ CallsOf[r][2].do = "SaveGroup"
      /\ CallsOf[r][3].do = "Find" /\ CallsOf[r][3].table = "session"
      /\ CallsOf[r][4].do = "EachFound" /\ CallsOf[r][4].table = "session" /\ CallsOf[r][4].how = "save"
  BY <1>0, UpdateShape
<1>2. run'[s].req = r /\ run'[s].pc \in 1..4  BY <1>0, <1>1, FieldsKept
<1>3. h.pc \in {1, 2, 3, 4}  BY <1>0, <1>1
<1> SUFFICES ASSUME run'[s].pc = 4, NEW n \in 1..Len(run'[s].held),
                    Topic("session", run'[s].held[n].row.user, run'[s].held[n].row.to) = y
             PROVE  rows'["session"][run'[s].held[n].id] = run'[s].held[n].row /\ run'[s].held[n].row.live
  BY DEF SameFound
<1>4. CASE h.pc \in {1, 2}
  <2>1. c.do \in {"FirstGroup", "SaveGroup"}  BY <1>0, <1>1, <1>4
  <2>2. run'[s].pc = h.pc + 1  BY <1>0, <2>1, FieldsKept
  <2> QED  BY <1>4, <2>2
<1>5. CASE h.pc = 3
  <2>1. c.do = "Find" /\ c.table = "session"  BY <1>0, <1>1, <1>5
  <2>2. run'[s].held = FoundList(c) /\ rows' = rows  BY <1>0, <2>1, FindTakes, Leaves
  <2> HIDE DEF c
  <2> DEFINE q == FoundList(c)
  <2>3. \A k \in 1..Len(q) : q[k].id \in FoundBy(c) /\ q[k].row = rows["session"][q[k].id]
    <3>1. c.table \in Tables /\ c.do \in {"Find", "FindEither"} /\ q = FoundList(c)  BY <1>0, <2>1
    <3>2. RowCall(r, c)  BY <1>0
    <3> HIDE DEF q, r, h
    <3>3. \A k \in 1..Len(q) : q[k].table = c.table /\ q[k].id \in FoundBy(c) /\ q[k].row = rows[c.table][q[k].id]
      BY <3>1, <3>2, FoundListHolds
    <3> QED  BY <2>1, <3>3
  <2>4. \A i \in FoundBy(c) : rows["session"][i].live
    <3>1. c.table \in Tables /\ c.do \in {"Find", "FindEither"} /\ RowCall(r, c)  BY <1>0, <2>1
    <3> HIDE DEF q, r, h
    <3>2. \A i \in FoundBy(c) : rows[c.table][i].live  BY <3>1, FoundRows
    <3> QED  BY <2>1, <3>2
  <2> HIDE DEF q
  <2> QED  BY <2>2, <2>3, <2>4 DEF q
<1>6. CASE h.pc = 4
  <2>1. c.do = "EachFound" /\ c.table = "session" /\ c.how = "save"  BY <1>0, <1>1, <1>6
  <2>2. h.held # <<>> /\ run'[s].held = Tail(h.held)
    <3>1. \/ h.held = <<>> /\ run'[s].pc = h.pc + 1
          \/ h.held # <<>> /\ run'[s].held = Tail(h.held)
      BY <1>0, <2>1, EachTakes
    <3> QED  BY <1>6, <3>1
  <2>3. /\ Len(Tail(h.held)) = Len(h.held) - 1 /\ Len(h.held) \in Nat /\ Len(h.held) >= 1
        /\ \A k \in 1..Len(h.held) - 1 : Tail(h.held)[k] = h.held[k + 1]
        /\ Head(h.held) = h.held[1]
    BY <1>0, <2>2, TailProperty
  <2>4. SameFound(h, y)  BY DEF SessionOK, Works
  <2> DEFINE e == h.held[1]
             f == h.held[n + 1]
             new == e.row
  <2>5. n + 1 \in 1..Len(h.held) /\ 1 \in 1..Len(h.held) /\ run'[s].held[n] = f  BY <2>2, <2>3
  <2>6. rows["session"][f.id] = f.row /\ f.row.live  BY <1>6, <2>4, <2>5 DEF SameFound
  <2>7. /\ e.table = "session" /\ f.table = "session" /\ Copies(r, e, rows) /\ Copies(r, f, rows)
    BY <1>0, <2>1, <2>5 DEF OutlineAt, HeldIn
  <2>8. /\ e.id \in 1..Len(rows["session"]) /\ f.id \in 1..Len(rows["session"])
        /\ rows["session"][e.id].user = e.row.user /\ rows["session"][e.id].to = e.row.to
    BY <2>7 DEF Copies
  <2>9. rows' = [rows EXCEPT ![c.table][e.id] = new] /\ c.table \in Tables /\ e.id \in 1..Len(rows[c.table])
    <3>1. EachRow(s)  BY <1>0, <2>1, ActionOf
    <3> QED  BY <1>0, <2>1, <2>2, <2>3, <2>8, <3>1 DEF EachRow
  <2>10. f.id = e.id => rows["session"][e.id] = e.row
    <3>1. SUFFICES ASSUME f.id = e.id  PROVE rows["session"][e.id] = e.row  OBVIOUS
    <3>2. e.row.user = f.row.user /\ e.row.to = f.row.to  BY <2>6, <2>8, <3>1
    <3>3. Topic("session", e.row.user, e.row.to) = y  BY <2>5, <3>2
    <3> QED  BY <1>6, <2>4, <2>5, <3>3 DEF SameFound
  <2> HIDE DEF new, e, f, c
  <2>13. c.table \in Tables /\ e.id \in 1..Len(rows[c.table]) /\ c.table = "session"  BY <2>1, <2>9
  <2>14. rows' = [rows EXCEPT ![c.table][e.id] = new]  BY <2>9
  <2> DEFINE t == c.table
             m == e.id
  <2>18. t \in Tables /\ m \in 1..Len(rows[t]) /\ rows' = [rows EXCEPT ![t][m] = new]  BY <2>13, <2>14
  <2> HIDE DEF h, r, t, m
  <2>19. rows'[t][m] = new  BY <2>18, WrittenRow
  <2>20. \A x \in Tables : Len(rows'[x]) = Len(rows[x])  BY <2>18, WrittenRow
  <2>21. \A x \in Tables : \A k \in 1..Len(rows'[x]) : SameRow(x, k) \/ (x = t /\ k = m)  BY <2>18, WrittenRow
  <2>15. rows'[c.table][e.id] = new  BY <2>19 DEF t, m
  <2>16. \A x \in Tables : Len(rows'[x]) = Len(rows[x])  BY <2>20
  <2>17. ASSUME NEW i \in 1..Len(rows'[c.table])  PROVE SameRow(c.table, i) \/ i = e.id
    <3> QED  BY <2>13, <2>21 DEF t, m
  <2>11. /\ rows'["session"][e.id] = e.row /\ Len(rows'["session"]) = Len(rows["session"])
         /\ \A i \in 1..Len(rows'["session"]) : SameRow("session", i) \/ i = e.id
    BY <2>13, <2>15, <2>16, <2>17 DEF new
  <2>12. rows'["session"][f.id] = f.row
    <3>1. CASE f.id = e.id  BY <2>6, <2>10, <2>11, <3>1
    <3>2. CASE f.id # e.id
      <4>1. SameRow("session", f.id)  BY <2>8, <2>11, <3>2
      <4> QED  BY <2>6, <4>1 DEF SameRow
    <3> QED  BY <3>1, <3>2
  <2> QED  BY <2>5, <2>6, <2>12
<1> QED  BY <1>3, <1>4, <1>5, <1>6

\* A row that was live before.
Came(t, i) == LiveRow(t, i) /\ rows'[t][i].user = rows[t][i].user /\ rows'[t][i].to = rows[t][i].to

\* Where the live sessions with a topic come from.
LEMMA SessionRows ==
  ASSUME Typed, NEW y, SessionOK(y), NEW s \in Slots, Works(s, y),
         NEW i \in 1..Len(rows'["session"]), rows'["session"][i].live, HasTopic("session", i, y)'
  PROVE  Came("session", i) \/ NewRow(s, "session", i)
<1> DEFINE h == run[s]
           r == h.req
           c == CallOf(s)
<1>0. /\ h # Idle /\ r \in Requests /\ Step(s) /\ c = CallsOf[r][h.pc] /\ h.pc \in 1..Len(CallsOf[r]) /\ RowCall(r, c)
      /\ "session" \in Tables
  BY Here, TablesAre DEF Works, On, Fits
<1>1. NoTwins("session", y) /\ NoSession(h, y) /\ SameFound(h, y)  BY DEF SessionOK, Works
<1>11. ~SavedRow(s, "session", i)  BY <1>0 DEF RowCall, SavedRow
<1>12. CASE i \in 1..Len(rows["session"]) /\ rows'["session"][i].user = rows["session"][i].user
           /\ rows'["session"][i].to = rows["session"][i].to /\ CopiedRow(s, "session", i)
  <2>1. c.do = "EachFound" /\ r.op = "UpdateGroupInfo" /\ h.held # <<>> /\ i = h.held[1].id
    BY <1>12 DEF CopiedRow, InHand
  <2>2. h.pc = 4
    <3>1. /\ Len(CallsOf[r]) = 4 /\ CallsOf[r][1].do = "FirstGroup" /\ CallsOf[r][2].do = "SaveGroup"
          /\ CallsOf[r][3].do = "Find"
      BY <1>0, <2>1, UpdateShape
    <3>2. h.pc \in {1, 2, 3, 4}  BY <1>0, <3>1
    <3> QED  BY <1>0, <2>1, <3>1, <3>2
  <2> DEFINE e == h.held[1]
  <2>3. 1 \in 1..Len(h.held)
    <3>1. h.held \in Seq(HeldRow)  BY <1>0, Here
    <3> QED  BY <2>1, <3>1, TailProperty
  <2>4. rows["session"][i].user = e.row.user /\ rows["session"][i].to = e.row.to
    BY <1>12 DEF CopiedRow, InHand, Copies
  <2>5. Topic("session", e.row.user, e.row.to) = y  BY <1>12, <2>4 DEF HasTopic
  <2>6. rows["session"][e.id] = e.row /\ e.row.live  BY <1>1, <2>1, <2>2, <2>3, <2>5 DEF SameFound
  <2> QED  BY <1>12, <2>1, <2>6 DEF LiveRow, Came
<1>13. \/ Came("session", i) \/ NewRow(s, "session", i)
       \/ i \in 1..Len(rows["session"]) /\ rows'["session"][i].user = rows["session"][i].user
           /\ rows'["session"][i].to = rows["session"][i].to /\ CopiedRow(s, "session", i)
  BY <1>0, <1>11, LiveEvents DEF Came
<1> QED  BY <1>12, <1>13

\* A session is put in by OpenSession, at its fourth call.
LEMMA PuttingSession ==
  ASSUME Typed, NEW s \in Slots, Step(s), CallOf(s).do = "Insert", CallOf(s).table = "session"
  PROVE  /\ run[s].req.op = "OpenSession" /\ run[s].pc = 4
         /\ CallOf(s).user = run[s].req.owner /\ CallOf(s).to = run[s].req.contact
<1> DEFINE h == run[s]
           r == h.req
           c == CallOf(s)
<1>0. r \in Requests /\ c = CallsOf[r][h.pc] /\ h.pc \in 1..Len(CallsOf[r]) /\ RowCall(r, c)
  BY StepLeaves, Here DEF Fits
<1>1. r.op = "OpenSession"  BY <1>0 DEF RowCall
<1>2. /\ Len(CallsOf[r]) = 6 /\ CallsOf[r][1].do = "IfNone" /\ CallsOf[r][2].do = "FirstUser"
      /\ CallsOf[r][3].do \in {"FirstUser", "FirstGroup"}
      /\ CallsOf[r][4].user = r.owner /\ CallsOf[r][4].to = r.contact
      /\ CallsOf[r][5].do = "Forget" /\ CallsOf[r][6].do = "Forget"
  BY <1>0, <1>1, OpenShape
<1>3. h.pc \in {1, 2, 3, 4, 5, 6}  BY <1>0, <1>2
<1>4. h.pc = 4  BY <1>0, <1>2, <1>3
<1> QED  BY <1>0, <1>1, <1>2, <1>4

LEMMA SessionNoTwins ==
  ASSUME Typed, NEW y, SessionOK(y), NEW s \in Slots, Works(s, y)
  PROVE  NoTwins("session", y)'
<1> DEFINE r == run[s].req
           c == CallOf(s)
           u == c.user
           x == c.to
<1>0. Step(s) /\ "session" \in Tables /\ NoTwins("session", y) /\ NoSession(run[s], y)
  BY TablesAre DEF SessionOK, Works
<1>1. ASSUME NEW i \in 1..Len(rows'["session"]), rows'["session"][i].live, HasTopic("session", i, y)'
      PROVE  Came("session", i) \/ NewRow(s, "session", i)
  BY <1>1, SessionRows
<1>2. CASE c.do = "Insert" /\ c.table = "session"
  <2>1. r.op = "OpenSession" /\ run[s].pc = 4 /\ u = r.owner /\ x = r.contact  BY <1>0, <1>2, PuttingSession
  <2>2. Topic("session", u, x) = y => NoneYet("session", u, x)  BY <1>0, <2>1 DEF NoSession
  <2>3. \A i \in 1..Len(rows'["session"]) : rows'["session"][i].live /\ HasTopic("session", i, y)' =>
          \/ LiveRow("session", i) /\ rows'["session"][i].user = rows["session"][i].user
                                   /\ rows'["session"][i].to = rows["session"][i].to
          \/ i = Len(rows["session"]) + 1 /\ rows'["session"][i].user = u /\ rows'["session"][i].to = x
    BY <1>1 DEF NewRow, Came
  <2> HIDE DEF u, x, r, c
  <2> QED  BY <1>0, <2>2, <2>3, NoTwinsAdded
<1>3. CASE ~(c.do = "Insert" /\ c.table = "session")
  <2>1. \A i : ~NewRow(s, "session", i)  BY <1>3 DEF NewRow
  <2>2. \A i \in 1..Len(rows'["session"]) : rows'["session"][i].live /\ HasTopic("session", i, y)' =>
          LiveRow("session", i) /\ rows'["session"][i].user = rows["session"][i].user
                                /\ rows'["session"][i].to = rows["session"][i].to
    BY <1>1, <2>1 DEF Came
  <2> QED  BY <1>0, <2>2, NoTwinsKept
<1> QED  BY <1>2, <1>3

LEMMA WorksSession ==
  ASSUME Typed, NEW y, SessionOK(y), NEW s \in Slots, Works(s, y)
  PROVE  SessionOK(y)'
<1>0. Step(s) /\ \A t \in Slots : t # s => ~On(t, y)'  BY DEF Works
<1>1. ASSUME run'[s] # Idle  PROVE NoSession(run[s], y)' /\ SameFound(run[s], y)'
  <2>0. run'[s].req = run[s].req  BY <1>0, <1>1, FieldsKept
  <2>1. CASE run[s].req.op = "OpenSession"  BY <1>1, <2>0, <2>1, OpenHand DEF SameFound
  <2>2. CASE run[s].req.op = "UpdateGroupInfo"  BY <1>1, <2>0, <2>2, UpdateHand DEF NoSession
  <2>3. CASE run[s].req.op \notin {"OpenSession", "UpdateGroupInfo"}  BY <2>0, <2>3 DEF NoSession, SameFound
  <2> QED  BY <2>1, <2>2, <2>3
<1>2. NoTwins("session", y)'  BY SessionNoTwins
<1> QED  BY <1>0, <1>1, <1>2 DEF SessionOK, On

LEMMA SessionStep ==
  ASSUME Typed, Apart, [Next]_vars, NEW y, y \notin disturbed', SessionOK(y)
  PROVE  SessionOK(y)'
BY StepAbout, ElsewhereSession, BeginsSession, WorksSession

SessionsOK == \A u \in Users, x \in Ids : OfTalk(u, x) \notin disturbed => SessionOK(OfTalk(u, x))

LEMMA InitSessions == Init => SessionsOK
<1> SUFFICES ASSUME Init, NEW u \in Users, NEW x \in Ids  PROVE SessionOK(OfTalk(u, x))
  BY DEF SessionsOK
<1>1. \A s \in Slots : ~On(s, OfTalk(u, x))  BY DEF Init, On
<1>2. NoTwins("session", OfTalk(u, x))  BY InitRows, TablesAre
<1> QED  BY <1>1, <1>2 DEF SessionOK

LEMMA SessionsStep == Typed /\ Apart /\ SessionsOK /\ [Next]_vars => SessionsOK'
<1> SUFFICES ASSUME Typed, Apart, SessionsOK, [Next]_vars, NEW u \in Users, NEW x \in Ids, OfTalk(u, x) \notin disturbed'
             PROVE  SessionOK(OfTalk(u, x))'
  BY DEF SessionsOK
<1> DEFINE y == OfTalk(u, x)
<1>1. y \notin disturbed /\ y \notin disturbed'  BY DisturbedGrows
<1>2. SessionOK(y)  BY <1>1 DEF SessionsOK
<1> HIDE DEF y
<1>3. SessionOK(y)'  BY <1>1, <1>2, SessionStep
<1> QED  BY <1>3 DEF y

LEMMA AlwaysSessions == Spec => [](Typed /\ Apart /\ SessionsOK)
<1>1. Init => Apart  BY DEF Init, Apart
<1> QED  BY <1>1, InitTyped, TypedStep, ApartStep, InitSessions, SessionsStep, PTL DEF Spec

\* A user has never two sessions with one contact, nor two applications to it,
\* unless requests about the two overlapped or failed: OpenSession and ApplyContact
\* look first and insert later, the others write back rows that are in the table.
THEOREM OneRowEach == Spec => []OneRow
<1>1. Typed /\ AppliesOK /\ SessionsOK => OneRow
  <2> SUFFICES ASSUME Typed, AppliesOK, SessionsOK, NEW u \in Users, NEW x \in Ids
               PROVE  /\ Quiet(OfTalk(u, x)) => \A i, j \in LiveFrom("session", u, x) : i = j
                      /\ Quiet(Between(u, x)) => \A i, j \in LiveFrom("apply", u, x) : i = j
    BY DEF OneRow
  <2>0. \A t \in Tables : DOMAIN rows[t] = 1..Len(rows[t])  BY DEF Typed
  <2>1. ASSUME NEW t \in Tables, NEW y, NoTwins(t, y), Topic(t, u, x) = y,
               NEW i \in LiveFrom(t, u, x), NEW j \in LiveFrom(t, u, x)
        PROVE  i = j
    <3>1. /\ LiveRow(t, i) /\ rows[t][i].user = u /\ rows[t][i].to = x
          /\ LiveRow(t, j) /\ rows[t][j].user = u /\ rows[t][j].to = x
      BY <2>0 DEF LiveFrom, LiveRows, LiveRow
    <3>2. HasTopic(t, i, y)  BY <2>1, <3>1 DEF HasTopic
    <3> QED  BY <2>1, <3>1, <3>2 DEF NoTwins, LiveRow
  <2>2. ASSUME Quiet(OfTalk(u, x))  PROVE \A i, j \in LiveFrom("session", u, x) : i = j
    <3>1. NoTwins("session", OfTalk(u, x))  BY <2>2 DEF Quiet, SessionsOK, SessionOK
    <3>2. Topic("session", u, x) = OfTalk(u, x) /\ "session" \in Tables  BY TablesAre DEF Topic
    <3> QED  BY <2>1, <3>1, <3>2
  <2>3. ASSUME Quiet(Between(u, x))  PROVE \A i, j \in LiveFrom("apply", u, x) : i = j
    <3>1. NoTwins("apply", Between(u, x))  BY <2>3 DEF Quiet, AppliesOK, ApplyOK
    <3>2. Topic("apply", u, x) = Between(u, x) /\ "apply" \in Tables  BY TablesAre DEF Topic
    <3> QED  BY <2>1, <3>1, <3>2
  <2> QED  BY <2>2, <2>3
<1> QED  BY <1>1, AlwaysApplies, AlwaysSessions, PTL

-----------------------------------------------------------------------------
(* What becomes of an account in a step. *)

\* A call that goes on does not end the handler before its last call.
LEMMA SkipAhead ==
  ASSUME DOMAIN run = Slots, NEW s \in Slots, NEW h, DOMAIN h = Fields, NEW n, h.pc + n \in Nat, h.pc + n >= 1,
         Skip(s, h, n), h.pc + n <= Len(CallsOf[h.req]), Len(CallsOf[h.req]) \in Nat
  PROVE  run'[s] # Idle /\ run'[s].pc = h.pc + n /\ \A q \in Fields \ {"pc"} : run'[s][q] = h[q]
<1> DEFINE x == [h EXCEPT !.pc = @ + n]
<1>1. run' = [run EXCEPT ![s] = x]
  <2>1. ~(h.pc + n > Len(CallsOf[h.req]))  OBVIOUS
  <2> QED  BY <2>1 DEF Skip
<1>2. x.pc = h.pc + n /\ \A q \in Fields \ {"pc"} : x[q] = h[q]  BY DEF Fields
<1> HIDE DEF x
<1>3. run'[s] = x  BY <1>1
<1>4. x # Idle
  <2>1. x.pc # 0  BY <1>2
  <2>2. Idle.pc = 0  BY DEF Idle
  <2> QED  BY <2>1, <2>2
<1> QED  BY <1>2, <1>3, <1>4

LEMMA FindGoesOn ==
  ASSUME Typed, NEW s \in Slots, Step(s), CallOf(s).do \in {"Find", "FindEither"}, run[s].pc + 1 <= Len(CallsOf[run[s].req])
  PROVE  run'[s] # Idle
<1> DEFINE v == FoundList(CallOf(s))
           h == [run[s] EXCEPT !.held = v]
<1>0. /\ FindRows(s) /\ run[s] # Idle /\ DOMAIN run = Slots /\ DOMAIN run[s] = Fields /\ run[s].req \in Requests
      /\ run[s].pc \in 1..Len(CallsOf[run[s].req])
  BY ActionOf, StepLeaves, Here DEF BodyOK
<1>1. Skip(s, h, 1)  BY <1>0 DEF FindRows, GoOn, FoundList
<1> HIDE DEF v
<1>2. h.pc = run[s].pc /\ h.req = run[s].req /\ DOMAIN h = Fields  BY <1>0 DEF Fields
<1> HIDE DEF h
<1>3. Len(CallsOf[run[s].req]) \in Nat  BY <1>0, EveryCallFits DEF AllFit
<1>4. h.pc + 1 \in Nat /\ h.pc + 1 >= 1 /\ h.pc + 1 <= Len(CallsOf[h.req])  BY <1>0, <1>2, <1>3
<1> QED  BY <1>0, <1>1, <1>2, <1>3, <1>4, SkipAhead

\* Finding the rows that were found used up, the loop is over.
LEMMA EachGoesOn ==
  ASSUME Typed, NEW s \in Slots, Step(s), CallOf(s).do = "EachFound",
         run[s].held = <<>> => run[s].pc + 1 <= Len(CallsOf[run[s].req])
  PROVE  run'[s] # Idle
<1> DEFINE h == run[s]
<1>0. /\ EachRow(s) /\ h # Idle /\ DOMAIN run = Slots /\ DOMAIN h = Fields /\ h.req \in Requests
      /\ h.pc \in 1..Len(CallsOf[h.req])
  BY ActionOf, StepLeaves, Here DEF BodyOK
<1>1. Len(CallsOf[h.req]) \in Nat  BY <1>0, EveryCallFits DEF AllFit
<1>2. CASE h.held = <<>>
  <2>1. Skip(s, h, 1)  BY <1>0, <1>2 DEF EachRow, GoOn
  <2>2. h.pc + 1 \in Nat /\ h.pc + 1 >= 1 /\ h.pc + 1 <= Len(CallsOf[h.req])  BY <1>0, <1>1, <1>2
  <2> HIDE DEF h
  <2> QED  BY <1>0, <1>1, <2>1, <2>2, SkipAhead
<1>3. CASE h.held # <<>>
  <2> DEFINE v == Tail(h.held)
             x == [h EXCEPT !.held = v]
  <2>1. Stay(s, x)  BY <1>0, <1>3 DEF EachRow
  <2> HIDE DEF v
  <2>2. x.pc = h.pc  BY <1>0 DEF Fields
  <2> HIDE DEF x
  <2>3. run'[s] = x  BY <1>0, <2>1, Stays
  <2>4. x.pc # 0 /\ Idle.pc = 0  BY <1>0, <2>2 DEF Idle
  <2> QED  BY <2>3, <2>4
<1> QED  BY <1>2, <1>3

\* What a step writes to an account: a registration makes it, a handler that read
\* it writes it back.
Registered(s, u) == CallOf(s).do = "InsertUser" /\ users'[u].live /\ users'[u].status = "NORMAL"
WroteBack(s, u) ==
  LET c == CallOf(s)
      p == run[s].people
  IN  c.do = "SaveUser" /\ c.who = u /\ u \in DOMAIN p /\ users'[u] = ChangedUser(p[u], c.how)

LEMMA UserChanges ==
  ASSUME Typed, NEW s \in Slots, Step(s), NEW u \in Users
  PROVE  users'[u] = users[u] \/ Registered(s, u) \/ WroteBack(s, u)
<1> DEFINE c == CallOf(s)
           p == run[s].people
<1>0. run[s] # Idle /\ Fits(run[s].req, c) /\ users \in [Users -> UserRow]  BY StepLeaves, Here DEF Typed
<1>1. CASE c.do = "InsertUser"
  <2> DEFINE row == [live |-> TRUE, status |-> "NORMAL"]
  <2>1. users' = [users EXCEPT ![c.who] = row]  BY <1>1, ActionOf DEF InsertUserRow
  <2>2. row.live /\ row.status = "NORMAL"  OBVIOUS
  <2> HIDE DEF row
  <2>3. users'[u] = users[u] \/ users'[u] = row  BY <1>0, <2>1
  <2> QED  BY <1>1, <2>2, <2>3 DEF Registered
<1>2. CASE c.do = "SaveUser"
  <2> DEFINE row == ChangedUser(p[c.who], c.how)
  <2>1. users' = users \/ (c.who \in DOMAIN p /\ users' = [users EXCEPT ![c.who] = row])
    BY <1>2, ActionOf DEF SaveUserRow
  <2> HIDE DEF row
  <2>2. users'[u] = users[u] \/ (u = c.who /\ u \in DOMAIN p /\ users'[u] = row)  BY <1>0, <2>1
  <2> QED  BY <1>2, <2>2 DEF WroteBack, row
<1>3. CASE c.do \notin {"InsertUser", "SaveUser"}
  <2>1. users' = users  BY <1>3, Leaves
  <2> QED  BY <2>1
<1> QED  BY <1>1, <1>2, <1>3

\* The rows of accounts that are written back were live when they were read.
PeopleLive ==
  \A s \in Slots : run[s] # Idle /\ run[s].req.op \in UserOps =>
    \A u \in DOMAIN run[s].people : run[s].people[u].live

LEMMA PeopleStep ==
  ASSUME Typed, PeopleLive, NEW s \in Slots, Step(s), run'[s] # Idle, run[s].req.op \in UserOps
  PROVE  \A u \in DOMAIN run'[s].people : run'[s].people[u].live
<1>0. run[s] # Idle /\ Fits(run[s].req, CallOf(s))  BY StepLeaves, Here
<1>1. CASE CallOf(s).do \in {"FirstUser", "FindUsers"}  BY <1>1, PeopleRead
<1>2. CASE CallOf(s).do \notin {"FirstUser", "FindUsers"}
  <2>1. CallOf(s).do # "FindUser"  BY <1>0 DEF Fits, UserCall, UserOps
  <2>2. run'[s].people = run[s].people  BY <1>2, <2>1, FieldsKept
  <2> QED  BY <1>0, <2>2 DEF PeopleLive
<1> QED  BY <1>1, <1>2

LEMMA PeopleAlways == Spec => [](Typed /\ PeopleLive)
<1>1. Init => PeopleLive  BY DEF Init, PeopleLive
<1>2. Typed /\ PeopleLive /\ [Next]_vars => PeopleLive'
  <2> SUFFICES ASSUME Typed, PeopleLive, [Next]_vars  PROVE PeopleLive'
    OBVIOUS
  <2>1. CASE UNCHANGED run  BY <2>1 DEF PeopleLive
  <2>2. ASSUME NEW s \in Slots, Submit(s)  PROVE PeopleLive'
    <3>1. PICK r \in Scripts[script][sent + 1] : r \in Requests /\ run' = [run EXCEPT ![s] = NewHandler(r)]
      BY <2>2, Submits
    <3>2. DOMAIN run = Slots  BY DEF Typed, Handlers
    <3>3. DOMAIN run'[s].people = {} /\ \A q \in Slots : q # s => run'[q] = run[q]  BY <3>1, <3>2 DEF NewHandler
    <3> QED  BY <3>3 DEF PeopleLive
  <2>3. ASSUME NEW s \in Slots, Step(s)  PROVE PeopleLive'
    <3>1. Moved(s)  BY <2>3, StepIsTyped DEF StepTyped
    <3>2. run'[s] # Idle /\ run'[s].req.op \in UserOps => \A u \in DOMAIN run'[s].people : run'[s].people[u].live
      BY <2>3, <3>1, PeopleStep DEF Moved
    <3> QED  BY <3>1, <3>2 DEF PeopleLive, Moved
  <2>4. ASSUME NEW s \in Slots, Fault(s)  PROVE PeopleLive'
    <3>1. Moved(s) /\ run[s] # Idle  BY <2>4, FaultTyped DEF StepTyped, Fault, Running
    <3>2. DOMAIN run = Slots /\ DOMAIN run[s] = Fields  BY <3>1, Here DEF BodyOK
    <3>3. Return(s) \/ Skip(s, run[s], 1)  BY <2>4 DEF Fault, GoOn
    <3>4. Passes(s, {}, 1)  BY <3>2, <3>3, SamePasses
    <3>5. run'[s] # Idle => run'[s].people = run[s].people  BY <3>4 DEF Passes, Fields
    <3> QED  BY <3>1, <3>5 DEF PeopleLive, Moved
  <2> QED  BY <2>1, <2>2, <2>3, <2>4 DEF Next, Expire, vars
<1> QED  BY <1>1, <1>2, InitTyped, TypedStep, PTL DEF Spec

-----------------------------------------------------------------------------
(* The handler of DisableUsers or DeleteUsers that has still to hide the rows of *)
(* t with the user u on one side: it has yet to look for them, or it has them in *)
(* hand.                                                                         *)
Sides(t, i)   == {rows[t][i].user, rows[t][i].to}
Gone(t, u, y) == \A i \in 1..Len(rows[t]) : LiveRow(t, i) /\ HasTopic(t, i, y) => u \notin Sides(t, i)
Sweeps        == {"FindEither", "EachFound"}

\* At call p of the handlers c the rows are looked for, and hidden in the next.
SweepAt(c, p, t, u) ==
  /\ p + 1 <= Len(c)
  /\ c[p].do = "FindEither" /\ c[p].table = t /\ c[p].who = u
  /\ c[p + 1].do = "EachFound" /\ c[p + 1].table = t /\ c[p + 1].how = "hide"

Sought(h, t, u) ==
  \E p \in 1..Len(CallsOf[h.req]) :
    /\ h.pc <= p /\ SweepAt(CallsOf[h.req], p, t, u)
    /\ \A k \in 1..p : h.pc <= k => CallsOf[h.req][k].do \in Sweeps

Sweeping(h, t, u, y) ==
  /\ h.req.op \in {"DisableUsers", "DeleteUsers"}
  /\ CallsOf[h.req][h.pc].do = "EachFound" /\ CallsOf[h.req][h.pc].table = t /\ CallsOf[h.req][h.pc].how = "hide"
  /\ \A i \in 1..Len(rows[t]) : LiveRow(t, i) /\ HasTopic(t, i, y) /\ u \in Sides(t, i) =>
       \E n \in 1..Len(h.held) : h.held[n].id = i

Clearing(h, t, u, y) == Sought(h, t, u) \/ Sweeping(h, t, u, y)

LEMMA SoughtStep ==
  ASSUME Typed, NEW s \in Slots, Step(s), NEW t \in Tables, NEW u, NEW y, Sought(run[s], t, u)
  PROVE  run'[s] # Idle /\ (Sought(run[s], t, u)' \/ Sweeping(run[s], t, u, y)')
<1> DEFINE h == run[s]
           r == h.req
           c == CallsOf[r]
<1>0. /\ h # Idle /\ r \in Requests /\ h.pc \in 1..Len(c) /\ CallOf(s) = c[h.pc] /\ Fits(r, CallOf(s)) /\ Len(c) \in Nat
  BY StepLeaves, Here, EveryCallFits DEF AllFit
<1>1. PICK p \in 1..Len(c) : /\ h.pc <= p /\ SweepAt(c, p, t, u)
                             /\ \A k \in 1..p : h.pc <= k => c[k].do \in Sweeps
  BY DEF Sought
<1>2. c[h.pc].do \in Sweeps /\ h.pc + 1 <= Len(c)
  <2>1. h.pc \in 1..p /\ p + 1 <= Len(c)  BY <1>0, <1>1 DEF SweepAt
  <2> QED  BY <1>0, <1>1, <2>1
<1>3. CASE c[h.pc].do = "FindEither"
  <2>1. run'[s] # Idle  BY <1>0, <1>2, <1>3, FindGoesOn
  <2>2. run'[s].req = r /\ run'[s].held = FoundList(CallOf(s)) /\ run'[s].pc = h.pc + 1 /\ rows' = rows
    BY <1>0, <1>3, <2>1, FieldsKept, FindTakes, Leaves
  <2>3. CASE h.pc < p
    <3>1. h.pc + 1 <= p /\ \A k \in 1..p : h.pc + 1 <= k => h.pc <= k  BY <1>0, <2>3
    <3>2. Sought(run[s], t, u)'  BY <1>1, <2>2, <3>1 DEF Sought
    <3> QED  BY <2>1, <3>2
  <2>4. CASE h.pc = p
    <3>1. /\ CallOf(s).do = "FindEither" /\ CallOf(s).table = t /\ CallOf(s).who = u
          /\ c[p + 1].do = "EachFound" /\ c[p + 1].table = t /\ c[p + 1].how = "hide"
      BY <1>0, <1>1, <2>4 DEF SweepAt
    <3>2. r.op \in {"DisableUsers", "DeleteUsers"} /\ RowCall(r, CallOf(s))  BY <1>0, <3>1 DEF Fits, RowCall
    <3> DEFINE q == FoundList(CallOf(s))
               d == CallOf(s)
    <3>3. \A i \in FoundBy(d) : \E n \in 1..Len(q) : q[n].id = i  BY <3>1, <3>2, FoundListHolds
    <3>4. ASSUME NEW i \in 1..Len(rows[t]), LiveRow(t, i), u \in Sides(t, i)  PROVE i \in FoundBy(d)
      <4>1. rows[t] \in Seq(Row)  BY DEF Typed
      <4> QED  BY <3>1, <3>4, <4>1 DEF FoundBy, LiveRows, LiveRow, Sides
    <3> HIDE DEF q, d
    <3>5. run'[s].held = q /\ run'[s].pc = p + 1 /\ run'[s].req = r /\ rows' = rows  BY <2>2, <2>4 DEF q
    <3>6. Sweeping(run[s], t, u, y)'  BY <3>1, <3>2, <3>3, <3>4, <3>5 DEF Sweeping, LiveRow, HasTopic, Sides
    <3> QED  BY <2>1, <3>6
  <2> QED  BY <1>0, <1>1, <2>3, <2>4
<1>4. CASE c[h.pc].do = "EachFound"
  <2>1. h.pc # p  BY <1>1, <1>4 DEF SweepAt
  <2>2. run'[s] # Idle  BY <1>0, <1>2, <1>4, EachGoesOn
  <2>3. run'[s].req = r /\ run'[s].pc \in {h.pc, h.pc + 1}  BY <1>0, <1>4, <2>2, FieldsKept, EachTakes
  <2>4. run'[s].pc <= p /\ \A k \in 1..p : run'[s].pc <= k => h.pc <= k  BY <1>0, <1>1, <2>1, <2>3
  <2>5. Sought(run[s], t, u)'  BY <1>1, <2>3, <2>4 DEF Sought
  <2> QED  BY <2>2, <2>5
<1> QED  BY <1>2, <1>3, <1>4 DEF Sweeps

LEMMA SweepingStep ==
  ASSUME Typed, NEW s \in Slots, Step(s), NEW t \in Tables, NEW u, NEW y, Sweeping(run[s], t, u, y)
  PROVE  Gone(t, u, y)' \/ (run'[s] # Idle /\ Sweeping(run[s], t, u, y)')
<1> DEFINE h == run[s]
           r == h.req
           c == CallsOf[r]
<1>0. /\ h # Idle /\ r \in Requests /\ h.pc \in 1..Len(c) /\ CallOf(s) = c[h.pc] /\ h.held \in Seq(HeldRow)
      /\ c[h.pc].do = "EachFound" /\ c[h.pc].table = t /\ c[h.pc].how = "hide"
      /\ r.op \in {"DisableUsers", "DeleteUsers"}
  BY StepLeaves, Here DEF Sweeping
<1>1. \A i \in 1..Len(rows[t]) : LiveRow(t, i) /\ HasTopic(t, i, y) /\ u \in Sides(t, i) =>
        \E n \in 1..Len(h.held) : h.held[n].id = i
  BY DEF Sweeping
<1>2. CASE h.held = <<>>
  <2>1. rows' = rows  BY <1>0, <1>2, ActionOf DEF EachRow
  <2>2. Len(h.held) = 0  BY <1>2
  <2>3. 1..Len(h.held) = {}  BY <2>2
  <2> QED  BY <1>1, <2>1, <2>3 DEF Gone, LiveRow, HasTopic, Sides
<1>3. CASE h.held # <<>>
  <2>1. run'[s] # Idle  BY <1>0, <1>3, EachGoesOn
  <2>2. run'[s].req = r /\ run'[s].pc = h.pc /\ run'[s].held = Tail(h.held)
    BY <1>0, <1>3, <2>1, FieldsKept, EachTakes
  <2> DEFINE q == Tail(h.held)
             m == h.held[1].id
  <2>3. Len(q) = Len(h.held) - 1 /\ Len(h.held) \in Nat /\ \A n \in 1..Len(h.held) - 1 : q[n] = h.held[n + 1]
    BY <1>0, <1>3, TailProperty
  <2>4. ~rows'[t][m].live
    <3> DEFINE row == [rows[t][m] EXCEPT !.live = FALSE]
    <3>1. Head(h.held) = h.held[1] /\ m \in 1..Len(rows[t])  BY <1>0, <1>3, HandAt
    <3>2. rows' = [rows EXCEPT ![t][m] = row]
      <4>1. EachRow(s)  BY <1>0, ActionOf
      <4>2. rows' = [rows EXCEPT ![t][Head(h.held).id] = [@ EXCEPT !.live = FALSE]]  BY <1>0, <1>3, <4>1 DEF EachRow
      <4> QED  BY <3>1, <4>2
    <3>3. ~row.live
      <4>1. rows[t][m] \in Row  BY <3>1, TypedRow
      <4> QED  BY <4>1 DEF Row
    <3> HIDE DEF row, m
    <3>4. rows'[t][m] = row  BY <3>1, <3>2, WrittenRow
    <3> QED  BY <3>3, <3>4
  <2>5. ASSUME NEW i \in 1..Len(rows'[t]), LiveRow(t, i)', HasTopic(t, i, y)', u \in Sides(t, i)'
        PROVE  \E n \in 1..Len(q) : q[n].id = i
    <3>1. rows'[t][i].live  BY <2>5 DEF LiveRow
    <3>2. SameRow(t, i)
      <4>1. SameRow(t, i) \/ HiddenRow(t, i) \/ CopiedRow(s, t, i)  BY <1>0, EachEvents
      <4> QED  BY <1>0, <3>1, <4>1 DEF HiddenRow, CopiedRow
    <3>3. PICK n \in 1..Len(h.held) : h.held[n].id = i
      BY <1>1, <2>5, <3>2 DEF SameRow, LiveRow, HasTopic, Sides
    <3>4. n # 1  BY <2>4, <3>1, <3>3
    <3>5. n - 1 \in 1..Len(h.held) - 1 /\ (n - 1) + 1 = n  BY <2>3, <3>3, <3>4
    <3> HIDE DEF q
    <3>6. q[n - 1].id = i /\ n - 1 \in 1..Len(q)  BY <2>3, <3>3, <3>5
    <3> QED  BY <3>6
  <2> HIDE DEF q, m
  <2>6. run'[s].held = q  BY <2>2 DEF q
  <2>7. Sweeping(run[s], t, u, y)'  BY <1>0, <2>2, <2>5, <2>6 DEF Sweeping
  <2> QED  BY <2>1, <2>7
<1> QED  BY <1>2, <1>3

LEMMA ClearingStep ==
  ASSUME Typed, NEW s \in Slots, Step(s), NEW t \in Tables, NEW u, NEW y, Clearing(run[s], t, u, y)
  PROVE  Gone(t, u, y)' \/ (run'[s] # Idle /\ Clearing(run[s], t, u, y)')
<1>1. CASE Sought(run[s], t, u)  BY <1>1, SoughtStep DEF Clearing
<1>2. CASE Sweeping(run[s], t, u, y)  BY <1>2, SweepingStep DEF Clearing
<1> QED  BY <1>1, <1>2 DEF Clearing

\* A block of calls for one user, found in the list of the handler.
LEMMA BlockAt ==
  ASSUME NEW r \in Requests, r.op \in {"DisableUsers", "DeleteUsers"}, NEW c, c = CallsOf[r],
         NEW p \in 1..Len(c), c[p].do = "SaveUser"
  PROVE  /\ SweepAt(c, p + 1, "session", c[p].who)
         /\ r.op = "DeleteUsers" => SweepAt(c, p + 3, "contact", c[p].who) /\ SweepAt(c, p + 5, "apply", c[p].who)
<1>0. Len(c) \in Nat /\ p \in Int  BY EveryCallFits DEF AllFit
<1>1. /\ c[1] = FindUsers(r.uuids)
      /\ \A k \in 2..Len(c) : \E u \in Subjects(r) : Copied(c, UserBlock(r.op, u), k)
  <2>1. r.op \in UserOps /\ r.op # "UpdateUserInfo" /\ r.op # "SetAdmin"  BY DEF UserOps
  <2> QED  BY <2>1, UserCalls
<1>2. p \in 2..Len(c)
  <2>1. p # 1  BY <1>1 DEF FindUsers
  <2> QED  BY <1>0, <2>1
<1>3. PICK u \in Subjects(r) : Copied(c, UserBlock(r.op, u), p)  BY <1>1, <1>2
<1> DEFINE t == UserBlock(r.op, u)
<1>4. PICK b \in Nat : p - b \in 1..Len(t) /\ b + Len(t) <= Len(c) /\ \A k \in 1..Len(t) : c[b + k] = t[k]
  BY <1>3, Zenon DEF Copied
<1> DEFINE Seeks(k, x) == /\ t[k].do = "FindEither" /\ t[k].table = x /\ t[k].who = u
                          /\ t[k + 1].do = "EachFound" /\ t[k + 1].table = x /\ t[k + 1].how = "hide"
<1>5. /\ Len(t) \in {3, 7} /\ (r.op = "DeleteUsers" => Len(t) = 7)
      /\ t[1].do = "SaveUser" /\ t[1].who = u /\ \A k \in 2..Len(t) : t[k].do # "SaveUser"
      /\ Seeks(2, "session") /\ (r.op = "DeleteUsers" => Seeks(4, "contact") /\ Seeks(6, "apply"))
  <2>1. CASE r.op = "DisableUsers"
    <3>1. t = << SaveUser(u, "disable", 2), FindEither("session", u), EachFound("session", "hide") >>
      BY <2>1 DEF UserBlock
    <3> HIDE DEF t
    <3> QED  BY <2>1, <3>1 DEF SaveUser, FindEither, EachFound
  <2>2. CASE r.op = "DeleteUsers"
    <3>1. t = << SaveUser(u, "delete", 6),
                 FindEither("session", u), EachFound("session", "hide"),
                 FindEither("contact", u), EachFound("contact", "hide"),
                 FindEither("apply", u), EachFound("apply", "hide") >>
      BY <2>2 DEF UserBlock
    <3> HIDE DEF t
    <3> QED  BY <3>1 DEF SaveUser, FindEither, EachFound
  <2> QED  BY <2>1, <2>2
<1> HIDE DEF t
<1>5a. Len(t) \in Int /\ b \in Int  BY <1>4, <1>5
<1>6. b + 1 = p
  <2> DEFINE k == p - b
  <2>1. b + k = p /\ k \in 1..Len(t)  BY <1>0, <1>4
  <2> HIDE DEF k
  <2>2. c[p] = t[k]  BY <1>4, <2>1
  <2>3. k = 1  BY <1>5, <2>1, <2>2
  <2> QED  BY <2>1, <2>3
<1>7. c[p].who = u
  <2>1. 1 \in 1..Len(t)  BY <1>5
  <2> QED  BY <1>4, <1>5, <1>6, <2>1
<1>8. ASSUME NEW k \in {2, 4, 6}, NEW x, Seeks(k, x), k + 1 <= Len(t)
      PROVE  SweepAt(c, p + k - 1, x, u)
  <2>1. k \in 1..Len(t) /\ k + 1 \in 1..Len(t)  BY <1>5, <1>8
  <2>2. c[b + k] = t[k] /\ c[b + (k + 1)] = t[k + 1]  BY <1>4, <2>1
  <2>3. b + Len(t) <= Len(c) /\ k \in Int /\ Len(c) \in Int  BY <1>0, <1>4
  <2>4. b + k = p + k - 1 /\ b + (k + 1) = (p + k - 1) + 1 /\ (p + k - 1) + 1 <= Len(c)
    BY <1>0, <1>5a, <1>6, <1>8, <2>3
  <2> QED  BY <1>8, <2>2, <2>4 DEF SweepAt
<1> HIDE DEF Seeks
<1>9. SweepAt(c, p + 2 - 1, "session", u)
  <2> DEFINE n == Len(t)
  <2>0. n \in {3, 7}  BY <1>5
  <2> HIDE DEF n
  <2>1. 2 + 1 <= n  BY <2>0
  <2>2. Seeks(2, "session")  BY <1>5
  <2> QED  BY <1>8, <2>1, <2>2 DEF n
<1>10. ASSUME r.op = "DeleteUsers"  PROVE SweepAt(c, p + 4 - 1, "contact", u) /\ SweepAt(c, p + 6 - 1, "apply", u)
  <2>1. Len(t) = 7 /\ Seeks(4, "contact") /\ Seeks(6, "apply")  BY <1>5, <1>10
  <2>2. 4 + 1 <= Len(t) /\ 6 + 1 <= Len(t)  BY <2>1
  <2> QED  BY <1>8, <2>1, <2>2
<1>11. p + 2 - 1 = p + 1 /\ p + 4 - 1 = p + 3 /\ p + 6 - 1 = p + 5  BY <1>0
<1> QED  BY <1>7, <1>9, <1>10, <1>11

\* Having marked an account, the handler goes on to hide the rows of the user.
LEMMA MarkThenClear ==
  ASSUME Typed, NEW s \in Slots, Step(s), NEW u, WroteBack(s, u), run[s].req.op \in {"DisableUsers", "DeleteUsers"}
  PROVE  /\ run'[s] # Idle /\ Sought(run[s], "session", u)'
         /\ run[s].req.op = "DeleteUsers" => Sought(run[s], "contact", u)' /\ Sought(run[s], "apply", u)'
<1> DEFINE h == run[s]
           r == h.req
           c == CallsOf[r]
<1>0. /\ h # Idle /\ DOMAIN run = Slots /\ DOMAIN h = Fields /\ r \in Requests /\ h.pc \in 1..Len(c) /\ h.pc \in Int
      /\ CallOf(s) = c[h.pc] /\ Len(c) \in Nat
  BY StepLeaves, Here, EveryCallFits DEF AllFit, BodyOK
<1>1. c[h.pc].do = "SaveUser" /\ c[h.pc].who = u /\ u \in DOMAIN h.people  BY <1>0 DEF WroteBack
<1>2. /\ SweepAt(c, h.pc + 1, "session", u)
      /\ r.op = "DeleteUsers" => SweepAt(c, h.pc + 3, "contact", u) /\ SweepAt(c, h.pc + 5, "apply", u)
  BY <1>0, <1>1, BlockAt
<1>3. Skip(s, h, 1)
  <2>1. SaveUserRow(s)  BY <1>0, <1>1, ActionOf
  <2> QED  BY <1>0, <1>1, <2>1 DEF SaveUserRow, GoOn
<1> HIDE DEF h
<1>4. h.pc + 2 <= Len(c) /\ h.pc + 1 \in Nat /\ h.pc + 1 >= 1  BY <1>0, <1>2 DEF SweepAt
<1>5. run'[s] # Idle /\ run'[s].pc = h.pc + 1 /\ run'[s].req = r
  <2>1. h.pc + 1 <= Len(CallsOf[h.req])  BY <1>0, <1>4
  <2> QED  BY <1>0, <1>3, <1>4, <2>1, SkipAhead DEF Fields
<1> DEFINE n == run'[s].pc
<1>6. n \in Int /\ h.pc + 1 = n /\ h.pc + 3 = n + 2 /\ h.pc + 5 = n + 4  BY <1>0, <1>5
<1>7. SweepAt(c, n, "session", u) /\ (r.op = "DeleteUsers" => SweepAt(c, n + 2, "contact", u) /\ SweepAt(c, n + 4, "apply", u))
  BY <1>2, <1>6
<1> HIDE DEF n
<1>8. n >= 1 /\ n \in Int  BY <1>0, <1>6
<1>9. Sought(run[s], "session", u)'
  <2>1. n \in 1..Len(c) /\ \A k \in 1..n : n <= k => c[k].do \in Sweeps
    BY <1>0, <1>7, <1>8 DEF SweepAt, Sweeps
  <2>2. n <= n  BY <1>8
  <2> QED  BY <1>5, <1>7, <2>1, <2>2 DEF Sought, n
<1>10. ASSUME r.op = "DeleteUsers"  PROVE Sought(run[s], "contact", u)'
  <2> DEFINE m == n + 2
  <2>0. m + 1 <= Len(c) /\ Len(c) \in Int  BY <1>0, <1>7, <1>10 DEF SweepAt
  <2>1. m \in 1..Len(c) /\ n <= m /\ \A k \in 1..m : n <= k => k \in {n, n + 1, n + 2}
    BY <1>8, <2>0
  <2>2. \A k \in {n, n + 1, n + 2} : c[k].do \in Sweeps  BY <1>7, <1>10 DEF SweepAt, Sweeps
  <2>3. \A k \in 1..m : n <= k => c[k].do \in Sweeps  BY <2>1, <2>2
  <2>4. SweepAt(c, m, "contact", u)  BY <1>7, <1>10
  <2> HIDE DEF m
  <2> QED  BY <1>5, <2>1, <2>3, <2>4 DEF Sought, n
<1>11. ASSUME r.op = "DeleteUsers"  PROVE Sought(run[s], "apply", u)'
  <2> DEFINE m == n + 4
  <2>0. m + 1 <= Len(c) /\ Len(c) \in Int  BY <1>0, <1>7, <1>11 DEF SweepAt
  <2>1. m \in 1..Len(c) /\ n <= m /\ \A k \in 1..m : n <= k => k \in {n, n + 1, n + 2, (n + 2) + 1, n + 4}
    BY <1>8, <2>0
  <2>2. \A k \in {n, n + 1, n + 2, (n + 2) + 1, n + 4} : c[k].do \in Sweeps  BY <1>7, <1>11 DEF SweepAt, Sweeps
  <2>3. \A k \in 1..m : n <= k => c[k].do \in Sweeps  BY <2>1, <2>2
  <2>4. SweepAt(c, m, "apply", u)  BY <1>7, <1>11
  <2> HIDE DEF m
  <2> QED  BY <1>5, <2>1, <2>3, <2>4 DEF Sought, n
<1> QED  BY <1>5, <1>9, <1>10, <1>11 DEF h, r

-----------------------------------------------------------------------------
(* The sessions of deleted and disabled users: there are none, or the handler *)
(* that changed the account is about to hide them.                            *)
Barred(u, b) == ~users[u].live \/ (u = b /\ users[u].status = "DISABLE")

Cleared(u, a, b) ==
  NoneYet("session", a, b) \/ \E s \in Slots : On(s, OfTalk(a, b)) /\ Clearing(run[s], "session", u, OfTalk(a, b))

EndsClear(a, b) == \A u \in Users \cap {a, b} : Barred(u, b) => Cleared(u, a, b)

\* Who is about to open a session has looked at both, and who is about to write
\* the row of a disabled user back knows of no session.
Asked(h, a, b) ==
  /\ h.req.op = "OpenSession" /\ h.pc \in {3, 4} => users[a].live
  /\ h.req.op = "OpenSession" /\ h.pc = 4 /\ b \in Users => ~Barred(b, b)
  /\ h.req.op \in UserOps /\ b \in DOMAIN h.people /\ h.people[b].status = "DISABLE" => NoneYet("session", a, b)

EndsOK(a, b) == EndsClear(a, b) /\ \A s \in Slots : On(s, OfTalk(a, b)) => Asked(run[s], a, b)

\* Who changes the account of u has to do with all the sessions of u.
LEMMA AccountTalks ==
  ASSUME Typed, NEW s \in Slots, Step(s), NEW u \in Users, WroteBack(s, u), NEW x \in Ids
  PROVE  /\ run[s].req.op \in UserOps /\ On(s, OfTalk(u, x))
         /\ x \in Users => On(s, OfTalk(x, u))
<1> DEFINE r == run[s].req
<1>0. run[s] # Idle /\ r \in Requests /\ Fits(r, CallOf(s))  BY StepLeaves, Here
<1>1. r.op \in UserOps /\ u \in Subjects(r)  BY <1>0 DEF WroteBack, Fits, UserCall
<1>2. EitherTopic(r, "session", u)  BY <1>0, <1>1, AccountRows
<1>3. /\ OfTalk(u, x) \in AboutOf[r]
      /\ x \in Users => OfTalk(x, u) \in AboutOf[r]
  BY <1>2 DEF EitherTopic, RowTopic, Topic
<1> QED  BY <1>0, <1>1, <1>3 DEF On

\* A handler that writes an account back goes on.
LEMMA SaverMoves ==
  ASSUME Typed, NEW s \in Slots, Step(s), CallOf(s).do = "SaveUser"
  PROVE  run'[s] # run[s]
<1>0. run[s] # Idle /\ run[s].pc \in Int /\ Fits(run[s].req, CallOf(s))  BY StepLeaves, Here
<1>1. CallOf(s).rest \in Nat  BY <1>0 DEF Fits, UserCall
<1>2. Passes(s, {}, 1) \/ Passes(s, {}, CallOf(s).rest + 1)  BY StepPasses DEF Passed
<1> DEFINE n == CallOf(s).rest + 1
<1>3. n \in Nat /\ n >= 1  BY <1>1
<1> HIDE DEF n
<1>4. run'[s] # Idle => run'[s].pc = run[s].pc + 1 \/ run'[s].pc = run[s].pc + n  BY <1>2 DEF Passes, n
<1> QED  BY <1>0, <1>3, <1>4

\* Without a step about the sessions of two, an account of theirs stays or is registered.
LEMMA AccountElsewhere ==
  ASSUME Typed, [Next]_vars, NEW a \in Users, NEW b \in Ids, Elsewhere(OfTalk(a, b)), NEW u \in Users \cap {a, b}
  PROVE  users'[u] = users[u] \/ (users'[u].live /\ users'[u].status = "NORMAL")
<1>1. CASE UNCHANGED users  BY <1>1
<1>2. ASSUME NEW s \in Slots, Step(s)
      PROVE  users'[u] = users[u] \/ (users'[u].live /\ users'[u].status = "NORMAL")
  <2>1. CASE users'[u] = users[u]  BY <2>1
  <2>2. CASE Registered(s, u)  BY <2>2 DEF Registered
  <2>3. CASE WroteBack(s, u)
    <3>1. \A x \in Ids : On(s, OfTalk(u, x)) /\ (x \in Users => On(s, OfTalk(x, u)))  BY <1>2, <2>3, AccountTalks
    <3>2. On(s, OfTalk(a, b))
      <4>1. CASE u = a  BY <3>1, <4>1
      <4>2. CASE u = b
        <5>1. a \in Ids  BY DEF Ids
        <5> QED  BY <3>1, <4>2, <5>1
      <4> QED  BY <4>1, <4>2
    <3>3. run'[s] = run[s]  BY <3>2 DEF Elsewhere
    <3>4. CallOf(s).do = "SaveUser"  BY <2>3 DEF WroteBack
    <3> QED  BY <1>2, <3>3, <3>4, SaverMoves
  <2> QED  BY <1>2, <2>1, <2>2, <2>3, UserChanges
<1>3. UNCHANGED users \/ \E s \in Slots : Step(s)
  BY DEF Next, vars, tables, Submit, Fault, Expire
<1> QED  BY <1>1, <1>2, <1>3

\* What a handler is clearing is the same when nothing happens to the topic.
LEMMA ClearingElsewhere ==
  ASSUME Typed, NEW t \in Tables, NEW u, NEW y, Elsewhere(y), NEW s \in Slots, On(s, y), Clearing(run[s], t, u, y)
  PROVE  On(s, y)' /\ Clearing(run[s], t, u, y)'
<1>1. run'[s] = run[s]  BY DEF Elsewhere
<1>2. On(s, y)'  BY <1>1 DEF On
<1>3. CASE Sought(run[s], t, u)  BY <1>1, <1>2, <1>3 DEF Clearing, Sought
<1>4. CASE Sweeping(run[s], t, u, y)
  <2>1. \A i \in 1..Len(rows'[t]) : HasTopic(t, i, y)' => i \in 1..Len(rows[t]) /\ rows'[t][i] = rows[t][i]
    BY DEF Elsewhere, HasTopic
  <2>2. \A i \in 1..Len(rows'[t]) : LiveRow(t, i)' /\ HasTopic(t, i, y)' /\ u \in Sides(t, i)' =>
          \E n \in 1..Len(run[s].held) : run[s].held[n].id = i
    BY <1>4, <2>1 DEF Sweeping, LiveRow, HasTopic, Sides
  <2>3. Sweeping(run[s], t, u, y)'  BY <1>1, <1>4, <2>2 DEF Sweeping
  <2> QED  BY <1>2, <2>3 DEF Clearing
<1> QED  BY <1>3, <1>4 DEF Clearing

LEMMA ElsewhereEnds ==
  ASSUME Typed, [Next]_vars, NEW a \in Users, NEW b \in Ids, EndsOK(a, b), Elsewhere(OfTalk(a, b))
  PROVE  EndsOK(a, b)'
<1> DEFINE y == OfTalk(a, b)
<1>1. Topic("session", a, b) = y /\ "session" \in Tables  BY TablesAre DEF Topic
<1>2. NoneYet("session", a, b) => NoneYet("session", a, b)'  BY <1>1, ElsewhereNone
<1>3. \A u \in Users \cap {a, b} : users'[u] = users[u] \/ (users'[u].live /\ users'[u].status = "NORMAL")
  BY AccountElsewhere
<1>4. ASSUME NEW u \in Users \cap {a, b}, Barred(u, b)'  PROVE Cleared(u, a, b)'
  <2>1. Barred(u, b)  BY <1>3, <1>4 DEF Barred
  <2>2. Cleared(u, a, b)  BY <2>1 DEF EndsOK, EndsClear
  <2>3. CASE NoneYet("session", a, b)  BY <1>2, <2>3 DEF Cleared
  <2>4. ASSUME NEW s \in Slots, On(s, y), Clearing(run[s], "session", u, y)  PROVE Cleared(u, a, b)'
    <3>1. On(s, y)' /\ Clearing(run[s], "session", u, y)'  BY <1>1, <2>4, ClearingElsewhere
    <3> QED  BY <3>1 DEF Cleared
  <2> QED  BY <2>2, <2>3, <2>4 DEF Cleared
<1>5. ASSUME NEW s \in Slots, On(s, y)'  PROVE Asked(run[s], a, b)'
  <2>1. On(s, y) /\ run'[s] = run[s]  BY <1>5 DEF Elsewhere
  <2>2. Asked(run[s], a, b)  BY <2>1 DEF EndsOK
  <2>3. users[a].live => users'[a].live  BY <1>3
  <2>4. b \in Users /\ ~Barred(b, b) => ~Barred(b, b)'  BY <1>3 DEF Barred
  <2> QED  BY <1>2, <2>1, <2>2, <2>3, <2>4 DEF Asked
<1> QED  BY <1>4, <1>5 DEF EndsOK, EndsClear

LEMMA BeginsEnds ==
  ASSUME Typed, NEW a \in Users, NEW b \in Ids, EndsOK(a, b), NEW s \in Slots, Begins(s, OfTalk(a, b))
  PROVE  EndsOK(a, b)'
<1> DEFINE y == OfTalk(a, b)
<1>1. /\ run[s] = Idle /\ users' = users /\ rows' = rows /\ \A t \in Slots : t # s => ~On(t, y) /\ ~On(t, y)'
      /\ \E r \in Requests : run'[s] = NewHandler(r)
  BY DEF Begins, tables
<1>2. \A t \in Slots : ~On(t, y)  BY <1>1 DEF On
<1>3. ASSUME NEW u \in Users \cap {a, b}, Barred(u, b)'  PROVE Cleared(u, a, b)'
  <2>1. Barred(u, b)  BY <1>1, <1>3 DEF Barred
  <2>2. NoneYet("session", a, b)  BY <1>2, <2>1 DEF EndsOK, EndsClear, Cleared
  <2>3. NoneYet("session", a, b)'  BY <1>1, <2>2 DEF NoneYet, LiveRow
  <2> QED  BY <2>3 DEF Cleared
<1>4. Asked(run[s], a, b)'
  <2>1. run'[s].pc = 1 /\ DOMAIN run'[s].people = {}  BY <1>1 DEF NewHandler
  <2> QED  BY <2>1 DEF Asked
<1> QED  BY <1>1, <1>3, <1>4 DEF EndsOK, EndsClear

LEMMA TalkIs ==
  ASSUME NEW r \in Requests, r.op = "OpenSession", NEW a, NEW b, OfTalk(a, b) \in AboutOf[r]
  PROVE  r.owner = a /\ r.contact = b
<1>1. OfTalk(a, b) = OfTalk(r.owner, r.contact)  BY AboutCases
<1> QED  BY <1>1 DEF OfTalk

\* While a handler works at the sessions from a to b, there are none if there were
\* none, unless it opens one, having asked for both.
LEMMA StillNone ==
  ASSUME Typed, NEW a \in Users, NEW b \in Ids, NEW s \in Slots, Works(s, OfTalk(a, b)), SessionOK(OfTalk(a, b)),
         NoneYet("session", a, b)
  PROVE  \/ NoneYet("session", a, b)'
         \/ run[s].req.op = "OpenSession" /\ run[s].pc = 4 /\ users' = users
<1> DEFINE y == OfTalk(a, b)
<1>0. Step(s)  BY DEF Works
<1>1. CASE CallOf(s).do = "Insert" /\ CallOf(s).table = "session"
  <2>1. run[s].req.op = "OpenSession" /\ run[s].pc = 4  BY <1>0, <1>1, PuttingSession
  <2>2. users' = users  BY <1>0, <1>1, Leaves
  <2> QED  BY <2>1, <2>2
<1>2. CASE ~(CallOf(s).do = "Insert" /\ CallOf(s).table = "session")
  <2>1. SUFFICES ASSUME NEW i \in 1..Len(rows'["session"]), LiveRow("session", i)',
                        rows'["session"][i].user = a, rows'["session"][i].to = b
                 PROVE FALSE
    BY DEF NoneYet
  <2>2. rows'["session"][i].live /\ HasTopic("session", i, y)'  BY <2>1 DEF LiveRow, HasTopic, Topic
  <2>3. Came("session", i) \/ NewRow(s, "session", i)  BY <2>2, SessionRows
  <2>4. Came("session", i)  BY <1>2, <2>3 DEF NewRow
  <2>5. i \in 1..Len(rows["session"])  BY <2>4 DEF Came, LiveRow
  <2> QED  BY <2>1, <2>4, <2>5 DEF Came, NoneYet
<1> QED  BY <1>1, <1>2

LEMMA WorksClear ==
  ASSUME Typed, PeopleLive, NEW a \in Users, NEW b \in Ids, SessionOK(OfTalk(a, b)), EndsOK(a, b),
         NEW s \in Slots, Works(s, OfTalk(a, b)), NEW u \in Users \cap {a, b}, Barred(u, b)'
  PROVE  Cleared(u, a, b)'
<1> DEFINE y == OfTalk(a, b)
           r == run[s].req
<1>0. Step(s) /\ On(s, y) /\ run[s] # Idle /\ r \in Requests /\ Fits(r, CallOf(s)) /\ y \in AboutOf[r]
      /\ \A t \in Slots : t # s => ~On(t, y)
  BY StepLeaves, Here DEF Works, On
<1>1. run'[s] # Idle => On(s, y)'
  <2>1. Moved(s)  BY <1>0, StepIsTyped DEF StepTyped
  <2> QED  BY <1>0, <2>1 DEF Moved, On
<1>2. Asked(run[s], a, b)  BY <1>0 DEF EndsOK
<1>3. ASSUME NoneYet("session", a, b), ~Barred(u, b)' \/ r.op # "OpenSession" \/ users' # users
             \/ Barred(u, b)
      PROVE  Cleared(u, a, b)'
  <2>1. CASE NoneYet("session", a, b)'  BY <2>1 DEF Cleared
  <2>2. CASE r.op = "OpenSession" /\ run[s].pc = 4 /\ users' = users
    <3>1. users[a].live /\ (b \in Users => ~Barred(b, b))  BY <1>2, <2>2 DEF Asked
    <3>2. Barred(u, b)  BY <2>2 DEF Barred
    <3> QED  BY <3>1, <3>2 DEF Barred
  <2> QED  BY <1>3, <2>1, <2>2, StillNone
<1>4. CASE Barred(u, b)
  <2>1. Cleared(u, a, b)  BY <1>4 DEF EndsOK, EndsClear
  <2>2. CASE NoneYet("session", a, b)  BY <1>3, <1>4, <2>2
  <2>3. ASSUME NEW t \in Slots, On(t, y), Clearing(run[t], "session", u, y)  PROVE Cleared(u, a, b)'
    <3>1. t = s /\ "session" \in Tables  BY <1>0, <2>3, TablesAre
    <3>2. Gone("session", u, y)' \/ (run'[s] # Idle /\ Clearing(run[s], "session", u, y)')
      BY <1>0, <2>3, <3>1, ClearingStep
    <3>3. CASE Gone("session", u, y)'
      <4>1. NoneYet("session", a, b)'
        BY <3>3 DEF Gone, NoneYet, LiveRow, HasTopic, Sides, Topic
      <4> QED  BY <4>1 DEF Cleared
    <3>4. CASE run'[s] # Idle /\ Clearing(run[s], "session", u, y)'  BY <1>1, <3>4 DEF Cleared
    <3> QED  BY <3>2, <3>3, <3>4
  <2> QED  BY <2>1, <2>2, <2>3 DEF Cleared
<1>5. CASE ~Barred(u, b)
  <2>1. users'[u] # users[u]  BY <1>5 DEF Barred
  <2>2. ~Registered(s, u)  BY DEF Registered, Barred
  <2>3. WroteBack(s, u)  BY <1>0, <2>1, <2>2, UserChanges
  <2> DEFINE d == CallOf(s)
             p == run[s].people
  <2>4. /\ d.do = "SaveUser" /\ u \in DOMAIN p /\ users'[u] = ChangedUser(p[u], d.how) /\ d.who = u
        /\ r.op \in UserOps
    BY <1>0, <2>3 DEF WroteBack, Fits, UserCall
  <2>5. p[u].live /\ p[u] \in UserRow  BY <1>0, <2>4, Here DEF PeopleLive, BodyOK
  <2>6. d.how = CASE r.op = "AbleUsers" -> "able" [] r.op = "DisableUsers" -> "disable"
                  [] r.op = "DeleteUsers" -> "delete" [] r.op \in {"UpdateUserInfo", "SetAdmin"} -> "same"
    BY <1>0, <2>4 DEF Fits, UserCall
  <2>7. CASE r.op \in {"DisableUsers", "DeleteUsers"}
    <3>1. run'[s] # Idle /\ Sought(run[s], "session", u)'  BY <1>0, <2>3, <2>7, MarkThenClear
    <3> QED  BY <1>1, <3>1 DEF Cleared, Clearing
  <2>8. CASE r.op = "AbleUsers"
    <3>1. d.how = "able"  BY <2>6, <2>8
    <3>2. users'[u] = [p[u] EXCEPT !.status = "NORMAL"]  BY <2>4, <3>1 DEF ChangedUser
    <3>3. users'[u].live /\ users'[u].status = "NORMAL"  BY <2>5, <3>2 DEF UserRow
    <3> QED  BY <3>3 DEF Barred
  <2>9. CASE r.op \in {"UpdateUserInfo", "SetAdmin"}
    <3>1. d.how = "same"  BY <2>6, <2>9
    <3>2. users'[u] = p[u]  BY <2>4, <3>1 DEF ChangedUser
    <3>3. u = b /\ p[b].status = "DISABLE" /\ b \in DOMAIN p  BY <2>4, <2>5, <3>2 DEF Barred
    <3>4. NoneYet("session", a, b)  BY <1>2, <2>4, <3>3 DEF Asked
    <3> QED  BY <1>3, <2>9, <3>4
  <2> QED  BY <2>4, <2>7, <2>8, <2>9 DEF UserOps
<1> QED  BY <1>4, <1>5

LEMMA WorksAsked ==
  ASSUME Typed, PeopleLive, NEW a \in Users, NEW b \in Ids, SessionOK(OfTalk(a, b)), EndsOK(a, b),
         NEW s \in Slots, Works(s, OfTalk(a, b)), run'[s] # Idle
  PROVE  Asked(run[s], a, b)'
<1> DEFINE y == OfTalk(a, b)
           r == run[s].req
           c == CallsOf[r]
<1>0. /\ Step(s) /\ On(s, y) /\ run[s] # Idle /\ r \in Requests /\ Fits(r, CallOf(s)) /\ y \in AboutOf[r]
      /\ run[s].pc \in Int /\ CallOf(s) = c[run[s].pc] /\ run[s].pc \in 1..Len(c)
      /\ \A t \in Slots : t # s => ~On(t, y)
  BY StepLeaves, Here DEF Works, On
<1>1. run'[s].req = r /\ run'[s].pc \in 1..Len(c)  BY <1>0, FieldsKept
<1>2. Asked(run[s], a, b)  BY <1>0 DEF EndsOK
<1>3. ASSUME r.op = "OpenSession", run'[s].pc \in {3, 4}
      PROVE  users'[a].live /\ (run'[s].pc = 4 /\ b \in Users => ~Barred(b, b)')
  <2>1. r.owner = a /\ r.contact = b  BY <1>0, <1>3, TalkIs
  <2>2. /\ Len(c) = 6
        /\ c[1].do = "IfNone" /\ c[2].do = "FirstUser" /\ c[2].who = a
        /\ b \in Users => c[3].do = "FirstUser" /\ c[3].who = b /\ c[3].among = {"NORMAL"}
        /\ b \notin Users => c[3].do = "FirstGroup"
        /\ c[4].do = "Insert" /\ c[5].do = "Forget" /\ c[6].do = "Forget"
    <3>1. r \in Requests /\ r.op = "OpenSession" /\ c = CallsOf[r]  BY <1>0, <1>3
    <3>2. /\ Len(c) = 6
          /\ c[1].do = "IfNone" /\ c[2].do = "FirstUser" /\ c[2].who = r.owner
          /\ r.contact \in Users => c[3].do = "FirstUser" /\ c[3].who = r.contact
          /\ r.contact \notin Users => c[3].do = "FirstGroup"
          /\ c[4].do = "Insert" /\ c[5].do = "Forget" /\ c[6].do = "Forget"
      BY <3>1, OpenShape
    <3>3. r.contact \in Users => c[3].among = {"NORMAL"}  BY <3>1, OpenShape, Zenon
    <3> QED  BY <2>1, <3>2, <3>3
  <2>3. run[s].pc \in {1, 2, 3, 4, 5, 6}  BY <1>0, <2>2
  <2>4. CallOf(s).do \in {"IfNone", "FirstUser", "FirstGroup", "Insert", "Forget"}  BY <1>0, <2>2, <2>3
  <2>5. run'[s].pc = run[s].pc + 1  BY <1>0, <2>4, FieldsKept
  <2>6. run[s].pc \in {2, 3}  BY <1>3, <2>3, <2>5
  <2>7. users' = users
    <3>1. CallOf(s).do \notin {"InsertUser", "SaveUser"}  BY <2>4
    <3> QED  BY <1>0, <3>1, Leaves
  <2>8. CASE run[s].pc = 2
    <3>1. CallOf(s).do = "FirstUser" /\ CallOf(s).who = a  BY <1>0, <2>2, <2>8
    <3>2. users[a].live  BY <1>0, <3>1, PeopleRead
    <3>3. run'[s].pc = 3  BY <2>5, <2>8
    <3> QED  BY <2>7, <3>2, <3>3
  <2>9. CASE run[s].pc = 3
    <3>1. users[a].live  BY <1>2, <1>3, <2>9 DEF Asked
    <3>2. ASSUME b \in Users  PROVE ~Barred(b, b)
      <4>1. CallOf(s).do = "FirstUser" /\ CallOf(s).who = b /\ CallOf(s).among = {"NORMAL"}
        BY <1>0, <2>2, <2>9, <3>2
      <4>2. users[b].live /\ users[b].status \in {"NORMAL"}  BY <1>0, <4>1, PeopleRead
      <4> QED  BY <4>2 DEF Barred
    <3> QED  BY <2>7, <3>1, <3>2 DEF Barred
  <2> QED  BY <2>6, <2>8, <2>9
<1>4. ASSUME r.op \in UserOps, b \in DOMAIN run'[s].people, run'[s].people[b].status = "DISABLE"
      PROVE  NoneYet("session", a, b)'
  <2>1. NoneYet("session", a, b)
    <3>1. CASE CallOf(s).do \in {"FirstUser", "FindUsers"}
      <4>1. run'[s].people[b] = users[b] /\ users[b].live  BY <1>0, <1>4, <3>1, PeopleRead
      <4>2. b \in Users
        <5>1. SlotOK(run'[s], rows')  BY <1>0, StepIsTyped DEF StepTyped, Moved
        <5>2. BodyOK(run'[s])  BY <5>1 DEF SlotOK
        <5> QED  BY <1>4, <5>2 DEF BodyOK
      <4>3. Cleared(b, a, b)  BY <1>4, <4>1, <4>2 DEF EndsOK, EndsClear, Barred
      <4>4. ~Clearing(run[s], "session", b, y)
        <5>1. ~Sweeping(run[s], "session", b, y)  BY <1>0, <3>1 DEF Sweeping
        <5>2. ASSUME Sought(run[s], "session", b)  PROVE FALSE
          <6>1. PICK p \in 1..Len(c) : run[s].pc <= p /\ \A k \in 1..p : run[s].pc <= k => c[k].do \in Sweeps
            BY <5>2 DEF Sought
          <6>2. run[s].pc \in 1..p /\ run[s].pc <= run[s].pc  BY <1>0, <6>1
          <6>3. c[run[s].pc].do \in Sweeps  BY <6>1, <6>2
          <6> QED  BY <1>0, <3>1, <6>3 DEF Sweeps
        <5> QED  BY <5>1, <5>2 DEF Clearing
      <4> QED  BY <1>0, <4>3, <4>4 DEF Cleared
    <3>2. CASE CallOf(s).do \notin {"FirstUser", "FindUsers"}
      <4>1. CallOf(s).do # "FindUser"  BY <1>0, <1>4 DEF Fits, UserCall, UserOps
      <4>2. run'[s].people = run[s].people  BY <1>0, <3>2, <4>1, FieldsKept
      <4> QED  BY <1>2, <1>4, <4>2 DEF Asked
    <3> QED  BY <3>1, <3>2
  <2>2. r.op # "OpenSession"  BY <1>4 DEF UserOps
  <2> QED  BY <2>1, <2>2, StillNone
<1> QED  BY <1>1, <1>3, <1>4 DEF Asked

LEMMA EndsStep ==
  ASSUME Typed, Apart, PeopleLive, [Next]_vars, NEW a \in Users, NEW b \in Ids, OfTalk(a, b) \notin disturbed',
         SessionOK(OfTalk(a, b)), EndsOK(a, b)
  PROVE  EndsOK(a, b)'
<1> DEFINE y == OfTalk(a, b)
<1>1. Elsewhere(y) \/ \E s \in Slots : Begins(s, y) \/ Works(s, y)  BY StepAbout
<1>2. CASE Elsewhere(y)  BY <1>2, ElsewhereEnds
<1>3. ASSUME NEW s \in Slots, Begins(s, y)  PROVE EndsOK(a, b)'
  BY <1>3, BeginsEnds
<1>4. ASSUME NEW s \in Slots, Works(s, y)  PROVE EndsOK(a, b)'
  <2>1. EndsClear(a, b)'
    <3>1. \A u \in Users \cap {a, b} : Barred(u, b)' => Cleared(u, a, b)'  BY <1>4, WorksClear
    <3> QED  BY <3>1 DEF EndsClear
  <2>2. \A t \in Slots : t # s => ~On(t, y)'  BY <1>4 DEF Works
  <2>3. run'[s] # Idle => Asked(run[s], a, b)'  BY <1>4, WorksAsked
  <2> QED  BY <2>1, <2>2, <2>3 DEF EndsOK, On
<1> QED  BY <1>1, <1>2, <1>3, <1>4

EndsAllOK == \A a \in Users, b \in Ids : OfTalk(a, b) \notin disturbed => EndsOK(a, b)

LEMMA InitEnds == Init => EndsAllOK
<1> SUFFICES ASSUME Init, NEW a \in Users, NEW b \in Ids  PROVE EndsOK(a, b)
  BY DEF EndsAllOK
<1>1. Len(rows["session"]) = 0  BY InitRows, TablesAre
<1>2. NoneYet("session", a, b)
  <2>1. 1..Len(rows["session"]) = {}  BY <1>1
  <2> QED  BY <2>1 DEF NoneYet
<1>3. \A s \in Slots : ~On(s, OfTalk(a, b))  BY DEF Init, On
<1> QED  BY <1>2, <1>3 DEF EndsOK, EndsClear, Cleared

LEMMA EndsAllStep ==
  Typed /\ Apart /\ SessionsOK /\ PeopleLive /\ EndsAllOK /\ [Next]_vars => EndsAllOK'
<1> SUFFICES ASSUME Typed, Apart, SessionsOK, PeopleLive, EndsAllOK, [Next]_vars,
                    NEW a \in Users, NEW b \in Ids, OfTalk(a, b) \notin disturbed'
             PROVE  EndsOK(a, b)'
  BY DEF EndsAllOK
<1>1. OfTalk(a, b) \notin disturbed  BY DisturbedGrows
<1>2. SessionOK(OfTalk(a, b)) /\ EndsOK(a, b)  BY <1>1 DEF SessionsOK, EndsAllOK
<1> QED  BY <1>2, EndsStep

LEMMA AlwaysEnds == Spec => [](Typed /\ Apart /\ SessionsOK /\ PeopleLive /\ EndsAllOK)
<1>1. Typed /\ Apart /\ SessionsOK /\ PeopleLive /\ EndsAllOK /\ [Next]_vars => EndsAllOK'  BY EndsAllStep
<1> QED  BY <1>1, InitEnds, AlwaysSessions, PeopleAlways, PTL DEF Spec

\* At all times nobody has a session open with a user who is disabled, unless requests
\* about the two overlapped or failed: DisableUsers hides the sessions after it has
\* written the status, OpenSession reads the status before it puts one in, and the
\* handlers that write a disabled account back as they read it find no session.
THEOREM DisabledNotCalled == Spec => []DisabledIsNotCalled
<1>1. Typed /\ EndsAllOK => DisabledIsNotCalled
  <2> SUFFICES ASSUME Typed, EndsAllOK, NEW u \in Users, NEW x \in Users, users[u].live, users[u].status = "DISABLE",
                      Quiet(OfTalk(x, u))
               PROVE  LiveFrom("session", x, u) = {}
    BY DEF DisabledIsNotCalled
  <2>1. OfTalk(x, u) \notin disturbed /\ \A s \in Slots : ~On(s, OfTalk(x, u))
    BY DEF Quiet, Busy, Running, On
  <2>2. EndsOK(x, u)  BY <2>1 DEF EndsAllOK, Ids
  <2>3. Barred(u, u)  BY DEF Barred
  <2>4. NoneYet("session", x, u)  BY <2>1, <2>2, <2>3 DEF EndsOK, EndsClear, Cleared
  <2>5. DOMAIN rows["session"] = 1..Len(rows["session"])  BY TablesAre DEF Typed
  <2> QED  BY <2>4, <2>5 DEF NoneYet, LiveRow, LiveFrom, LiveRows
<1> QED  BY <1>1, AlwaysEnds, PTL

-----------------------------------------------------------------------------
(* The handlers that put rows of contacts and applications in, or write them back. *)
Vouching == {"CreateGroup", "EnterGroupDirectly", "ApplyContact", "PassContactApply", "RefuseContactApply",
             "BlackApply", "CancelBlackContact"}

\* They do it between the two of the request, and never in the first call.
OwnCall(r, c) == c.do \in {"First", "FirstOr", "Insert"} => {c.user, c.to} = {r.owner, r.contact}
OwnCalls(r) ==
  \A p \in 1..Len(CallsOf[r]) :
    OwnCall(r, CallsOf[r][p]) /\ (CallsOf[r][p].do \in {"Insert", "Save"} => p # 1)

LEMMA OwnCallIs ==
  ASSUME NEW r
  PROVE  /\ \A t, among : OwnCall(r, First(t, r.owner, r.contact, among)) /\ OwnCall(r, First(t, r.contact, r.owner, among))
         /\ \A t, among : OwnCall(r, FirstOr(t, r.owner, r.contact, among))
         /\ \A t, st : OwnCall(r, Insert(t, r.owner, r.contact, st)) /\ OwnCall(r, Insert(t, r.contact, r.owner, st))
         /\ \A t, st : OwnCall(r, Save(t, st))
         /\ \A g, st : OwnCall(r, FirstGroup(g, st)) /\ OwnCall(r, FindGroup(g, st)) /\ OwnCall(r, InsertGroup(g))
         /\ \A how, u : OwnCall(r, SaveGroup(how, u))
         /\ \A u, st : OwnCall(r, FirstUser(u, st)) /\ OwnCall(r, FindUser(u, st))
         /\ \A list, u : OwnCall(r, Forget(list, u))
BY DEF OwnCall, First, FirstOr, Insert, Save, FirstGroup, FindGroup, InsertGroup, SaveGroup, FirstUser, FindUser, Forget

LEMMA FirstIsNot ==
  /\ \A t, u, x, among : First(t, u, x, among).do \notin {"Insert", "Save"}
  /\ \A g, st : FirstGroup(g, st).do \notin {"Insert", "Save"} /\ InsertGroup(g).do \notin {"Insert", "Save"}
  /\ \A u, st : FirstUser(u, st).do \notin {"Insert", "Save"}
BY DEF First, FirstGroup, InsertGroup, FirstUser

LEMMA OwnTwo ==
  ASSUME NEW r, NEW a, NEW b, CallsOf[r] = << a, b >>, OwnCall(r, a), OwnCall(r, b), a.do \notin {"Insert", "Save"}
  PROVE  OwnCalls(r)
BY DEF OwnCalls

LEMMA OwnThree ==
  ASSUME NEW r, NEW a, NEW b, NEW c, CallsOf[r] = << a, b, c >>, OwnCall(r, a), OwnCall(r, b), OwnCall(r, c),
         a.do \notin {"Insert", "Save"}
  PROVE  OwnCalls(r)
BY DEF OwnCalls

LEMMA OwnFour ==
  ASSUME NEW r, NEW a, NEW b, NEW c, NEW d, CallsOf[r] = << a, b, c, d >>,
         OwnCall(r, a), OwnCall(r, b), OwnCall(r, c), OwnCall(r, d), a.do \notin {"Insert", "Save"}
  PROVE  OwnCalls(r)
BY DEF OwnCalls

LEMMA OwnFive ==
  ASSUME NEW r, NEW a, NEW b, NEW c, NEW d, NEW e, CallsOf[r] = << a, b, c, d, e >>,
         OwnCall(r, a), OwnCall(r, b), OwnCall(r, c), OwnCall(r, d), OwnCall(r, e), a.do \notin {"Insert", "Save"}
  PROVE  OwnCalls(r)
BY DEF OwnCalls

LEMMA OwnSix ==
  ASSUME NEW r, NEW a, NEW b, NEW c, NEW d, NEW e, NEW f, CallsOf[r] = << a, b, c, d, e, f >>,
         OwnCall(r, a), OwnCall(r, b), OwnCall(r, c), OwnCall(r, d), OwnCall(r, e), OwnCall(r, f),
         a.do \notin {"Insert", "Save"}
  PROVE  OwnCalls(r)
BY DEF OwnCalls

LEMMA VouchingOwn ==
  ASSUME NEW r \in Requests, r.op \in Vouching
  PROVE  OwnCalls(r)
<1>1. CASE r.op = "CreateGroup"
  <2>1. CallsOf[r] = << InsertGroup(r.contact), Insert("contact", r.owner, r.contact, "NORMAL"),
                        Forget("contact_mygroup_list_", r.owner) >>
    BY <1>1, CreateGroupCalls DEF CreateGroup
  <2> QED  BY <2>1, OwnThree, OwnCallIs, FirstIsNot
<1>2. CASE r.op = "EnterGroupDirectly"
  <2>1. CallsOf[r] = << FirstGroup(r.owner, GroupSts), SaveGroup("enter", r.contact),
                        Insert("contact", r.contact, r.owner, "NORMAL"),
                        Forget("group_session_list_", r.owner), Forget("my_joined_group_list_", r.owner) >>
    BY <1>2, EnterGroupCalls DEF EnterGroupDirectly
  <2> QED  BY <2>1, OwnFive, OwnCallIs, FirstIsNot
<1>3. CASE r.op = "ApplyContact"
  <2>1. CASE r.contact \in Users
    <3>1. CallsOf[r] = << FirstUser(r.contact, {"NORMAL"}),
                          FirstOr("apply", r.owner, r.contact, ApplySts \ {"BLACK"}),
                          Insert("apply", r.owner, r.contact, "PENDING"), Save("apply", {"PENDING"}) >>
      BY <1>3, <2>1, ApplyContactCalls DEF ApplyContact
    <3> QED  BY <3>1, OwnFour, OwnCallIs, FirstIsNot
  <2>2. CASE r.contact \notin Users
    <3>1. CallsOf[r] = << FirstGroup(r.contact, {"NORMAL"}), FirstOr("apply", r.owner, r.contact, ApplySts),
                          Insert("apply", r.owner, r.contact, "PENDING"), Save("apply", {}) >>
      BY <1>3, <2>2, ApplyContactCalls DEF ApplyContact
    <3> QED  BY <3>1, OwnFour, OwnCallIs, FirstIsNot
  <2> QED  BY <2>1, <2>2
<1>4. CASE r.op = "PassContactApply"
  <2>1. CASE r.owner \in Users
    <3>1. CallsOf[r] = << First("apply", r.contact, r.owner, ApplySts), FindUser(r.contact, {"NORMAL"}),
                          Save("apply", {"AGREE"}), Insert("contact", r.owner, r.contact, "NORMAL"),
                          Insert("contact", r.contact, r.owner, "NORMAL"), Forget("contact_user_list_", r.owner) >>
      BY <1>4, <2>1, PassApplyCalls DEF PassToUser
    <3> QED  BY <3>1, OwnSix, OwnCallIs, FirstIsNot
  <2>2. CASE r.owner \notin Users
    <3>1. CallsOf[r] = << First("apply", r.contact, r.owner, ApplySts), FindGroup(r.owner, {"NORMAL"}),
                          Save("apply", {"AGREE"}), Insert("contact", r.contact, r.owner, "NORMAL"),
                          SaveGroup("pass", r.contact), Forget("my_joined_group_list_", r.owner) >>
      BY <1>4, <2>2, PassApplyCalls DEF PassToGroup
    <3> QED  BY <3>1, OwnSix, OwnCallIs, FirstIsNot
  <2> QED  BY <2>1, <2>2
<1>5. CASE r.op = "RefuseContactApply"
  <2>1. CallsOf[r] = << First("apply", r.contact, r.owner, ApplySts), Save("apply", {"REFUSE"}) >>
    BY <1>5, RefuseApplyCalls DEF RefuseContactApply
  <2> QED  BY <2>1, OwnTwo, OwnCallIs, FirstIsNot
<1>6. CASE r.op = "BlackApply"
  <2>1. CallsOf[r] = << First("apply", r.contact, r.owner, ApplySts), Save("apply", {"BLACK"}) >>
    BY <1>6, BlackApplyCalls DEF BlackApply
  <2> QED  BY <2>1, OwnTwo, OwnCallIs, FirstIsNot
<1>7. CASE r.op = "CancelBlackContact"
  <2>1. CallsOf[r] = << First("contact", r.owner, r.contact, {"BLACK"}), First("contact", r.contact, r.owner, {"BE_BLACK"}),
                        Save("contact", {"NORMAL"}), Save("contact", {"NORMAL"}) >>
    BY <1>7, ContactCalls DEF CancelBlackContact
  <2> QED  BY <2>1, OwnFour, OwnCallIs, FirstIsNot
<1> QED  BY <1>1, <1>2, <1>3, <1>4, <1>5, <1>6, <1>7 DEF Vouching

\* What the first call is.
LEMMA FirstLook ==
  ASSUME NEW r \in Requests, NEW c, c = CallsOf[r][1], r.op \in Vouching \ {"CreateGroup", "EnterGroupDirectly"}
  PROVE  /\ r.op = "ApplyContact" /\ r.contact \in Users => c.do = "FirstUser" /\ c.who = r.contact
         /\ r.op # "ApplyContact" => c.do = "First" /\ c.table \in {"contact", "apply"}
<1>1. CASE r.op = "ApplyContact" /\ r.contact \in Users
  <2> DEFINE d == FirstUser(r.contact, {"NORMAL"})
             f == FirstOr("apply", r.owner, r.contact, ApplySts \ {"BLACK"})
             g == Insert("apply", r.owner, r.contact, "PENDING")
             h == Save("apply", {"PENDING"})
  <2>1. CallsOf[r] = << d, f, g, h >>  BY <1>1, ApplyContactCalls DEF ApplyContact
  <2>2. d.do = "FirstUser" /\ d.who = r.contact  BY DEF FirstUser
  <2> HIDE DEF d, f, g, h
  <2> QED  BY <1>1, <2>1, <2>2
<1>2. CASE r.op = "CancelBlackContact"
  <2>1. CallsOf[r][1].do = "First" /\ CallsOf[r][1].table = "contact"  BY <1>2, CancelLists
  <2> QED  BY <1>2, <2>1
<1>3. CASE r.op \in Answering
  <2>1. CallsOf[r][1].do = "First" /\ CallsOf[r][1].table = "apply"  BY <1>3, AnswerShape
  <2> QED  BY <1>3, <2>1 DEF Answering
<1> QED  BY <1>1, <1>2, <1>3 DEF Vouching, Answering

-----------------------------------------------------------------------------
(* The rows in the hand of who answers an application, or takes a friend back, *)
(* are rows of the two of the request.                                         *)
Own(r, e)  == {e.row.user, e.row.to} = {r.owner, r.contact}
HandOwn(h) == h.req.op \in Answers => \A n \in 1..Len(h.held) : Own(h.req, h.held[n])
HandsOwn   == \A s \in Slots : run[s] # Idle => HandOwn(run[s])

LEMMA AppendOwn ==
  ASSUME NEW r, NEW S, NEW held \in Seq(S), \A n \in 1..Len(held) : Own(r, held[n]), NEW e \in S, Own(r, e)
  PROVE  \A n \in 1..Len(Append(held, e)) : Own(r, Append(held, e)[n])
<1> DEFINE q == Append(held, e)
<1>1. Len(q) = Len(held) + 1 /\ Len(held) \in Nat /\ \A n \in 1..Len(held) + 1 : q[n] = IF n <= Len(held) THEN held[n] ELSE e
  BY AppendProperty
<1> HIDE DEF q
<1> SUFFICES ASSUME NEW n \in 1..Len(q)  PROVE Own(r, q[n])
  BY DEF q
<1>2. n <= Len(held) => n \in 1..Len(held)  BY <1>1
<1> QED  BY <1>1, <1>2

LEMMA OwnStep ==
  ASSUME Typed, HandsOwn, NEW s \in Slots, Step(s), run'[s] # Idle
  PROVE  HandOwn(run'[s])
<1> DEFINE h == run[s]
           r == h.req
           c == CallOf(s)
           q == h.held
<1>0. /\ h # Idle /\ r \in Requests /\ Fits(r, c) /\ q \in Seq(HeldRow) /\ run'[s].req = r /\ BodyOK(run'[s])
      /\ c = CallsOf[r][h.pc] /\ h.pc \in 1..Len(CallsOf[r])
  <2>1. Moved(s)  BY StepIsTyped DEF StepTyped
  <2>2. BodyOK(run'[s]) /\ run'[s].req = r  BY <2>1 DEF Moved, SlotOK
  <2> QED  BY <2>2, StepLeaves, Here
<1> SUFFICES ASSUME r.op \in Answers  PROVE \A n \in 1..Len(run'[s].held) : Own(r, run'[s].held[n])
  BY <1>0 DEF HandOwn
<1>1. \A n \in 1..Len(q) : Own(r, q[n])  BY <1>0 DEF HandsOwn, HandOwn
<1>2. OwnCall(r, c)
  <2>1. r.op \in Vouching  BY DEF Answers, Vouching
  <2>2. OwnCalls(r)  BY <1>0, <2>1, VouchingOwn
  <2> QED  BY <1>0, <2>2 DEF OwnCalls
<1>3. CASE c.do \in {"First", "FirstOr"}
  <2>1. CASE run'[s].held = q  BY <1>1, <2>1
  <2>2. ASSUME NEW n, Taken(s, c, h, n)  PROVE \A k \in 1..Len(run'[s].held) : Own(r, run'[s].held[k])
    <3> DEFINE i == FirstId(c)
               e == Held(c.table, i)
    <3>1. c.table \in Tables  BY <1>0, <1>3 DEF Fits, RowCall, RowTopic
    <3>2. i \in Matching(c) /\ run'[s].held = Append(q, e)  BY <2>2 DEF Taken
    <3> HIDE DEF i
    <3>3. /\ i \in 1..Len(rows[c.table]) /\ rows[c.table][i].user = c.user /\ rows[c.table][i].to = c.to
      BY <3>1, <3>2, Matched
    <3>4. e \in HeldRow /\ e.row = rows[c.table][i]  BY <3>1, <3>3, HeldProperty
    <3> HIDE DEF e
    <3>5. Own(r, e)  BY <1>2, <1>3, <3>3, <3>4 DEF Own, OwnCall
    <3>6. \A k \in 1..Len(Append(q, e)) : Own(r, Append(q, e)[k])  BY <1>0, <1>1, <3>4, <3>5, AppendOwn
    <3> QED  BY <3>2, <3>6
  <2> QED  BY <1>3, <2>1, <2>2, FirstTakes
<1>4. CASE c.do = "Insert"
  <2> DEFINE e == PutIn(c)
  <2>1. run'[s].held = Append(q, e)  BY <1>4, InsertTakes
  <2>2. e.row.user = c.user /\ e.row.to = c.to  BY DEF PutIn
  <2>3. e \in HeldRow
    <3>1. c.table \in Tables /\ c.user \in Users /\ c.to \in Ids /\ c.status \in RowSts
      BY <1>0, <1>4 DEF Fits, RowCall, RowTopic
    <3>2. Len(rows[c.table]) + 1 \in Nat
      <4>1. rows[c.table] \in Seq(Row)  BY <3>1 DEF Typed
      <4> QED  BY <4>1
    <3> QED  BY <3>1, <3>2 DEF PutIn, HeldRow, Row
  <2> HIDE DEF e
  <2>4. Own(r, e)  BY <1>2, <1>4, <2>2 DEF Own, OwnCall
  <2>5. \A k \in 1..Len(Append(q, e)) : Own(r, Append(q, e)[k])  BY <1>0, <1>1, <2>3, <2>4, AppendOwn
  <2> QED  BY <2>1, <2>5
<1>5. CASE c.do = "Save"
  <2>1. run'[s].held = Tail(q)  BY <1>5, SaveTakes
  <2>2. q # <<>>
    <3>1. Len(q) >= 1  BY <1>0, <1>5, SaveInHand, Here
    <3> QED  BY <3>1
  <2> DEFINE z == Tail(q)
  <2>3. Len(z) = Len(q) - 1 /\ Len(q) \in Nat /\ \A n \in 1..Len(q) - 1 : z[n] = q[n + 1]  BY <1>0, <2>2, TailProperty
  <2> HIDE DEF z
  <2>4. ASSUME NEW n \in 1..Len(z)  PROVE Own(r, z[n])
    <3>1. n \in 1..Len(q) - 1 /\ n + 1 \in 1..Len(q)  BY <2>3
    <3> QED  BY <1>1, <2>3, <3>1
  <2> QED  BY <2>1, <2>4 DEF z
<1>6. CASE c.do \notin {"First", "FirstOr", "Insert", "Save"}
  <2>1. c.do \notin {"Find", "FindEither", "EachFound"}  BY <1>0 DEF Answers, Fits, RowCall
  <2>2. run'[s].held = q  BY <1>6, <2>1, FieldsKept DEF Changing
  <2> QED  BY <1>1, <2>2
<1> QED  BY <1>3, <1>4, <1>5, <1>6

LEMMA AlwaysOwn == Spec => [](Typed /\ HandsOwn)
<1>1. Init => HandsOwn  BY DEF Init, HandsOwn
<1>2. Typed /\ HandsOwn /\ [Next]_vars => HandsOwn'
  <2> SUFFICES ASSUME Typed, HandsOwn, [Next]_vars  PROVE HandsOwn'
    OBVIOUS
  <2>1. CASE UNCHANGED run  BY <2>1 DEF HandsOwn
  <2>2. ASSUME NEW s \in Slots, Submit(s)  PROVE HandsOwn'
    <3>1. PICK r \in Scripts[script][sent + 1] : r \in Requests /\ run' = [run EXCEPT ![s] = NewHandler(r)]
      BY <2>2, Submits
    <3>2. DOMAIN run = Slots  BY DEF Typed, Handlers
    <3> DEFINE x == NewHandler(r)
    <3>3. Len(x.held) = 0  BY DEF NewHandler
    <3> HIDE DEF x
    <3>4. run'[s] = x /\ \A q \in Slots : q # s => run'[q] = run[q]  BY <3>1, <3>2 DEF x
    <3>5. HandOwn(run'[s])
      <4>1. 1..Len(x.held) = {}  BY <3>3
      <4> QED  BY <3>4, <4>1 DEF HandOwn
    <3> QED  BY <3>4, <3>5 DEF HandsOwn
  <2>3. ASSUME NEW s \in Slots, Step(s)  PROVE HandsOwn'
    <3>1. Moved(s)  BY <2>3, StepIsTyped DEF StepTyped
    <3>2. run'[s] # Idle => HandOwn(run'[s])  BY <2>3, OwnStep
    <3> QED  BY <3>1, <3>2 DEF HandsOwn, Moved
  <2>4. ASSUME NEW s \in Slots, Fault(s)  PROVE HandsOwn'
    <3>1. Moved(s) /\ run[s] # Idle  BY <2>4, FaultTyped DEF StepTyped, Fault, Running
    <3>2. DOMAIN run = Slots /\ DOMAIN run[s] = Fields  BY <3>1, Here DEF BodyOK
    <3>3. Return(s) \/ Skip(s, run[s], 1)  BY <2>4 DEF Fault, GoOn
    <3>4. Passes(s, {}, 1)  BY <3>2, <3>3, SamePasses
    <3>5. run'[s] # Idle => run'[s].held = run[s].held /\ run'[s].req = run[s].req  BY <3>4 DEF Passes, Fields
    <3>6. run'[s] # Idle => HandOwn(run'[s])  BY <3>1, <3>5 DEF HandsOwn, HandOwn
    <3> QED  BY <3>1, <3>6 DEF HandsOwn, Moved
  <2> QED  BY <2>1, <2>2, <2>3, <2>4 DEF Next, Expire, vars
<1> QED  BY <1>1, <1>2, InitTyped, TypedStep, PTL DEF Spec

-----------------------------------------------------------------------------
(* The contacts and applications of a deleted user: there are none, or the    *)
(* handler that deleted him is about to hide them.                            *)
Untied(t, u, x) == \A i \in 1..Len(rows[t]) : LiveRow(t, i) => Sides(t, i) # {u, x}

Untying(t, u, x) ==
  Untied(t, u, x) \/ \E s \in Slots : On(s, Between(u, x)) /\ Clearing(run[s], t, u, Between(u, x))

TiesClear(u, x) == ~users[u].live /\ u \notin ghosts => \A t \in {"contact", "apply"} : Untying(t, u, x)

\* Who has looked for a row between the two, or needs none, has found that the user exists.
Looked(h, u) ==
  \/ h.pc # 1
  \/ h.req.op \in {"CreateGroup", "EnterGroupDirectly"}
  \/ h.req.op = "ApplyContact" /\ h.req.owner = u
Vouched(h, u, x) ==
  h.req.op \in Vouching /\ {h.req.owner, h.req.contact} = {u, x} /\ Looked(h, u) => users[u].live \/ u \in ghosts

TiesOK(u, x) == TiesClear(u, x) /\ \A s \in Slots : On(s, Between(u, x)) => Vouched(run[s], u, x)

LEMMA SidesTopic ==
  ASSUME NEW u \in Users, NEW x \in Ids, NEW t \in {"contact", "apply"}, NEW a \in Users, NEW b \in Ids, {a, b} = {u, x}
  PROVE  Topic(t, a, b) = Between(u, x)
<1>1. Topic(t, a, b) = Between(a, b)  BY DEF Topic
<1>2. CASE a = u /\ b = x  BY <1>1, <1>2
<1>3. CASE a = x /\ b = u
  <2>1. Between(a, b) = OfPair(a, b)  BY <1>3 DEF Between
  <2>2. Between(u, x) = OfPair(u, x)  BY <1>3 DEF Between
  <2>3. {x, u} = {u, x}  OBVIOUS
  <2>4. OfPair(a, b) = OfPair(u, x)  BY <1>3, <2>3 DEF OfPair
  <2> QED  BY <1>1, <2>1, <2>2, <2>4
<1> QED  BY <1>2, <1>3

\* A row between the two has the topic of the two, before and after.
LEMMA RowTopicIs ==
  ASSUME NEW u \in Users, NEW x \in Ids, NEW t \in {"contact", "apply"}, NEW row \in Row, {row.user, row.to} = {u, x}
  PROVE  Topic(t, row.user, row.to) = Between(u, x)
<1> DEFINE a == row.user
           b == row.to
<1>1. a \in Users /\ b \in Ids /\ {a, b} = {u, x}  BY DEF Row
<1> HIDE DEF a, b
<1>2. Topic(t, a, b) = Between(u, x)  BY <1>1, SidesTopic
<1> QED  BY <1>2 DEF a, b

LEMMA RowBetween ==
  ASSUME Typed, NEW u \in Users, NEW x \in Ids, NEW t \in {"contact", "apply"}, NEW i \in 1..Len(rows[t]), Sides(t, i) = {u, x}
  PROVE  HasTopic(t, i, Between(u, x))
<1> DEFINE row == rows[t][i]
<1>1. t \in Tables  BY TablesAre
<1>2. row \in Row  BY <1>1, TypedRow
<1>3. {row.user, row.to} = {u, x}  BY DEF Sides
<1> HIDE DEF row
<1>4. Topic(t, row.user, row.to) = Between(u, x)  BY <1>2, <1>3, RowTopicIs
<1> QED  BY <1>4 DEF HasTopic, row

LEMMA RowBetweenNext ==
  ASSUME rows' \in [Tables -> Seq(Row)], NEW u \in Users, NEW x \in Ids, NEW t \in {"contact", "apply"},
         NEW i \in 1..Len(rows'[t]), Sides(t, i)' = {u, x}
  PROVE  HasTopic(t, i, Between(u, x))'
<1> DEFINE row == rows'[t][i]
<1>1. t \in Tables  BY TablesAre
<1>2. row \in Row
  <2>1. rows'[t] \in Seq(Row)  BY <1>1
  <2> QED  BY <2>1
<1>3. {row.user, row.to} = {u, x}  BY DEF Sides
<1> HIDE DEF row
<1>4. Topic(t, row.user, row.to) = Between(u, x)  BY <1>2, <1>3, RowTopicIs
<1> QED  BY <1>4 DEF HasTopic, row

\* Who deletes the account of u has to do with all who are tied to u.
LEMMA DeleterTies ==
  ASSUME Typed, NEW s \in Slots, Step(s), NEW u \in Users, WroteBack(s, u), run[s].req.op = "DeleteUsers", NEW x \in Ids
  PROVE  On(s, Between(u, x))
<1> DEFINE r == run[s].req
<1>0. run[s] # Idle /\ r \in Requests /\ Fits(r, CallOf(s))  BY StepLeaves, Here
<1>1. u \in Subjects(r)  BY <1>0 DEF WroteBack, Fits, UserCall
<1>2. /\ \A v \in Users : OfPair(u, v) \in AboutOf[r]
      /\ \A g \in Groups : OfGroup(g) \in AboutOf[r]
  BY <1>0, <1>1, AboutDeletion
<1> QED  BY <1>0, <1>2 DEF On, Between, Ids

\* An account goes in no other way.
LEMMA AccountGoes ==
  ASSUME Typed, PeopleLive, NEW s \in Slots, Step(s), NEW u \in Users, users'[u] # users[u], ~users'[u].live
  PROVE  WroteBack(s, u) /\ run[s].req.op = "DeleteUsers"
<1> DEFINE r == run[s].req
           d == CallOf(s)
           p == run[s].people
<1>0. run[s] # Idle /\ Fits(r, d) /\ BodyOK(run[s])  BY StepLeaves, Here
<1>1. WroteBack(s, u)  BY UserChanges DEF Registered
<1>2. d.do = "SaveUser" /\ u \in DOMAIN p /\ users'[u] = ChangedUser(p[u], d.how) /\ r.op \in UserOps
  BY <1>0, <1>1 DEF WroteBack, Fits, UserCall
<1>3. p[u].live /\ p[u] \in UserRow  BY <1>0, <1>2 DEF PeopleLive, BodyOK
<1>4. d.how = CASE r.op = "AbleUsers" -> "able" [] r.op = "DisableUsers" -> "disable"
                [] r.op = "DeleteUsers" -> "delete" [] r.op \in {"UpdateUserInfo", "SetAdmin"} -> "same"
  BY <1>0, <1>2 DEF Fits, UserCall
<1>5. ASSUME r.op # "DeleteUsers"  PROVE FALSE
  <2>1. d.how \in {"able", "disable", "same"}  BY <1>2, <1>4, <1>5 DEF UserOps
  <2> DEFINE row == p[u]
             z == users'[u]
  <2>2. z = ChangedUser(row, d.how) /\ row.live /\ row \in UserRow /\ ~z.live  BY <1>2, <1>3
  <2> HIDE DEF row, z
  <2>3. CASE d.how = "able"
    <3>1. z = [row EXCEPT !.status = "NORMAL"]  BY <2>2, <2>3 DEF ChangedUser
    <3> QED  BY <2>2, <3>1 DEF UserRow
  <2>4. CASE d.how = "disable"
    <3>1. z = [row EXCEPT !.status = "DISABLE"]  BY <2>2, <2>4 DEF ChangedUser
    <3> QED  BY <2>2, <3>1 DEF UserRow
  <2>5. CASE d.how = "same"
    <3>1. z = row  BY <2>2, <2>5 DEF ChangedUser
    <3> QED  BY <2>2, <3>1
  <2> QED  BY <2>1, <2>3, <2>4, <2>5
<1> QED  BY <1>1, <1>5

LEMMA TiesElsewhere ==
  ASSUME Typed, PeopleLive, [Next]_vars, NEW u \in Users, NEW x \in Ids, Elsewhere(Between(u, x)), users[u].live
  PROVE  users'[u].live
<1>1. CASE UNCHANGED users  BY <1>1
<1>2. ASSUME NEW s \in Slots, Step(s), ~users'[u].live  PROVE FALSE
  <2>1. users'[u] # users[u]  BY <1>2
  <2>2. WroteBack(s, u) /\ run[s].req.op = "DeleteUsers"  BY <1>2, <2>1, AccountGoes
  <2>3. On(s, Between(u, x))  BY <1>2, <2>2, DeleterTies
  <2>4. run'[s] = run[s]  BY <2>3 DEF Elsewhere
  <2>5. CallOf(s).do = "SaveUser"  BY <2>2 DEF WroteBack
  <2> QED  BY <1>2, <2>4, <2>5, SaverMoves
<1>3. UNCHANGED users \/ \E s \in Slots : Step(s)
  BY DEF Next, vars, tables, Submit, Fault, Expire
<1> QED  BY <1>1, <1>2, <1>3

\* Who once asked for something without an account is known for it.
LEMMA GhostsGrow == [Next]_vars => ghosts \subseteq ghosts'
<1> SUFFICES ASSUME [Next]_vars  PROVE ghosts \subseteq ghosts'
  OBVIOUS
<1>1. CASE UNCHANGED vars  BY <1>1 DEF vars
<1>2. ASSUME NEW s \in Slots, Submit(s)  PROVE ghosts \subseteq ghosts'
  BY <1>2 DEF Submit
<1>3. ASSUME NEW s \in Slots, Step(s)  PROVE ghosts \subseteq ghosts'
  BY <1>3, StepLeaves
<1>4. ASSUME NEW s \in Slots, Fault(s)  PROVE ghosts \subseteq ghosts'
  BY <1>4 DEF Fault
<1>5. ASSUME NEW e \in cache, Expire(e)  PROVE ghosts \subseteq ghosts'
  BY <1>5 DEF Expire, history
<1> QED  BY <1>1, <1>2, <1>3, <1>4, <1>5 DEF Next

LEMMA ElsewhereTies ==
  ASSUME Typed, PeopleLive, [Next]_vars, NEW u \in Users, NEW x \in Ids, TiesOK(u, x), Elsewhere(Between(u, x))
  PROVE  TiesOK(u, x)'
<1> DEFINE y == Between(u, x)
<1>1. users[u].live => users'[u].live  BY TiesElsewhere
<1>2. ghosts \subseteq ghosts'  BY GhostsGrow
<1>3. ASSUME ~users'[u].live, u \notin ghosts', NEW t \in {"contact", "apply"}  PROVE Untying(t, u, x)'
  <2>1. Untying(t, u, x)  BY <1>1, <1>2, <1>3 DEF TiesOK, TiesClear
  <2>2. t \in Tables  BY TablesAre
  <2>3. CASE Untied(t, u, x)
    <3>1. ASSUME NEW i \in 1..Len(rows'[t]), LiveRow(t, i)', Sides(t, i)' = {u, x}  PROVE FALSE
      <4>1. rows' \in [Tables -> Seq(Row)]  BY DEF Elsewhere
      <4>2. HasTopic(t, i, y)'  BY <3>1, <4>1, RowBetweenNext
      <4>3. i \in 1..Len(rows[t]) /\ rows'[t][i] = rows[t][i]  BY <2>2, <4>2 DEF Elsewhere, HasTopic
      <4> QED  BY <2>3, <3>1, <4>3 DEF Untied, LiveRow, Sides
    <3> QED  BY <3>1 DEF Untying, Untied
  <2>4. ASSUME NEW s \in Slots, On(s, y), Clearing(run[s], t, u, y)  PROVE Untying(t, u, x)'
    <3>1. On(s, y)' /\ Clearing(run[s], t, u, y)'  BY <2>2, <2>4, ClearingElsewhere
    <3> QED  BY <3>1 DEF Untying
  <2> QED  BY <2>1, <2>3, <2>4 DEF Untying
<1>4. ASSUME NEW s \in Slots, On(s, y)'  PROVE Vouched(run[s], u, x)'
  <2>1. On(s, y) /\ run'[s] = run[s]  BY <1>4 DEF Elsewhere
  <2>2. Vouched(run[s], u, x)  BY <2>1 DEF TiesOK
  <2> QED  BY <1>1, <1>2, <2>1, <2>2 DEF Vouched, Looked
<1> QED  BY <1>3, <1>4 DEF TiesOK, TiesClear

LEMMA BeginsTies ==
  ASSUME Typed, NEW u \in Users, NEW x \in Ids, TiesOK(u, x), NEW s \in Slots, Begins(s, Between(u, x))
  PROVE  TiesOK(u, x)'
<1> DEFINE y == Between(u, x)
<1>1. /\ run[s] = Idle /\ users' = users /\ rows' = rows /\ ghosts \subseteq ghosts'
      /\ \A t \in Slots : t # s => ~On(t, y) /\ ~On(t, y)'
  BY DEF Begins, tables
<1>2. PICK r \in Requests : /\ run'[s] = NewHandler(r)
                            /\ \A v \in Users : v = Actor(r) /\ r.op # "Register" /\ ~users[v].live => v \in ghosts'
  BY DEF Begins
<1>3. \A t \in Slots : ~On(t, y)  BY <1>1 DEF On
<1>4. ASSUME ~users'[u].live, u \notin ghosts', NEW t \in {"contact", "apply"}  PROVE Untying(t, u, x)'
  <2>1. Untying(t, u, x)  BY <1>1, <1>4 DEF TiesOK, TiesClear
  <2>2. Untied(t, u, x)  BY <1>3, <2>1 DEF Untying
  <2>3. Untied(t, u, x)'  BY <1>1, <2>2 DEF Untied, LiveRow, Sides
  <2> QED  BY <2>3 DEF Untying
<1>5. Vouched(run[s], u, x)'
  <2>1. run'[s].pc = 1 /\ run'[s].req = r  BY <1>2 DEF NewHandler
  <2>2. ASSUME r.op \in Vouching, {r.owner, r.contact} = {u, x},
               r.op \in {"CreateGroup", "EnterGroupDirectly"} \/ (r.op = "ApplyContact" /\ r.owner = u)
        PROVE  u = Actor(r)
    <3>1. CASE r.op = "CreateGroup"
      <4>1. r.contact \in Groups  BY <3>1, CreateGroupCalls
      <4>2. u # r.contact  BY <4>1, MembershipAssumption
      <4> QED  BY <2>2, <3>1, <4>2 DEF Actor
    <3>2. CASE r.op = "EnterGroupDirectly"
      <4>1. r.owner \in Groups  BY <3>2, EnterGroupCalls
      <4>2. u # r.owner  BY <4>1, MembershipAssumption
      <4> QED  BY <2>2, <3>2, <4>2 DEF Actor
    <3>3. CASE r.op = "ApplyContact" /\ r.owner = u  BY <3>3 DEF Actor
    <3> QED  BY <2>2, <3>1, <3>2, <3>3
  <2>3. r.op \in Vouching => r.op # "Register"  BY DEF Vouching
  <2> QED  BY <1>1, <1>2, <2>1, <2>2, <2>3 DEF Vouched, Looked
<1> QED  BY <1>1, <1>4, <1>5 DEF TiesOK, TiesClear

Tying(row, u, x) == row.live /\ {row.user, row.to} = {u, x}
Asks(h, u, x)    == h.req.op \in Vouching /\ {h.req.owner, h.req.contact} = {u, x} /\ h.pc # 1

\* Where the live rows of contacts and applications between the two come from.
LEMMA TiedBy ==
  ASSUME Typed, HandsOwn, NEW s \in Slots, Step(s), NEW u \in Users, NEW x \in Ids, NEW t \in {"contact", "apply"},
         NEW i \in 1..Len(rows'[t]), Tying(rows'[t][i], u, x)
  PROVE  (LiveRow(t, i) /\ Sides(t, i) = {u, x}) \/ Asks(run[s], u, x)
<1> DEFINE h == run[s]
           r == h.req
           c == CallOf(s)
<1>0. /\ h # Idle /\ r \in Requests /\ Fits(r, c) /\ c = CallsOf[r][h.pc] /\ h.pc \in 1..Len(CallsOf[r])
      /\ t \in Tables /\ h.held \in Seq(HeldRow)
  BY StepLeaves, Here, TablesAre
<1>1. rows'[t][i].live /\ {rows'[t][i].user, rows'[t][i].to} = {u, x}  BY DEF Tying
<1>2. OwnCalls(r) => OwnCall(r, c) /\ (c.do \in {"Insert", "Save"} => h.pc # 1)
  BY <1>0 DEF OwnCalls
<1>3. CASE LiveRow(t, i) /\ rows'[t][i].user = rows[t][i].user /\ rows'[t][i].to = rows[t][i].to
  BY <1>1, <1>3 DEF Sides
<1>4. CASE NewRow(s, t, i)
  <2>1. /\ c.do = "Insert" /\ c.table = t
        /\ rows'[t][i] = [user |-> c.user, to |-> c.to, status |-> c.status, live |-> TRUE]
    BY <1>4 DEF NewRow
  <2>2. {c.user, c.to} = {u, x}  BY <1>1, <2>1
  <2>3. r.op \in Vouching
    <3>1. r.op \in {"ApplyContact", "CreateGroup", "EnterGroupDirectly", "PassContactApply"}
      BY <1>0, <2>1 DEF Fits, RowCall
    <3> QED  BY <3>1 DEF Vouching
  <2>4. OwnCalls(r)  BY <1>0, <2>3, VouchingOwn
  <2>5. {c.user, c.to} = {r.owner, r.contact} /\ h.pc # 1  BY <1>2, <2>1, <2>4 DEF OwnCall
  <2> QED  BY <2>2, <2>3, <2>5 DEF Asks
<1>5. CASE SavedRow(s, t, i)
  <2>1. /\ c.do = "Save" /\ h.held # <<>> /\ rows'[t][i] = Put(h.held[1].row, c.status, TRUE)
    BY <1>5 DEF SavedRow, InHand
  <2>2. r.op \in Answers /\ NewStatus(c.status)  BY <1>0, <2>1 DEF Fits, RowCall, Answers
  <2>3. r.op \in Vouching  BY <2>2 DEF Answers, Vouching
  <2>4. OwnCalls(r)  BY <1>0, <2>3, VouchingOwn
  <2>5. Len(h.held) >= 1 /\ 1 \in 1..Len(h.held) /\ h.held[1] \in HeldRow
    <3>1. Len(h.held) \in Nat /\ Len(h.held) # 0  BY <1>0, <2>1
    <3>2. 1 \in 1..Len(h.held)  BY <3>1
    <3> QED  BY <1>0, <3>1, <3>2
  <2>6. Own(r, h.held[1])  BY <1>0, <2>2, <2>5 DEF HandsOwn, HandOwn
  <2> DEFINE row == h.held[1].row
  <2>7. row \in Row  BY <2>5 DEF HeldRow
  <2>8. {row.user, row.to} = {r.owner, r.contact}  BY <2>6 DEF Own
  <2> HIDE DEF row
  <2>9. Put(row, c.status, TRUE).user = row.user /\ Put(row, c.status, TRUE).to = row.to
    BY <2>2, <2>7, PutKeeps
  <2>10. {row.user, row.to} = {u, x}  BY <1>1, <2>1, <2>9 DEF row
  <2>11. h.pc # 1  BY <1>2, <2>1, <2>4
  <2> QED  BY <2>3, <2>8, <2>10, <2>11 DEF Asks
<1>6. CASE CopiedRow(s, t, i)  BY <1>6 DEF CopiedRow
<1> QED  BY <1>0, <1>1, <1>3, <1>4, <1>5, <1>6, LiveEvents

LEMMA WorksTies ==
  ASSUME Typed, PeopleLive, HandsOwn, NEW u \in Users, NEW x \in Ids, TiesOK(u, x),
         NEW s \in Slots, Works(s, Between(u, x)), ~users'[u].live, u \notin ghosts', NEW t \in {"contact", "apply"}
  PROVE  Untying(t, u, x)'
<1> DEFINE y == Between(u, x)
           r == run[s].req
<1>0. /\ Step(s) /\ On(s, y) /\ run[s] # Idle /\ r \in Requests /\ t \in Tables /\ u \notin ghosts
      /\ \A q \in Slots : q # s => ~On(q, y)
  BY StepLeaves, Here, TablesAre DEF Works
<1>1. run'[s] # Idle => On(s, y)'
  <2>1. Moved(s)  BY <1>0, StepIsTyped DEF StepTyped
  <2> QED  BY <1>0, <2>1 DEF Moved, On
<1>2. rows' \in [Tables -> Seq(Row)]  BY <1>0, StepIsTyped DEF StepTyped, RowsFrame
<1>3. CASE users[u].live
  <2>1. users'[u] # users[u]  BY <1>3
  <2>2. WroteBack(s, u) /\ r.op = "DeleteUsers"  BY <1>0, <2>1, AccountGoes
  <2>3. run'[s] # Idle /\ Sought(run[s], "contact", u)' /\ Sought(run[s], "apply", u)'
    BY <1>0, <2>2, MarkThenClear
  <2>4. Clearing(run[s], t, u, y)'  BY <2>3 DEF Clearing
  <2> QED  BY <1>1, <2>3, <2>4 DEF Untying
<1>4. CASE ~users[u].live
  <2>1. Untying(t, u, x)  BY <1>0, <1>4 DEF TiesOK, TiesClear
  <2>2. ASSUME NEW q \in Slots, On(q, y), Clearing(run[q], t, u, y)  PROVE Untying(t, u, x)'
    <3>1. q = s  BY <1>0, <2>2
    <3>2. Gone(t, u, y)' \/ (run'[s] # Idle /\ Clearing(run[s], t, u, y)')  BY <1>0, <2>2, <3>1, ClearingStep
    <3>3. CASE Gone(t, u, y)'
      <4>1. ASSUME NEW i \in 1..Len(rows'[t]), LiveRow(t, i)', Sides(t, i)' = {u, x}  PROVE FALSE
        <5>1. HasTopic(t, i, y)'  BY <1>2, <4>1, RowBetweenNext
        <5>2. u \notin Sides(t, i)'  BY <3>3, <4>1, <5>1 DEF Gone
        <5> QED  BY <4>1, <5>2
      <4> QED  BY <4>1 DEF Untying, Untied
    <3>4. CASE run'[s] # Idle /\ Clearing(run[s], t, u, y)'  BY <1>1, <3>4 DEF Untying
    <3> QED  BY <3>2, <3>3, <3>4
  <2>3. CASE Untied(t, u, x)
    <3>1. ASSUME NEW i \in 1..Len(rows'[t]), LiveRow(t, i)', Sides(t, i)' = {u, x}  PROVE FALSE
      <4>1. ASSUME LiveRow(t, i), Sides(t, i) = {u, x}  PROVE FALSE
        <5>1. i \in 1..Len(rows[t])  BY <4>1 DEF LiveRow
        <5> QED  BY <2>3, <4>1, <5>1 DEF Untied
      <4>2. r.op \in Vouching /\ {r.owner, r.contact} = {u, x} /\ run[s].pc # 1
        <5>1. Tying(rows'[t][i], u, x)  BY <3>1 DEF LiveRow, Sides, Tying
        <5>2. ~(LiveRow(t, i) /\ Sides(t, i) = {u, x})  BY <4>1
        <5>3. Step(s)  BY <1>0
        <5>4. Asks(run[s], u, x)  BY <5>1, <5>2, <5>3, TiedBy
        <5> QED  BY <5>4 DEF Asks
      <4>3. Vouched(run[s], u, x)  BY <1>0 DEF TiesOK
      <4> QED  BY <1>0, <1>4, <4>2, <4>3 DEF Vouched, Looked
    <3> QED  BY <3>1 DEF Untying, Untied
  <2> QED  BY <2>1, <2>2, <2>3 DEF Untying
<1> QED  BY <1>3, <1>4

LEMMA WorksVouched ==
  ASSUME Typed, PeopleLive, NEW u \in Users, NEW x \in Ids, TiesOK(u, x),
         NEW s \in Slots, Works(s, Between(u, x)), run'[s] # Idle
  PROVE  Vouched(run[s], u, x)'
<1> DEFINE y == Between(u, x)
           h == run[s]
           r == h.req
           c == CallsOf[r]
<1>0. /\ Step(s) /\ On(s, y) /\ h # Idle /\ r \in Requests /\ Fits(r, CallOf(s)) /\ run'[s].req = r
      /\ CallOf(s) = c[h.pc] /\ ghosts' = ghosts /\ h.pc \in 1..Len(c) /\ h.pc \in Int
      /\ \A q \in Slots : q # s => ~On(q, y)
  BY StepLeaves, Here, FieldsKept DEF Works
<1> SUFFICES ASSUME r.op \in Vouching, {r.owner, r.contact} = {u, x}, Looked(h, u)'
             PROVE  users'[u].live \/ u \in ghosts'
  BY <1>0 DEF Vouched
<1>1. users' = users
  <2>1. r.op \notin UserOps /\ r.op # "Register"  BY DEF Vouching, UserOps
  <2>2. CallOf(s).do \notin {"InsertUser", "SaveUser"}  BY <1>0, <2>1 DEF Fits, UserCall
  <2> QED  BY <1>0, <2>2, Leaves
<1>2. Vouched(h, u, x) /\ TiesClear(u, x)  BY <1>0 DEF TiesOK
<1>3. CASE Looked(h, u)  BY <1>0, <1>1, <1>2, <1>3 DEF Vouched
<1>4. CASE ~Looked(h, u)
  <2>1. h.pc = 1 /\ r.op \in Vouching \ {"CreateGroup", "EnterGroupDirectly"} /\ (r.op = "ApplyContact" => r.owner # u)
    BY <1>4 DEF Looked
  <2>2. CallOf(s) = c[1]  BY <1>0, <2>1
  <2>3. CASE r.op = "ApplyContact"
    <3>1. r.contact = u  BY <2>1, <2>3
    <3>2. CallOf(s).do = "FirstUser" /\ CallOf(s).who = u  BY <1>0, <2>1, <2>2, <2>3, <3>1, FirstLook
    <3>3. users[u].live  BY <1>0, <3>2, PeopleRead
    <3> QED  BY <1>1, <3>3
  <2>4. CASE r.op # "ApplyContact"
    <3> DEFINE d == CallOf(s)
               t == d.table
               i == FirstId(d)
    <3>1. d.do = "First" /\ t \in {"contact", "apply"}  BY <1>0, <2>1, <2>2, <2>4, FirstLook
    <3>2. Taken(s, d, h, 1)  BY <1>0, <3>1, FirstTakes
    <3>3. i \in Matching(d)  BY <3>2 DEF Taken
    <3>4. t \in Tables  BY <3>1, TablesAre
    <3>5. OwnCall(r, d)
      <4>1. OwnCalls(r)  BY <1>0, VouchingOwn
      <4> QED  BY <1>0, <4>1 DEF OwnCalls
    <3>6. {d.user, d.to} = {u, x}  BY <3>1, <3>5 DEF OwnCall
    <3> HIDE DEF i, d
    <3>7. i \in 1..Len(rows[t]) /\ rows[t][i].live /\ rows[t][i].user = d.user /\ rows[t][i].to = d.to
      BY <3>3, <3>4, Matched DEF d
    <3>8. ~Untied(t, u, x)  BY <3>6, <3>7 DEF Untied, LiveRow, Sides
    <3>9. ~Clearing(h, t, u, y)
      <4>1. d.do \notin Sweeps /\ c[h.pc].do \notin Sweeps  BY <1>0, <3>1 DEF Sweeps, d
      <4>2. ~Sweeping(h, t, u, y)  BY <4>1 DEF Sweeping, Sweeps
      <4>3. ASSUME Sought(h, t, u)  PROVE FALSE
        <5>1. PICK p \in 1..Len(c) : h.pc <= p /\ \A k \in 1..p : h.pc <= k => c[k].do \in Sweeps
          BY <4>3 DEF Sought
        <5>2. h.pc \in 1..p /\ h.pc <= h.pc  BY <1>0, <5>1
        <5> QED  BY <4>1, <5>1, <5>2
      <4> QED  BY <4>2, <4>3 DEF Clearing
    <3>10. ~Untying(t, u, x)  BY <1>0, <3>8, <3>9 DEF Untying
    <3> QED  BY <1>0, <1>1, <1>2, <3>1, <3>10 DEF TiesClear, d
  <2> QED  BY <2>3, <2>4
<1> QED  BY <1>3, <1>4

LEMMA TiesStep ==
  ASSUME Typed, Apart, PeopleLive, HandsOwn, [Next]_vars, NEW u \in Users, NEW x \in Ids, Between(u, x) \notin disturbed',
         TiesOK(u, x)
  PROVE  TiesOK(u, x)'
<1> DEFINE y == Between(u, x)
<1>1. Elsewhere(y) \/ \E s \in Slots : Begins(s, y) \/ Works(s, y)  BY StepAbout
<1>2. CASE Elsewhere(y)  BY <1>2, ElsewhereTies
<1>3. ASSUME NEW s \in Slots, Begins(s, y)  PROVE TiesOK(u, x)'
  BY <1>3, BeginsTies
<1>4. ASSUME NEW s \in Slots, Works(s, y)  PROVE TiesOK(u, x)'
  <2>1. TiesClear(u, x)'
    <3>1. \A t \in {"contact", "apply"} : ~users'[u].live /\ u \notin ghosts' => Untying(t, u, x)'  BY <1>4, WorksTies
    <3> QED  BY <3>1 DEF TiesClear
  <2>2. \A t \in Slots : t # s => ~On(t, y)'  BY <1>4 DEF Works
  <2>3. run'[s] # Idle => Vouched(run[s], u, x)'  BY <1>4, WorksVouched
  <2> QED  BY <2>1, <2>2, <2>3 DEF TiesOK, On
<1> QED  BY <1>1, <1>2, <1>3, <1>4

TiesAllOK == \A u \in Users, x \in Ids : Between(u, x) \notin disturbed => TiesOK(u, x)

LEMMA InitTies == Init => TiesAllOK
<1> SUFFICES ASSUME Init, NEW u \in Users, NEW x \in Ids  PROVE TiesOK(u, x)
  BY DEF TiesAllOK
<1>1. ASSUME NEW t \in {"contact", "apply"}  PROVE Untied(t, u, x)
  <2>1. Len(rows[t]) = 0  BY InitRows, TablesAre
  <2>2. 1..Len(rows[t]) = {}  BY <2>1
  <2> QED  BY <2>2 DEF Untied
<1>2. \A s \in Slots : ~On(s, Between(u, x))  BY DEF Init, On
<1> QED  BY <1>1, <1>2 DEF TiesOK, TiesClear, Untying

LEMMA TiesAllStep ==
  Typed /\ Apart /\ PeopleLive /\ HandsOwn /\ TiesAllOK /\ [Next]_vars => TiesAllOK'
<1> SUFFICES ASSUME Typed, Apart, PeopleLive, HandsOwn, TiesAllOK, [Next]_vars,
                    NEW u \in Users, NEW x \in Ids, Between(u, x) \notin disturbed'
             PROVE  TiesOK(u, x)'
  BY DEF TiesAllOK
<1>1. Between(u, x) \notin disturbed  BY DisturbedGrows
<1>2. TiesOK(u, x)  BY <1>1 DEF TiesAllOK
<1> QED  BY <1>2, TiesStep

LEMMA AlwaysTies == Spec => [](Typed /\ TiesAllOK)
<1>1. Typed /\ Apart /\ PeopleLive /\ HandsOwn /\ TiesAllOK /\ [Next]_vars => TiesAllOK'  BY TiesAllStep
<1> QED  BY <1>1, InitTies, AlwaysApart, PeopleAlways, AlwaysOwn, PTL DEF Spec

\* Nobody is working at x, and nothing has disturbed it.
LEMMA QuietIs ==
  ASSUME NEW x, Quiet(x)
  PROVE  x \notin disturbed /\ \A s \in Slots : ~On(s, x)
BY DEF Quiet, Busy, Running, On

\* At all times a deleted account leaves no session in either direction, and no
\* contact or application between it and anybody, unless requests about the two
\* overlapped or failed or its browser went on making requests: DeleteUsers marks
\* the account before it looks for the rows, and who looks for a row between the two,
\* or for the account, before putting one in or writing one back finds neither.
THEOREM DeletedLeaveNothing == Spec => []DeletedLeavesNothing
<1>1. ASSUME Typed, EndsAllOK, NEW u \in Users, ~users[u].live, NEW x \in Ids,
             Quiet(OfTalk(u, x)), Quiet(OfTalk(x, u)), NEW i \in 1..Len(rows["session"]), LiveRow("session", i),
             Sides("session", i) = {u, x}
      PROVE  FALSE
  <2> DEFINE a == rows["session"][i].user
             b == rows["session"][i].to
  <2>1. a \in Users /\ b \in Ids /\ {a, b} = {u, x}
    <3>1. rows["session"][i] \in Row  BY <1>1, TypedRow, TablesAre
    <3> QED  BY <1>1, <3>1 DEF Sides, Row
  <2>2. LiveRow("session", i) /\ ~NoneYet("session", a, b)  BY <1>1 DEF NoneYet
  <2> HIDE DEF a, b
  <2>3. Quiet(OfTalk(a, b))
    <3>1. (a = u /\ b = x) \/ (a = x /\ b = u)  BY <2>1
    <3> QED  BY <1>1, <3>1
  <2>4. OfTalk(a, b) \notin disturbed /\ \A s \in Slots : ~On(s, OfTalk(a, b))  BY <2>3, QuietIs
  <2>5. EndsOK(a, b)  BY <1>1, <2>1, <2>4 DEF EndsAllOK
  <2>6. u \in Users \cap {a, b} /\ Barred(u, b)  BY <1>1, <2>1 DEF Barred
  <2> QED  BY <2>2, <2>4, <2>5, <2>6 DEF EndsOK, EndsClear, Cleared
<1>2. ASSUME Typed, TiesAllOK, NEW u \in Users, ~users[u].live, NEW x \in Ids, Quiet(Between(u, x)), u \notin ghosts,
             NEW t \in {"contact", "apply"}, NEW i \in 1..Len(rows[t]), LiveRow(t, i), Sides(t, i) = {u, x}
      PROVE  FALSE
  <2>1. Between(u, x) \notin disturbed /\ \A s \in Slots : ~On(s, Between(u, x))  BY <1>2, QuietIs
  <2>2. TiesOK(u, x)  BY <1>2, <2>1 DEF TiesAllOK
  <2>3. Untied(t, u, x)  BY <1>2, <2>1, <2>2 DEF TiesOK, TiesClear, Untying
  <2> QED  BY <1>2, <2>3 DEF Untied
<1>3. Typed /\ EndsAllOK /\ TiesAllOK => DeletedLeavesNothing
  <2> SUFFICES ASSUME Typed, EndsAllOK, TiesAllOK, NEW u \in Users, ~users[u].live, NEW x \in Ids
               PROVE  LET rowsOf(t) == {i \in LiveRows(t) : {rows[t][i].user, rows[t][i].to} = {u, x}}
                      IN  /\ Quiet(OfTalk(u, x)) /\ Quiet(OfTalk(x, u)) => rowsOf("session") = {}
                          /\ Quiet(Between(u, x)) /\ u \notin ghosts => rowsOf("contact") \cup rowsOf("apply") = {}
    BY DEF DeletedLeavesNothing
  <2>1. \A t \in Tables : DOMAIN rows[t] = 1..Len(rows[t])  BY DEF Typed
  <2>2. ASSUME NEW t \in Tables, NEW i \in LiveRows(t), {rows[t][i].user, rows[t][i].to} = {u, x}
        PROVE  i \in 1..Len(rows[t]) /\ LiveRow(t, i) /\ Sides(t, i) = {u, x}
    BY <2>1, <2>2 DEF LiveRows, LiveRow, Sides
  <2>3. ASSUME Quiet(OfTalk(u, x)), Quiet(OfTalk(x, u)), NEW i \in LiveRows("session"),
               {rows["session"][i].user, rows["session"][i].to} = {u, x}
        PROVE  FALSE
    BY <1>1, <2>2, <2>3, TablesAre
  <2>4. ASSUME Quiet(Between(u, x)), u \notin ghosts, NEW t \in {"contact", "apply"}, NEW i \in LiveRows(t),
               {rows[t][i].user, rows[t][i].to} = {u, x}
        PROVE  FALSE
    BY <1>2, <2>2, <2>4, TablesAre
  <2> QED  BY <2>3, <2>4
<1> QED  BY <1>3, AlwaysEnds, AlwaysTies, PTL

-----------------------------------------------------------------------------
(* The handler of DismissGroup or DeleteGroups that has still to hide the rows   *)
(* of t with the group g: it has yet to look for them, or it has them in hand.   *)
Vacant(t, g, y) == \A i \in 1..Len(rows[t]) : LiveRow(t, i) /\ HasTopic(t, i, y) => rows[t][i].to # g
Seeks           == {"Find", "EachFound"}

\* At call p of the handlers c the rows are looked for, and hidden in the next.
SeekAt(c, p, t, g) ==
  /\ p + 1 <= Len(c)
  /\ c[p].do = "Find" /\ c[p].table = t /\ c[p].from = Users /\ c[p].to = g
  /\ c[p + 1].do = "EachFound" /\ c[p + 1].table = t /\ c[p + 1].how = "hide"

Seeking(h, t, g) ==
  \E p \in 1..Len(CallsOf[h.req]) :
    /\ h.pc <= p /\ SeekAt(CallsOf[h.req], p, t, g)
    /\ \A k \in 1..p : h.pc <= k => CallsOf[h.req][k].do \in Seeks

Emptying(h, t, g, y) ==
  /\ CallsOf[h.req][h.pc].do = "EachFound" /\ CallsOf[h.req][h.pc].table = t /\ CallsOf[h.req][h.pc].how = "hide"
  /\ \A i \in 1..Len(rows[t]) : LiveRow(t, i) /\ HasTopic(t, i, y) /\ rows[t][i].to = g =>
       \E n \in 1..Len(h.held) : h.held[n].id = i

Dismissing(h, t, g, y) == Seeking(h, t, g) \/ Emptying(h, t, g, y)

LEMMA SeekingStep ==
  ASSUME Typed, NEW s \in Slots, Step(s), NEW t \in Tables, NEW g, NEW y, Seeking(run[s], t, g)
  PROVE  run'[s] # Idle /\ (Seeking(run[s], t, g)' \/ Emptying(run[s], t, g, y)')
<1> DEFINE h == run[s]
           r == h.req
           c == CallsOf[r]
<1>0. /\ h # Idle /\ r \in Requests /\ h.pc \in 1..Len(c) /\ CallOf(s) = c[h.pc] /\ Fits(r, CallOf(s)) /\ Len(c) \in Nat
  BY StepLeaves, Here, EveryCallFits DEF AllFit
<1>1. PICK p \in 1..Len(c) : /\ h.pc <= p /\ SeekAt(c, p, t, g)
                             /\ \A k \in 1..p : h.pc <= k => c[k].do \in Seeks
  BY DEF Seeking
<1>2. c[h.pc].do \in Seeks /\ h.pc + 1 <= Len(c)
  <2>1. h.pc \in 1..p /\ p + 1 <= Len(c)  BY <1>0, <1>1 DEF SeekAt
  <2> QED  BY <1>0, <1>1, <2>1
<1>3. CASE c[h.pc].do = "Find"
  <2>1. run'[s] # Idle  BY <1>0, <1>2, <1>3, FindGoesOn
  <2>2. run'[s].req = r /\ run'[s].held = FoundList(CallOf(s)) /\ run'[s].pc = h.pc + 1 /\ rows' = rows
    BY <1>0, <1>3, <2>1, FieldsKept, FindTakes, Leaves
  <2>3. CASE h.pc < p
    <3>1. h.pc + 1 <= p /\ \A k \in 1..p : h.pc + 1 <= k => h.pc <= k  BY <1>0, <2>3
    <3>2. Seeking(run[s], t, g)'  BY <1>1, <2>2, <3>1 DEF Seeking
    <3> QED  BY <2>1, <3>2
  <2>4. CASE h.pc = p
    <3>1. /\ CallOf(s).do = "Find" /\ CallOf(s).table = t /\ CallOf(s).from = Users /\ CallOf(s).to = g
          /\ c[p + 1].do = "EachFound" /\ c[p + 1].table = t /\ c[p + 1].how = "hide"
      BY <1>0, <1>1, <2>4 DEF SeekAt
    <3>2. RowCall(r, CallOf(s))  BY <1>0, <3>1 DEF Fits
    <3> DEFINE q == FoundList(CallOf(s))
               d == CallOf(s)
    <3>3. \A i \in FoundBy(d) : \E n \in 1..Len(q) : q[n].id = i  BY <3>1, <3>2, FoundListHolds
    <3>4. ASSUME NEW i \in 1..Len(rows[t]), LiveRow(t, i), rows[t][i].to = g  PROVE i \in FoundBy(d)
      <4>1. DOMAIN rows[t] = 1..Len(rows[t]) /\ rows[t][i] \in Row  BY TypedRow
      <4>2. rows[t][i].user \in Users  BY <4>1 DEF Row
      <4>3. i \in LiveRows(t)  BY <3>4, <4>1 DEF LiveRows, LiveRow
      <4> HIDE DEF d
      <4>4. d.do = "Find" /\ d.table = t /\ d.from = Users /\ d.to = g  BY <3>1 DEF d
      <4> QED  BY <3>4, <4>2, <4>3, <4>4 DEF FoundBy
    <3> HIDE DEF q, d
    <3>5. run'[s].held = q /\ run'[s].pc = p + 1 /\ run'[s].req = r /\ rows' = rows  BY <2>2, <2>4 DEF q
    <3>6. Emptying(run[s], t, g, y)'  BY <3>1, <3>2, <3>3, <3>4, <3>5 DEF Emptying, LiveRow, HasTopic
    <3> QED  BY <2>1, <3>6
  <2> QED  BY <1>0, <1>1, <2>3, <2>4
<1>4. CASE c[h.pc].do = "EachFound"
  <2>1. h.pc # p  BY <1>1, <1>4 DEF SeekAt
  <2>2. run'[s] # Idle  BY <1>0, <1>2, <1>4, EachGoesOn
  <2>3. run'[s].req = r /\ run'[s].pc \in {h.pc, h.pc + 1}  BY <1>0, <1>4, <2>2, FieldsKept, EachTakes
  <2>4. run'[s].pc <= p /\ \A k \in 1..p : run'[s].pc <= k => h.pc <= k  BY <1>0, <1>1, <2>1, <2>3
  <2>5. Seeking(run[s], t, g)'  BY <1>1, <2>3, <2>4 DEF Seeking
  <2> QED  BY <2>2, <2>5
<1> QED  BY <1>2, <1>3, <1>4 DEF Seeks

LEMMA EmptyingStep ==
  ASSUME Typed, NEW s \in Slots, Step(s), NEW t \in Tables, NEW g, NEW y, Emptying(run[s], t, g, y)
  PROVE  Vacant(t, g, y)' \/ (run'[s] # Idle /\ Emptying(run[s], t, g, y)')
<1> DEFINE h == run[s]
           r == h.req
           c == CallsOf[r]
<1>0. /\ h # Idle /\ r \in Requests /\ h.pc \in 1..Len(c) /\ CallOf(s) = c[h.pc] /\ h.held \in Seq(HeldRow)
      /\ c[h.pc].do = "EachFound" /\ c[h.pc].table = t /\ c[h.pc].how = "hide"
  BY StepLeaves, Here DEF Emptying
<1>1. \A i \in 1..Len(rows[t]) : LiveRow(t, i) /\ HasTopic(t, i, y) /\ rows[t][i].to = g =>
        \E n \in 1..Len(h.held) : h.held[n].id = i
  BY DEF Emptying
<1>2. CASE h.held = <<>>
  <2>1. rows' = rows  BY <1>0, <1>2, ActionOf DEF EachRow
  <2>2. Len(h.held) = 0  BY <1>2
  <2>3. 1..Len(h.held) = {}  BY <2>2
  <2> QED  BY <1>1, <2>1, <2>3 DEF Vacant, LiveRow, HasTopic
<1>3. CASE h.held # <<>>
  <2>1. run'[s] # Idle  BY <1>0, <1>3, EachGoesOn
  <2>2. run'[s].req = r /\ run'[s].pc = h.pc /\ run'[s].held = Tail(h.held)
    BY <1>0, <1>3, <2>1, FieldsKept, EachTakes
  <2> DEFINE q == Tail(h.held)
             m == h.held[1].id
  <2>3. Len(q) = Len(h.held) - 1 /\ Len(h.held) \in Nat /\ \A n \in 1..Len(h.held) - 1 : q[n] = h.held[n + 1]
    BY <1>0, <1>3, TailProperty
  <2>4. ~rows'[t][m].live
    <3> DEFINE row == [rows[t][m] EXCEPT !.live = FALSE]
    <3>1. Head(h.held) = h.held[1] /\ m \in 1..Len(rows[t])  BY <1>0, <1>3, HandAt
    <3>2. rows' = [rows EXCEPT ![t][m] = row]
      <4>1. EachRow(s)  BY <1>0, ActionOf
      <4>2. rows' = [rows EXCEPT ![t][Head(h.held).id] = [@ EXCEPT !.live = FALSE]]  BY <1>0, <1>3, <4>1 DEF EachRow
      <4> QED  BY <3>1, <4>2
    <3>3. ~row.live
      <4>1. rows[t][m] \in Row  BY <3>1, TypedRow
      <4> QED  BY <4>1 DEF Row
    <3> HIDE DEF row, m
    <3>4. rows'[t][m] = row  BY <3>1, <3>2, WrittenRow
    <3> QED  BY <3>3, <3>4
  <2>5. ASSUME NEW i \in 1..Len(rows'[t]), LiveRow(t, i)', HasTopic(t, i, y)', rows'[t][i].to = g
        PROVE  \E n \in 1..Len(q) : q[n].id = i
    <3>1. rows'[t][i].live  BY <2>5 DEF LiveRow
    <3>2. SameRow(t, i)
      <4>1. SameRow(t, i) \/ HiddenRow(t, i) \/ CopiedRow(s, t, i)  BY <1>0, EachEvents
      <4> QED  BY <1>0, <3>1, <4>1 DEF HiddenRow, CopiedRow
    <3>3. PICK n \in 1..Len(h.held) : h.held[n].id = i
      BY <1>1, <2>5, <3>2 DEF SameRow, LiveRow, HasTopic
    <3>4. n # 1  BY <2>4, <3>1, <3>3
    <3>5. n - 1 \in 1..Len(h.held) - 1 /\ (n - 1) + 1 = n  BY <2>3, <3>3, <3>4
    <3> HIDE DEF q
    <3>6. q[n - 1].id = i /\ n - 1 \in 1..Len(q)  BY <2>3, <3>3, <3>5
    <3> QED  BY <3>6
  <2> HIDE DEF q, m
  <2>6. run'[s].held = q  BY <2>2 DEF q
  <2>7. Emptying(run[s], t, g, y)'  BY <1>0, <2>2, <2>5, <2>6 DEF Emptying
  <2> QED  BY <2>1, <2>7
<1> QED  BY <1>2, <1>3

LEMMA DismissingStep ==
  ASSUME Typed, NEW s \in Slots, Step(s), NEW t \in Tables, NEW g, NEW y, Dismissing(run[s], t, g, y)
  PROVE  Vacant(t, g, y)' \/ (run'[s] # Idle /\ Dismissing(run[s], t, g, y)')
<1>1. CASE Seeking(run[s], t, g)  BY <1>1, SeekingStep DEF Dismissing
<1>2. CASE Emptying(run[s], t, g, y)  BY <1>2, EmptyingStep DEF Dismissing
<1> QED  BY <1>1, <1>2 DEF Dismissing

\* The calls that dismiss one group, found in the list of the handler.
LEMMA HideBlockAt ==
  ASSUME NEW r \in Requests, r.op \in {"DismissGroup", "DeleteGroups"}, NEW c, c = CallsOf[r],
         NEW p \in 1..Len(c), c[p].do = "UpdateGroup"
  PROVE  /\ SeekAt(c, p + 1, "session", c[p].group)
         /\ SeekAt(c, p + 3, "contact", c[p].group)
         /\ SeekAt(c, p + 5, "apply", c[p].group)
<1>0. Len(c) \in Nat /\ p \in Int  BY EveryCallFits DEF AllFit
<1>1. CASE r.op = "DismissGroup"
  <2> DEFINE g == r.contact
  <2>1. c = << UpdateGroup(g, "deleted_at"),
               Find("session", Users, g), EachFound("session", "hide"),
               Find("contact", Users, g), EachFound("contact", "hide"),
               Find("apply", Users, g), EachFound("apply", "hide"),
               Forget("contact_mygroup_list_", r.owner), Forget("group_session_list_", r.owner),
               ForgetAll("my_joined_group_list_") >>
    BY <1>1, DismissGroupCalls
  <2> HIDE DEF g
  <2>2. Len(c) = 10 /\ \A k \in 2..10 : c[k].do # "UpdateGroup"
    BY <2>1 DEF Find, EachFound, Forget, ForgetAll
  <2>3. p = 1  BY <1>0, <2>2
  <2>4. /\ c[1].group = g
        /\ c[2].do = "Find" /\ c[2].table = "session" /\ c[2].from = Users /\ c[2].to = g
        /\ c[3].do = "EachFound" /\ c[3].table = "session" /\ c[3].how = "hide"
        /\ c[4].do = "Find" /\ c[4].table = "contact" /\ c[4].from = Users /\ c[4].to = g
        /\ c[5].do = "EachFound" /\ c[5].table = "contact" /\ c[5].how = "hide"
        /\ c[6].do = "Find" /\ c[6].table = "apply" /\ c[6].from = Users /\ c[6].to = g
        /\ c[7].do = "EachFound" /\ c[7].table = "apply" /\ c[7].how = "hide"
    BY <2>1 DEF Find, EachFound, UpdateGroup
  <2> QED  BY <2>2, <2>3, <2>4 DEF SeekAt
<1>2. CASE r.op = "DeleteGroups"
  <2>1. PICK n : DeleteGroupsList(r, n)  BY <1>2, DeleteGroupsCalls
  <2>2. p \in 1..n
    <3>1. c[n + 1].do # "UpdateGroup" /\ c[n + 2].do # "UpdateGroup" /\ n \in Nat /\ Len(c) = n + 2
      BY <2>1 DEF DeleteGroupsList, ForgetAll
    <3>2. p # n + 1 /\ p # n + 2  BY <3>1
    <3> QED  BY <1>0, <3>1, <3>2
  <2>3. PICK g \in Groups : Copied(c, HideGroup(g), p)  BY <2>1, <2>2 DEF DeleteGroupsList
  <2> DEFINE t == HideGroup(g)
  <2>4. PICK b \in Nat : p - b \in 1..Len(t) /\ b + Len(t) <= Len(c) /\ \A k \in 1..Len(t) : c[b + k] = t[k]
    BY <2>3, Zenon DEF Copied
  <2> DEFINE Hides(k, x) == /\ t[k].do = "Find" /\ t[k].table = x /\ t[k].from = Users /\ t[k].to = g
                            /\ t[k + 1].do = "EachFound" /\ t[k + 1].table = x /\ t[k + 1].how = "hide"
  <2>5. /\ Len(t) = 7
        /\ t[1].do = "UpdateGroup" /\ t[1].group = g /\ \A k \in 2..7 : t[k].do # "UpdateGroup"
        /\ Hides(2, "session") /\ Hides(4, "contact") /\ Hides(6, "apply")
    <3>1. t = << UpdateGroup(g, "deleted_at"),
                 Find("session", Users, g), EachFound("session", "hide"),
                 Find("contact", Users, g), EachFound("contact", "hide"),
                 Find("apply", Users, g), EachFound("apply", "hide") >>
      BY DEF HideGroup
    <3> HIDE DEF t
    <3> QED  BY <3>1 DEF UpdateGroup, Find, EachFound
  <2> HIDE DEF t
  <2>6. b + 1 = p
    <3> DEFINE k == p - b
    <3>1. b + k = p /\ k \in 1..7  BY <1>0, <2>4, <2>5
    <3> HIDE DEF k
    <3>2. c[p] = t[k]  BY <2>4, <2>5, <3>1
    <3>3. k = 1  BY <2>5, <3>1, <3>2
    <3> QED  BY <3>1, <3>3
  <2>7. c[p].group = g
    <3>1. 1 \in 1..Len(t)  BY <2>5
    <3> QED  BY <2>4, <2>5, <2>6, <3>1
  <2>8. ASSUME NEW k \in {2, 4, 6}, NEW x, Hides(k, x)
        PROVE  SeekAt(c, p + k - 1, x, g)
    <3>1. k \in 1..Len(t) /\ k + 1 \in 1..Len(t)  BY <2>5
    <3>2. c[b + k] = t[k] /\ c[b + (k + 1)] = t[k + 1]  BY <2>4, <3>1
    <3>3. b + 7 <= Len(c)  BY <2>4, <2>5
    <3>4. b + k = p + k - 1 /\ b + (k + 1) = (p + k - 1) + 1 /\ (p + k - 1) + 1 <= Len(c)
      BY <1>0, <2>6, <3>3
    <3> QED  BY <2>8, <3>2, <3>4 DEF SeekAt
  <2>9. SeekAt(c, p + 2 - 1, "session", g) /\ SeekAt(c, p + 4 - 1, "contact", g) /\ SeekAt(c, p + 6 - 1, "apply", g)
    BY <2>5, <2>8
  <2>10. p + 2 - 1 = p + 1 /\ p + 4 - 1 = p + 3 /\ p + 6 - 1 = p + 5  BY <1>0
  <2> QED  BY <2>7, <2>9, <2>10
<1> QED  BY <1>1, <1>2

\* Having marked a group, the handler goes on to hide the rows to it.
LEMMA MarkThenSeek ==
  ASSUME Typed, NEW s \in Slots, Step(s), CallOf(s).do = "UpdateGroup", NEW g, CallOf(s).group = g,
         run[s].req.op \in {"DismissGroup", "DeleteGroups"}
  PROVE  /\ run'[s] # Idle /\ Seeking(run[s], "session", g)'
         /\ Seeking(run[s], "contact", g)' /\ Seeking(run[s], "apply", g)'
<1> DEFINE h == run[s]
           r == h.req
           c == CallsOf[r]
<1>0. /\ h # Idle /\ DOMAIN run = Slots /\ DOMAIN h = Fields /\ r \in Requests /\ h.pc \in 1..Len(c) /\ h.pc \in Int
      /\ CallOf(s) = c[h.pc] /\ Len(c) \in Nat
  BY StepLeaves, Here, EveryCallFits DEF AllFit, BodyOK
<1>2. /\ SeekAt(c, h.pc + 1, "session", g)
      /\ SeekAt(c, h.pc + 3, "contact", g) /\ SeekAt(c, h.pc + 5, "apply", g)
  BY <1>0, HideBlockAt
<1>3. Skip(s, h, 1)
  <2>1. UpdateGroupRow(s)  BY ActionOf
  <2> QED  BY <2>1 DEF UpdateGroupRow, GoOn
<1> DEFINE m == h.pc
<1>4. m + 2 <= Len(c) /\ m + 1 \in Nat /\ m + 1 >= 1
  <2>1. (m + 1) + 1 <= Len(c)  BY <1>2 DEF SeekAt
  <2>2. m \in 1..Len(c) /\ Len(c) \in Nat  BY <1>0
  <2> HIDE DEF m, c
  <2> QED  BY <2>1, <2>2
<1> HIDE DEF m
<1>5. run'[s] # Idle /\ run'[s].pc = h.pc + 1 /\ run'[s].req = r
  <2>1. h.pc + 1 <= Len(CallsOf[h.req]) /\ h.pc + 1 \in Nat /\ h.pc + 1 >= 1  BY <1>0, <1>4 DEF m
  <2>2. Len(CallsOf[h.req]) \in Nat /\ DOMAIN h = Fields /\ DOMAIN run = Slots  BY <1>0
  <2>3. run'[s].req = h.req /\ run'[s].pc = h.pc + 1 /\ run'[s] # Idle
    <3> HIDE DEF h
    <3> QED  BY <1>3, <2>1, <2>2, SkipAhead DEF Fields
  <2> QED  BY <2>3
<1> HIDE DEF h
<1> DEFINE n == run'[s].pc
<1>6. n \in Int /\ h.pc + 1 = n /\ h.pc + 3 = n + 2 /\ h.pc + 5 = n + 4  BY <1>0, <1>5
<1>7. SeekAt(c, n, "session", g) /\ SeekAt(c, n + 2, "contact", g) /\ SeekAt(c, n + 4, "apply", g)
  BY <1>2, <1>6
<1> HIDE DEF n
<1>8. n >= 1 /\ n \in Int  BY <1>0, <1>6
<1>9. Seeking(run[s], "session", g)'
  <2>0. n + 1 <= Len(c) /\ Len(c) \in Int /\ c[n].do = "Find"  BY <1>0, <1>7 DEF SeekAt
  <2>3. n \in 1..Len(c) /\ \A k \in 1..n : n <= k => k = n  BY <1>8, <2>0
  <2>1. n \in 1..Len(c) /\ \A k \in 1..n : n <= k => c[k].do \in Seeks
    BY <2>0, <2>3 DEF Seeks
  <2>2. n <= n  BY <1>8
  <2> QED  BY <1>5, <1>7, <2>1, <2>2 DEF Seeking, n
<1>10. Seeking(run[s], "contact", g)'
  <2> DEFINE j == n + 2
  <2>0. j + 1 <= Len(c) /\ Len(c) \in Int  BY <1>0, <1>7 DEF SeekAt
  <2>1. j \in 1..Len(c) /\ n <= j /\ \A k \in 1..j : n <= k => k \in {n, n + 1, n + 2}
    BY <1>8, <2>0
  <2>2. \A k \in {n, n + 1, n + 2} : c[k].do \in Seeks  BY <1>7 DEF SeekAt, Seeks
  <2>3. \A k \in 1..j : n <= k => c[k].do \in Seeks  BY <2>1, <2>2
  <2>4. SeekAt(c, j, "contact", g)  BY <1>7
  <2> HIDE DEF j
  <2> QED  BY <1>5, <2>1, <2>3, <2>4 DEF Seeking, n
<1>11. Seeking(run[s], "apply", g)'
  <2> DEFINE j == n + 4
  <2>0. j + 1 <= Len(c) /\ Len(c) \in Int  BY <1>0, <1>7 DEF SeekAt
  <2>1. j \in 1..Len(c) /\ n <= j /\ \A k \in 1..j : n <= k => k \in {n, n + 1, n + 2, (n + 2) + 1, n + 4}
    BY <1>8, <2>0
  <2>2. \A k \in {n, n + 1, n + 2, (n + 2) + 1, n + 4} : c[k].do \in Seeks  BY <1>7 DEF SeekAt, Seeks
  <2>3. \A k \in 1..j : n <= k => c[k].do \in Seeks  BY <2>1, <2>2
  <2>4. SeekAt(c, j, "apply", g)  BY <1>7
  <2> HIDE DEF j
  <2> QED  BY <1>5, <2>1, <2>3, <2>4 DEF Seeking, n
<1> QED  BY <1>5, <1>9, <1>10, <1>11 DEF h, r

\* The row that a handler writes back is the row of a live group.
LEMMA ChangedLives ==
  ASSUME NEW g \in GroupRow, NEW how, NEW u
  PROVE  Changed(g, how, u).live = g.live
<1>1. DOMAIN g = {"live", "members", "cnt", "status"}  BY DEF GroupRow
<1>2. CASE how = "enter"
  <2>1. Changed(g, how, u) = [g EXCEPT !.members = Append(@, u), !.cnt = @ + 1]  BY <1>2 DEF Changed
  <2> QED  BY <1>1, <2>1
<1>3. CASE how = "pass"
  <2>1. Changed(g, how, u) = [g EXCEPT !.members = Append(@, u), !.cnt = Len(g.members) + 1]  BY <1>3 DEF Changed
  <2> QED  BY <1>1, <2>1
<1>4. CASE how = "leave"
  <2>1. Changed(g, how, u) = [g EXCEPT !.members = RemoveFirst(@, u), !.cnt = @ - 1]  BY <1>4 DEF Changed
  <2> QED  BY <1>1, <2>1
<1>5. CASE how \notin {"enter", "pass", "leave"}
  <2>1. Changed(g, how, u) = g  BY <1>5 DEF Changed
  <2> QED  BY <2>1
<1> QED  BY <1>2, <1>3, <1>4, <1>5

\* A group goes in no other way.
LEMMA GroupGoes ==
  ASSUME Typed, NEW s \in Slots, Step(s), NEW g \in Groups, groups[g].live, ~groups'[g].live
  PROVE  CallOf(s).do = "UpdateGroup" /\ CallOf(s).group = g /\ run[s].req.op \in {"DismissGroup", "DeleteGroups"}
<1> DEFINE c == CallOf(s)
           h == run[s]
<1>0. h # Idle /\ Fits(h.req, c) /\ BodyOK(h) /\ DOMAIN groups = Groups /\ groups[g] \in GroupRow
  BY StepLeaves, Here DEF Typed
<1>1. c.do \in {"InsertGroup", "SaveGroup", "UpdateGroup"}  BY Leaves
<1>2. ASSUME c.do = "InsertGroup"  PROVE FALSE
  <2>1. groups' = [groups EXCEPT ![c.group] = [live |-> TRUE, members |-> <<OwnerOf[c.group]>>, cnt |-> 1,
                                               status |-> "NORMAL"]]
    BY <1>2, ActionOf DEF InsertGroupRow
  <2> DEFINE row == [live |-> TRUE, members |-> <<OwnerOf[c.group]>>, cnt |-> 1, status |-> "NORMAL"]
  <2>2. row.live  OBVIOUS
  <2> HIDE DEF row, c
  <2>3. groups' = [groups EXCEPT ![c.group] = row]  BY <2>1 DEF row
  <2> QED  BY <1>0, <2>2, <2>3
<1>3. ASSUME c.do = "SaveGroup"  PROVE FALSE
  <2>1. SaveGroupRow(s)  BY <1>3, ActionOf
  <2>2. CASE ~h.group.live
    <3>1. groups' = groups  BY <2>1, <2>2 DEF SaveGroupRow
    <3> QED  BY <3>1
  <2>3. CASE h.group.live
    <3> DEFINE row == Changed(h.group, c.how, c.who)
    <3>1. groups' = [groups EXCEPT ![h.uuid] = row]  BY <2>1, <2>3 DEF SaveGroupRow
    <3>2. row.live
      <4>1. h.group \in GroupRow  BY <1>0 DEF BodyOK
      <4> QED  BY <2>3, <4>1, ChangedLives
    <3> HIDE DEF row
    <3> QED  BY <1>0, <3>1, <3>2
  <2> QED  BY <2>2, <2>3
<1>4. ASSUME c.do = "UpdateGroup"
      PROVE  c.group = g /\ h.req.op \in {"DismissGroup", "DeleteGroups"}
  <2>1. groups' = IF ~groups[c.group].live THEN groups
                  ELSE IF c.field = "deleted_at" THEN [groups EXCEPT ![c.group].live = FALSE]
                  ELSE [groups EXCEPT ![c.group].status = c.field]
    BY <1>4, ActionOf DEF UpdateGroupRow
  <2>2. \/ c.field = "deleted_at" /\ h.req.op \in {"DismissGroup", "DeleteGroups"}
        \/ c.field \in GroupSts
    BY <1>0, <1>4 DEF Fits, GroupCall
  <2> HIDE DEF c
  <2>3. CASE c.field = "deleted_at"
    <3>1. c.field \notin GroupSts  BY <2>3 DEF GroupSts
    <3>2. c.group = g  BY <1>0, <2>1, <2>3
    <3> QED  BY <2>2, <3>1, <3>2
  <2>4. CASE c.field # "deleted_at"
    <3> DEFINE row == [groups[c.group] EXCEPT !.status = c.field]
    <3>1. groups' = groups \/ groups' = [groups EXCEPT ![c.group] = row]  BY <2>1, <2>4
    <3>2. CASE c.group = g
      <4>1. row.live = groups[g].live  BY <1>0, <3>2 DEF GroupRow
      <4> HIDE DEF row
      <4> QED  BY <1>0, <3>1, <3>2, <4>1
    <3>3. CASE c.group # g
      <4> HIDE DEF row
      <4> QED  BY <1>0, <3>1, <3>3
    <3> QED  BY <3>2, <3>3
  <2> QED  BY <2>3, <2>4
<1> QED  BY <1>1, <1>2, <1>3, <1>4

-----------------------------------------------------------------------------
(* The contacts, applications and sessions of a group that is gone: there are  *)
(* none, or the handler that dismissed it is about to hide them.               *)
Vacating(t, g, y) == Vacant(t, g, y) \/ \E s \in Slots : On(s, y) /\ Dismissing(run[s], t, g, y)

GroundClear(g) == ~groups[g].live => \A t \in {"contact", "apply"} : Vacating(t, g, OfGroup(g))

\* Who puts a row to the group in, or writes one back, has found that it exists.
Grounded(h, g) == h.req.op \in Vouching /\ g \in {h.req.owner, h.req.contact} /\ h.pc # 1 => groups[g].live

GroundOK(g) == GroundClear(g) /\ \A s \in Slots : On(s, OfGroup(g)) => Grounded(run[s], g)

LEMMA DismissingElsewhere ==
  ASSUME Typed, NEW t \in Tables, NEW g, NEW y, Elsewhere(y), NEW s \in Slots, On(s, y), Dismissing(run[s], t, g, y)
  PROVE  On(s, y)' /\ Dismissing(run[s], t, g, y)'
<1>1. run'[s] = run[s]  BY DEF Elsewhere
<1>2. On(s, y)'  BY <1>1 DEF On
<1>3. CASE Seeking(run[s], t, g)  BY <1>1, <1>2, <1>3 DEF Dismissing, Seeking
<1>4. CASE Emptying(run[s], t, g, y)
  <2>1. \A i \in 1..Len(rows'[t]) : HasTopic(t, i, y)' => i \in 1..Len(rows[t]) /\ rows'[t][i] = rows[t][i]
    BY DEF Elsewhere, HasTopic
  <2>2. \A i \in 1..Len(rows'[t]) : LiveRow(t, i)' /\ HasTopic(t, i, y)' /\ rows'[t][i].to = g =>
          \E n \in 1..Len(run[s].held) : run[s].held[n].id = i
    BY <1>4, <2>1 DEF Emptying, LiveRow, HasTopic
  <2>3. Emptying(run[s], t, g, y)'  BY <1>1, <1>4, <2>2 DEF Emptying
  <2> QED  BY <1>2, <2>3 DEF Dismissing
<1> QED  BY <1>3, <1>4 DEF Dismissing

LEMMA VacatingElsewhere ==
  ASSUME Typed, NEW t \in Tables, NEW g, NEW y, Elsewhere(y), Vacating(t, g, y)
  PROVE  Vacating(t, g, y)'
<1>1. CASE Vacant(t, g, y)
  <2>1. \A i \in 1..Len(rows'[t]) : HasTopic(t, i, y)' => i \in 1..Len(rows[t]) /\ rows'[t][i] = rows[t][i]
    BY DEF Elsewhere, HasTopic
  <2>2. Vacant(t, g, y)'  BY <1>1, <2>1 DEF Vacant, LiveRow, HasTopic
  <2> QED  BY <2>2 DEF Vacating
<1>2. ASSUME NEW s \in Slots, On(s, y), Dismissing(run[s], t, g, y)  PROVE Vacating(t, g, y)'
  <2>1. On(s, y)' /\ Dismissing(run[s], t, g, y)'  BY <1>2, DismissingElsewhere
  <2> QED  BY <2>1 DEF Vacating
<1> QED  BY <1>1, <1>2 DEF Vacating

LEMMA VacatingBegins ==
  ASSUME NEW t, NEW g, NEW y, NEW s \in Slots, Begins(s, y), Vacating(t, g, y)
  PROVE  Vacating(t, g, y)'
<1>1. /\ run[s] = Idle /\ rows' = rows /\ \A q \in Slots : q # s => ~On(q, y)
  BY DEF Begins, tables
<1>2. Vacant(t, g, y)  BY <1>1 DEF Vacating, On
<1>3. Vacant(t, g, y)'  BY <1>1, <1>2 DEF Vacant, LiveRow, HasTopic
<1> QED  BY <1>3 DEF Vacating

\* While the handler works at what it is about, there are none or it is still at it,
\* unless it brings a row to the group to life.
LEMMA VacatingWorks ==
  ASSUME Typed, NEW t \in Tables, NEW g, NEW y, NEW s \in Slots, Works(s, y), Vacating(t, g, y)
  PROVE  \/ Vacating(t, g, y)'
         \/ Vacant(t, g, y) /\ \E i \in 1..Len(rows'[t]) :
              /\ rows'[t][i].live /\ HasTopic(t, i, y)' /\ rows'[t][i].to = g
              /\ ~(LiveRow(t, i) /\ HasTopic(t, i, y) /\ rows[t][i].to = g)
<1>0. Step(s) /\ On(s, y) /\ StepTyped(s) /\ \A q \in Slots : q # s => ~On(q, y)  BY DEF Works
<1>1. run'[s] # Idle => On(s, y)'
  <2>1. Moved(s)  BY <1>0 DEF StepTyped
  <2> QED  BY <1>0, <2>1 DEF Moved, On
<1>2. CASE Vacant(t, g, y)
  <2> SUFFICES ASSUME ~Vacant(t, g, y)'
               PROVE  \E i \in 1..Len(rows'[t]) :
                        /\ rows'[t][i].live /\ HasTopic(t, i, y)' /\ rows'[t][i].to = g
                        /\ ~(LiveRow(t, i) /\ HasTopic(t, i, y) /\ rows[t][i].to = g)
    BY <1>2 DEF Vacating
  <2>1. PICK i \in 1..Len(rows'[t]) : LiveRow(t, i)' /\ HasTopic(t, i, y)' /\ rows'[t][i].to = g
    BY DEF Vacant
  <2>2. ~(LiveRow(t, i) /\ HasTopic(t, i, y) /\ rows[t][i].to = g)  BY <1>2 DEF Vacant, LiveRow
  <2>3. rows'[t][i].live  BY <2>1 DEF LiveRow
  <2> QED  BY <2>1, <2>2, <2>3
<1>3. ASSUME NEW q \in Slots, On(q, y), Dismissing(run[q], t, g, y)  PROVE Vacating(t, g, y)'
  <2>1. q = s  BY <1>0, <1>3
  <2>2. Vacant(t, g, y)' \/ (run'[s] # Idle /\ Dismissing(run[s], t, g, y)')  BY <1>0, <1>3, <2>1, DismissingStep
  <2> QED  BY <1>1, <2>2 DEF Vacating
<1> QED  BY <1>2, <1>3 DEF Vacating

\* Who dismisses the group of the topic goes on to hide the rows.
LEMMA VacatingStarts ==
  ASSUME Typed, NEW t \in Tables, NEW g \in Groups, NEW y, NEW s \in Slots, Works(s, y),
         groups[g].live, ~groups'[g].live
  PROVE  Vacating(t, g, y)'
<1>0. Step(s) /\ On(s, y) /\ StepTyped(s)  BY DEF Works
<1>1. CallOf(s).do = "UpdateGroup" /\ CallOf(s).group = g /\ run[s].req.op \in {"DismissGroup", "DeleteGroups"}
  BY <1>0, GroupGoes
<1>2. run'[s] # Idle /\ Seeking(run[s], t, g)'
  <2>1. /\ run'[s] # Idle /\ Seeking(run[s], "session", g)'
        /\ Seeking(run[s], "contact", g)' /\ Seeking(run[s], "apply", g)'
    BY <1>0, <1>1, MarkThenSeek
  <2> QED  BY <2>1 DEF Tables
<1>3. On(s, y)'
  <2>1. Moved(s)  BY <1>0 DEF StepTyped
  <2> QED  BY <1>0, <1>2, <2>1 DEF Moved, On
<1> QED  BY <1>2, <1>3 DEF Vacating, Dismissing

LEMMA GroupTopicOf ==
  ASSUME NEW g \in Groups, NEW u \in Users, NEW x, NEW t \in {"contact", "apply"}
  PROVE  /\ Topic(t, u, g) = OfGroup(g) /\ Between(u, g) = OfGroup(g) /\ g \in Ids
         /\ OfGroup(g) = OfGroup(x) => g = x
<1>1. g \notin Users  BY MembershipAssumption
<1> QED  BY <1>1 DEF Topic, Between, OfGroup, Ids

LEMMA ElsewhereGround ==
  ASSUME Typed, NEW g \in Groups, GroundOK(g), Elsewhere(OfGroup(g))
  PROVE  GroundOK(g)'
<1>1. groups'[g] = groups[g]  BY DEF Elsewhere
<1>2. ASSUME ~groups'[g].live, NEW t \in {"contact", "apply"}  PROVE Vacating(t, g, OfGroup(g))'
  <2>1. Vacating(t, g, OfGroup(g))  BY <1>1, <1>2 DEF GroundOK, GroundClear
  <2> QED  BY <2>1, VacatingElsewhere, TablesAre
<1>3. ASSUME NEW s \in Slots, On(s, OfGroup(g))'  PROVE Grounded(run[s], g)'
  <2>1. On(s, OfGroup(g)) /\ run'[s] = run[s]  BY <1>3 DEF Elsewhere
  <2>2. Grounded(run[s], g)  BY <2>1 DEF GroundOK
  <2> QED  BY <1>1, <2>1, <2>2 DEF Grounded
<1> QED  BY <1>2, <1>3 DEF GroundOK, GroundClear

LEMMA BeginsGround ==
  ASSUME Typed, NEW g \in Groups, GroundOK(g), NEW s \in Slots, Begins(s, OfGroup(g))
  PROVE  GroundOK(g)'
<1>1. groups' = groups /\ \A q \in Slots : q # s => ~On(q, OfGroup(g))'  BY DEF Begins, tables
<1>2. ASSUME ~groups'[g].live, NEW t \in {"contact", "apply"}  PROVE Vacating(t, g, OfGroup(g))'
  <2>1. Vacating(t, g, OfGroup(g))  BY <1>1, <1>2 DEF GroundOK, GroundClear
  <2> QED  BY <2>1, VacatingBegins
<1>3. Grounded(run[s], g)'
  <2>1. run'[s].pc = 1  BY DEF Begins, NewHandler
  <2> QED  BY <2>1 DEF Grounded
<1> QED  BY <1>1, <1>2, <1>3 DEF GroundOK, GroundClear

\* A handler that goes on after reading the row of a group has found it.
LEMMA GroupFound ==
  ASSUME Typed, NEW s \in Slots, Step(s), CallOf(s).do = "FirstGroup", run'[s] # Idle
  PROVE  groups[CallOf(s).group].live /\ groups' = groups
<1> DEFINE c == CallOf(s)
           g == IF groups[c.group].live THEN groups[c.group] ELSE NoGroup
<1>1. ReadGroup(s) /\ groups' = groups  BY ActionOf, Leaves
<1>2. DOMAIN run = Slots  BY StepLeaves, Here
<1>3. ASSUME ~(g.live)  PROVE FALSE
  <2>1. Return(s)  BY <1>1, <1>3 DEF ReadGroup
  <2> QED  BY <1>2, <2>1 DEF Return
<1>4. groups[c.group].live
  <2>1. ~NoGroup.live  BY DEF NoGroup
  <2> QED  BY <1>3, <2>1
<1> QED  BY <1>1, <1>4

LEMMA WorksGroundClear ==
  ASSUME Typed, HandsOwn, NEW g \in Groups, GroundOK(g), NEW s \in Slots, Works(s, OfGroup(g)),
         ~groups'[g].live, NEW t \in {"contact", "apply"}
  PROVE  Vacating(t, g, OfGroup(g))'
<1> DEFINE y == OfGroup(g)
<1>0. Step(s) /\ On(s, y) /\ rows' \in [Tables -> Seq(Row)] /\ t \in Tables
  BY TablesAre DEF Works, StepTyped, RowsFrame
<1>1. CASE groups[g].live  BY <1>0, <1>1, VacatingStarts
<1>2. CASE ~groups[g].live
  <2>1. Vacating(t, g, y)  BY <1>2 DEF GroundOK, GroundClear
  <2>2. ASSUME Vacant(t, g, y), NEW i \in 1..Len(rows'[t]), rows'[t][i].live, rows'[t][i].to = g,
               ~(LiveRow(t, i) /\ HasTopic(t, i, y) /\ rows[t][i].to = g)
        PROVE  FALSE
    <3> DEFINE u == rows'[t][i].user
    <3>1. u \in Users
      <4>1. rows'[t] \in Seq(Row)  BY <1>0
      <4>2. rows'[t][i] \in Row  BY <4>1, ElementOfSeq
      <4> QED  BY <4>2 DEF Row
    <3>2. g \in Ids /\ g \notin Users  BY MembershipAssumption DEF Ids
    <3>3. Tying(rows'[t][i], u, g)  BY <2>2 DEF Tying
    <3> HIDE DEF u
    <3>4. (LiveRow(t, i) /\ Sides(t, i) = {u, g}) \/ Asks(run[s], u, g)  BY <1>0, <2>2, <3>1, <3>2, <3>3, TiedBy
    <3>5. ASSUME LiveRow(t, i), Sides(t, i) = {u, g}  PROVE FALSE
      <4>1. rows[t][i] \in Row  BY <1>0, <3>5, TypedRow DEF LiveRow
      <4>2. rows[t][i].user \in Users  BY <4>1 DEF Row
      <4>3. rows[t][i].to = g  BY <3>2, <3>5, <4>2 DEF Sides
      <4>4. HasTopic(t, i, y)  BY <4>2, <4>3, GroupTopicOf DEF HasTopic
      <4> QED  BY <2>2, <3>5, <4>3, <4>4
    <3>6. ASSUME Asks(run[s], u, g)  PROVE FALSE
      <4>1. run[s].req.op \in Vouching /\ g \in {run[s].req.owner, run[s].req.contact} /\ run[s].pc # 1
        BY <3>6 DEF Asks
      <4>2. Grounded(run[s], g)  BY <1>0 DEF GroundOK
      <4> QED  BY <1>2, <4>1, <4>2 DEF Grounded
    <3> QED  BY <3>4, <3>5, <3>6
  <2> QED  BY <1>0, <2>1, <2>2, VacatingWorks
<1> QED  BY <1>1, <1>2

LEMMA WorksGrounded ==
  ASSUME Typed, NEW g \in Groups, GroundOK(g), NEW s \in Slots, Works(s, OfGroup(g)), run'[s] # Idle
  PROVE  Grounded(run[s], g)'
<1> DEFINE y == OfGroup(g)
           h == run[s]
           r == h.req
           c == CallsOf[r]
           d == CallOf(s)
<1>0. /\ Step(s) /\ On(s, y) /\ h # Idle /\ r \in Requests /\ Fits(r, d) /\ run'[s].req = r
      /\ d = c[h.pc] /\ h.pc \in 1..Len(c) /\ h.pc \in Int /\ DOMAIN groups = Groups
      /\ \A q \in Slots : q # s => ~On(q, y)
  BY StepLeaves, Here, FieldsKept DEF Works, Typed
<1> SUFFICES ASSUME r.op \in Vouching, g \in {r.owner, r.contact}  PROVE groups'[g].live
  BY <1>0 DEF Grounded
<1>1. groups[g].live => groups'[g].live
  <2>1. r.op \notin {"DismissGroup", "DeleteGroups"}  BY DEF Vouching
  <2> QED  BY <1>0, <2>1, GroupGoes
<1>2. g \notin Users  BY MembershipAssumption
<1>3. CASE h.pc # 1
  <2>1. Grounded(h, g)  BY <1>0 DEF GroundOK
  <2> QED  BY <1>1, <1>3, <2>1 DEF Grounded
<1>4. CASE h.pc = 1
  <2>0. d = c[1]  BY <1>0, <1>4
  <2>1. CASE r.op = "CreateGroup"
    <3>1. c = CreateGroup(r.owner, r.contact) /\ r.owner \in Users  BY <1>0, <2>1, CreateGroupCalls
    <3>2. r.contact = g  BY <1>2, <3>1
    <3>3. d.do = "InsertGroup" /\ d.group = g  BY <2>0, <3>1, <3>2 DEF CreateGroup, InsertGroup
    <3> DEFINE row == [live |-> TRUE, members |-> <<OwnerOf[d.group]>>, cnt |-> 1, status |-> "NORMAL"]
    <3>4. groups' = [groups EXCEPT ![d.group] = row]  BY <1>0, <3>3, ActionOf DEF InsertGroupRow
    <3>5. row.live  OBVIOUS
    <3> HIDE DEF row, d
    <3> QED  BY <1>0, <3>3, <3>4, <3>5
  <2>2. CASE r.op \in {"EnterGroupDirectly", "ApplyContact"}
    <3>1. d.do = "FirstGroup" /\ d.group = g
      <4>1. CASE r.op = "EnterGroupDirectly"
        <5>1. c = EnterGroupDirectly(r.owner, r.contact) /\ r.contact \in Users  BY <1>0, <4>1, EnterGroupCalls
        <5>2. r.owner = g  BY <1>2, <5>1
        <5> QED  BY <2>0, <5>1, <5>2 DEF EnterGroupDirectly, FirstGroup
      <4>2. CASE r.op = "ApplyContact"
        <5>1. c = ApplyContact(r.owner, r.contact) /\ r.owner \in Users  BY <1>0, <4>2, ApplyContactCalls
        <5>2. r.contact = g  BY <1>2, <5>1
        <5> QED  BY <1>2, <2>0, <5>1, <5>2 DEF ApplyContact, FirstGroup
      <4> QED  BY <2>2, <4>1, <4>2
    <3> QED  BY <1>0, <3>1, GroupFound
  <2>3. CASE r.op \notin {"CreateGroup", "EnterGroupDirectly", "ApplyContact"}
    <3> DEFINE t == d.table
               i == FirstId(d)
    <3>1. d.do = "First" /\ t \in {"contact", "apply"}  BY <1>0, <2>0, <2>3, FirstLook
    <3>2. Taken(s, d, h, 1)  BY <1>0, <3>1, FirstTakes
    <3>3. i \in Matching(d)  BY <3>2 DEF Taken
    <3>4. t \in Tables  BY <3>1, TablesAre
    <3>5. OwnCall(r, d)
      <4>1. OwnCalls(r)  BY <1>0, VouchingOwn
      <4> QED  BY <1>0, <4>1 DEF OwnCalls
    <3>6. {d.user, d.to} = {r.owner, r.contact}  BY <3>1, <3>5 DEF OwnCall
    <3>7. c[h.pc].do = "First"  BY <1>0, <3>1
    <3> HIDE DEF i, d
    <3>8. i \in 1..Len(rows[t]) /\ rows[t][i].live /\ rows[t][i].user = d.user /\ rows[t][i].to = d.to
      BY <3>3, <3>4, Matched DEF d
    <3>9. rows[t][i].user \in Users /\ rows[t][i].to = g
      <4>1. rows[t][i] \in Row  BY <3>4, <3>8, TypedRow
      <4>2. rows[t][i].user \in Users  BY <4>1 DEF Row
      <4>3. g \in {d.user, d.to}  BY <3>6
      <4> QED  BY <1>2, <3>8, <4>2, <4>3
    <3> HIDE DEF t
    <3>10. ~Vacant(t, g, y)
      <4>1. HasTopic(t, i, y)
        <5>1. t \in {"contact", "apply"}  BY <3>1 DEF t, d
        <5> QED  BY <3>9, <5>1, GroupTopicOf DEF HasTopic
      <4> QED  BY <3>8, <3>9, <4>1 DEF Vacant, LiveRow
    <3>11. ~Dismissing(h, t, g, y)
      <4>1. ~Emptying(h, t, g, y)  BY <3>7 DEF Emptying
      <4>2. ASSUME Seeking(h, t, g)  PROVE FALSE
        <5>1. PICK p \in 1..Len(c) : h.pc <= p /\ \A k \in 1..p : h.pc <= k => c[k].do \in Seeks
          BY <4>2 DEF Seeking
        <5>2. h.pc \in 1..p /\ h.pc <= h.pc  BY <1>0, <5>1
        <5>3. c[h.pc].do \in Seeks  BY <5>1, <5>2
        <5> QED  BY <3>7, <5>3 DEF Seeks
      <4> QED  BY <4>1, <4>2 DEF Dismissing
    <3>12. ~Vacating(t, g, y)  BY <1>0, <3>10, <3>11 DEF Vacating
    <3>13. groups[g].live
      <4>1. t \in {"contact", "apply"}  BY <3>1 DEF t, d
      <4> QED  BY <3>12, <4>1 DEF GroundOK, GroundClear
    <3> QED  BY <1>1, <3>13
  <2> QED  BY <2>1, <2>2, <2>3
<1> QED  BY <1>3, <1>4

LEMMA GroundStep ==
  ASSUME Typed, Apart, HandsOwn, [Next]_vars, NEW g \in Groups, OfGroup(g) \notin disturbed', GroundOK(g)
  PROVE  GroundOK(g)'
<1> DEFINE y == OfGroup(g)
<1>1. Elsewhere(y) \/ \E s \in Slots : Begins(s, y) \/ Works(s, y)  BY StepAbout
<1>2. CASE Elsewhere(y)  BY <1>2, ElsewhereGround
<1>3. ASSUME NEW s \in Slots, Begins(s, y)  PROVE GroundOK(g)'
  BY <1>3, BeginsGround
<1>4. ASSUME NEW s \in Slots, Works(s, y)  PROVE GroundOK(g)'
  <2>1. \A t \in {"contact", "apply"} : ~groups'[g].live => Vacating(t, g, y)'  BY <1>4, WorksGroundClear
  <2>2. \A q \in Slots : q # s => ~On(q, y)'  BY <1>4 DEF Works
  <2>3. run'[s] # Idle => Grounded(run[s], g)'  BY <1>4, WorksGrounded
  <2> QED  BY <2>1, <2>2, <2>3 DEF GroundOK, GroundClear, On
<1> QED  BY <1>1, <1>2, <1>3, <1>4

-----------------------------------------------------------------------------
(* The same for the sessions of one user with the group. *)
TalkGrounded(h, g) == h.req.op = "OpenSession" /\ h.pc = 4 => groups[g].live

TalkGround(u, g) ==
  /\ ~groups[g].live => Vacating("session", g, OfTalk(u, g))
  /\ \A s \in Slots : On(s, OfTalk(u, g)) => TalkGrounded(run[s], g)

LEMMA ElsewhereTalk ==
  ASSUME Typed, NEW u \in Users, NEW g \in Groups, TalkGround(u, g), Elsewhere(OfTalk(u, g))
  PROVE  TalkGround(u, g)'
<1> DEFINE y == OfTalk(u, g)
<1>1. groups'[g] = groups[g]  BY DEF Elsewhere
<1>2. ASSUME ~groups'[g].live  PROVE Vacating("session", g, y)'
  <2>1. Vacating("session", g, y)  BY <1>1, <1>2 DEF TalkGround
  <2> QED  BY <2>1, VacatingElsewhere, TablesAre
<1>3. ASSUME NEW s \in Slots, On(s, y)'  PROVE TalkGrounded(run[s], g)'
  <2>1. On(s, y) /\ run'[s] = run[s]  BY <1>3 DEF Elsewhere
  <2>2. TalkGrounded(run[s], g)  BY <2>1 DEF TalkGround
  <2> QED  BY <1>1, <2>1, <2>2 DEF TalkGrounded
<1> QED  BY <1>2, <1>3 DEF TalkGround

LEMMA BeginsTalk ==
  ASSUME Typed, NEW u \in Users, NEW g \in Groups, TalkGround(u, g), NEW s \in Slots, Begins(s, OfTalk(u, g))
  PROVE  TalkGround(u, g)'
<1> DEFINE y == OfTalk(u, g)
<1>1. groups' = groups /\ \A q \in Slots : q # s => ~On(q, y)'  BY DEF Begins, tables
<1>2. ASSUME ~groups'[g].live  PROVE Vacating("session", g, y)'
  <2>1. Vacating("session", g, y)  BY <1>1, <1>2 DEF TalkGround
  <2> QED  BY <2>1, VacatingBegins
<1>3. TalkGrounded(run[s], g)'
  <2>1. run'[s].pc = 1  BY DEF Begins, NewHandler
  <2> QED  BY <2>1 DEF TalkGrounded
<1> QED  BY <1>1, <1>2, <1>3 DEF TalkGround

LEMMA WorksTalk ==
  ASSUME Typed, NEW u \in Users, NEW g \in Groups, SessionOK(OfTalk(u, g)), TalkGround(u, g),
         NEW s \in Slots, Works(s, OfTalk(u, g))
  PROVE  TalkGround(u, g)'
<1> DEFINE y == OfTalk(u, g)
           h == run[s]
           r == h.req
           c == CallsOf[r]
           d == CallOf(s)
<1>0. /\ Step(s) /\ On(s, y) /\ h # Idle /\ r \in Requests /\ d = c[h.pc] /\ h.pc \in Int
      /\ \A q \in Slots : q # s => ~On(q, y)'
  BY StepLeaves, Here DEF Works
<1>1. g \in Ids /\ g \notin Users  BY MembershipAssumption DEF Ids
<1>2. ASSUME ~groups'[g].live  PROVE Vacating("session", g, y)'
  <2>1. CASE groups[g].live  BY <1>2, <2>1, VacatingStarts, TablesAre
  <2>2. CASE ~groups[g].live
    <3>1. Vacating("session", g, y)  BY <2>2 DEF TalkGround
    <3>2. ASSUME Vacant("session", g, y), NEW i \in 1..Len(rows'["session"]), rows'["session"][i].live,
                 HasTopic("session", i, y)', rows'["session"][i].to = g,
                 ~(LiveRow("session", i) /\ HasTopic("session", i, y) /\ rows["session"][i].to = g)
          PROVE  FALSE
      <4>1. Came("session", i) \/ NewRow(s, "session", i)  BY <3>2, SessionRows
      <4>2. CASE Came("session", i)  BY <3>2, <4>2 DEF Came, HasTopic
      <4>3. CASE NewRow(s, "session", i)
        <5>1. d.do = "Insert" /\ d.table = "session"  BY <4>3 DEF NewRow
        <5>2. r.op = "OpenSession" /\ h.pc = 4  BY <1>0, <5>1, PuttingSession
        <5>3. TalkGrounded(h, g)  BY <1>0 DEF TalkGround
        <5> QED  BY <2>2, <5>2, <5>3 DEF TalkGrounded
      <4> QED  BY <4>1, <4>2, <4>3
    <3> QED  BY <3>1, <3>2, VacatingWorks, TablesAre
  <2> QED  BY <2>1, <2>2
<1>3. ASSUME run'[s] # Idle, r.op = "OpenSession", run'[s].pc = 4  PROVE groups'[g].live
  <2>1. r.owner = u /\ r.contact = g  BY <1>0, <1>3, TalkIs DEF On
  <2>2. /\ c[1].do = "IfNone" /\ c[2].do = "FirstUser" /\ c[3].do = "FirstGroup" /\ c[3].group = g
        /\ c[4].do = "Insert" /\ c[5].do = "Forget" /\ c[6].do = "Forget" /\ Len(c) = 6
    BY <1>0, <1>1, <1>3, <2>1, OpenShape
  <2>3. h.pc \in 1..6  BY <1>0, <2>2, Here
  <2>4. d.do \in {"IfNone", "FirstUser", "FirstGroup", "Insert", "Forget"}
    <3>1. h.pc \in {1, 2, 3, 4, 5, 6}  BY <2>3
    <3> QED  BY <1>0, <2>2, <3>1
  <2>5. run'[s].pc = h.pc + 1  BY <1>0, <1>3, <2>4, FieldsKept
  <2>6. h.pc = 3  BY <1>0, <1>3, <2>5
  <2>7. d.do = "FirstGroup" /\ d.group = g  BY <1>0, <2>2, <2>6
  <2> QED  BY <1>0, <1>3, <2>7, GroupFound
<1>4. run'[s] # Idle => TalkGrounded(run[s], g)'
  <2>1. run'[s] # Idle => run'[s].req = r  BY <1>0, FieldsKept
  <2> QED  BY <1>3, <2>1 DEF TalkGrounded
<1> QED  BY <1>0, <1>2, <1>4 DEF TalkGround, On

GroundsOK ==
  \A g \in Groups :
    /\ OfGroup(g) \notin disturbed => GroundOK(g)
    /\ \A u \in Users : OfTalk(u, g) \notin disturbed => TalkGround(u, g)

LEMMA InitGrounds == Init => GroundsOK
<1> SUFFICES ASSUME Init, NEW g \in Groups  PROVE GroundOK(g) /\ \A u \in Users : TalkGround(u, g)
  BY DEF GroundsOK
<1>1. \A s \in Slots : \A y : ~On(s, y)  BY DEF Init, On
<1>2. \A t \in Tables : \A y : Vacant(t, g, y)
  <2> TAKE t \in Tables
  <2> TAKE y
  <2>1. Len(rows[t]) = 0  BY InitRows
  <2>2. 1..Len(rows[t]) = {}  BY <2>1
  <2> QED  BY <2>2 DEF Vacant
<1> QED  BY <1>1, <1>2, TablesAre DEF GroundOK, GroundClear, TalkGround, Vacating

LEMMA GroundsStep ==
  Typed /\ Apart /\ SessionsOK /\ HandsOwn /\ GroundsOK /\ [Next]_vars => GroundsOK'
<1> SUFFICES ASSUME Typed, Apart, SessionsOK, HandsOwn, GroundsOK, [Next]_vars, NEW g \in Groups
             PROVE  /\ OfGroup(g) \notin disturbed' => GroundOK(g)'
                    /\ \A u \in Users : OfTalk(u, g) \notin disturbed' => TalkGround(u, g)'
  BY DEF GroundsOK
<1>0. disturbed \subseteq disturbed'  BY DisturbedGrows
<1>1. ASSUME OfGroup(g) \notin disturbed'  PROVE GroundOK(g)'
  <2>1. GroundOK(g)  BY <1>0, <1>1 DEF GroundsOK
  <2> QED  BY <1>1, <2>1, GroundStep
<1>2. ASSUME NEW u \in Users, OfTalk(u, g) \notin disturbed'  PROVE TalkGround(u, g)'
  <2> DEFINE y == OfTalk(u, g)
  <2>1. TalkGround(u, g) /\ SessionOK(y)
    <3>1. y \notin disturbed /\ g \in Ids  BY <1>0, <1>2 DEF Ids
    <3> QED  BY <3>1 DEF GroundsOK, SessionsOK
  <2>2. Elsewhere(y) \/ \E s \in Slots : Begins(s, y) \/ Works(s, y)  BY <1>2, StepAbout
  <2> QED  BY <2>1, <2>2, ElsewhereTalk, BeginsTalk, WorksTalk
<1> QED  BY <1>1, <1>2

LEMMA AlwaysGrounds == Spec => [](Typed /\ GroundsOK)
<1>1. Typed /\ Apart /\ SessionsOK /\ HandsOwn /\ GroundsOK /\ [Next]_vars => GroundsOK'  BY GroundsStep
<1> QED  BY <1>1, InitGrounds, AlwaysSessions, AlwaysOwn, PTL DEF Spec

\* At all times a group that is gone has left no contact, no application and no
\* session, unless requests about it overlapped or failed: DismissGroup and
\* DeleteGroups delete the group before they look for the rows, and who puts a row to
\* the group in, or writes one back, has found the group, or a row to it, first.
THEOREM DismissedLeaveNothing == Spec => []DismissedLeavesNothing
<1>1. ASSUME Typed, GroundsOK, NEW g \in Groups, ~groups[g].live, Quiet(OfGroup(g)), NEW t \in {"contact", "apply"},
             NEW i \in 1..Len(rows[t]), LiveRow(t, i), rows[t][i].to = g
      PROVE  FALSE
  <2>1. OfGroup(g) \notin disturbed /\ \A s \in Slots : ~On(s, OfGroup(g))  BY <1>1, QuietIs
  <2>2. GroundOK(g)  BY <1>1, <2>1 DEF GroundsOK
  <2>3. Vacant(t, g, OfGroup(g))  BY <1>1, <2>1, <2>2 DEF GroundOK, GroundClear, Vacating
  <2>4. HasTopic(t, i, OfGroup(g))
    <3>1. rows[t][i] \in Row  BY <1>1, TypedRow, TablesAre
    <3>2. rows[t][i].user \in Users  BY <3>1 DEF Row
    <3> QED  BY <1>1, <3>2, GroupTopicOf DEF HasTopic
  <2> QED  BY <1>1, <2>3, <2>4 DEF Vacant
<1>2. ASSUME Typed, GroundsOK, NEW g \in Groups, ~groups[g].live, NEW u \in Users, Quiet(OfTalk(u, g)),
             NEW i \in 1..Len(rows["session"]), LiveRow("session", i), rows["session"][i].user = u,
             rows["session"][i].to = g
      PROVE  FALSE
  <2>1. OfTalk(u, g) \notin disturbed /\ \A s \in Slots : ~On(s, OfTalk(u, g))  BY <1>2, QuietIs
  <2>2. TalkGround(u, g)  BY <1>2, <2>1 DEF GroundsOK
  <2>3. Vacant("session", g, OfTalk(u, g))  BY <1>2, <2>1, <2>2 DEF TalkGround, Vacating
  <2>4. HasTopic("session", i, OfTalk(u, g))  BY <1>2 DEF HasTopic, Topic
  <2> QED  BY <1>2, <2>3, <2>4 DEF Vacant
<1>3. Typed /\ GroundsOK => DismissedLeavesNothing
  <2> SUFFICES ASSUME Typed, GroundsOK, NEW g \in Groups, ~groups[g].live
               PROVE  /\ Quiet(OfGroup(g)) => LiveTo("contact", g) \cup LiveTo("apply", g) = {}
                      /\ \A u \in Users : Quiet(OfTalk(u, g)) => LiveFrom("session", u, g) = {}
    BY DEF DismissedLeavesNothing
  <2>1. \A t \in Tables : DOMAIN rows[t] = 1..Len(rows[t])  BY DEF Typed
  <2>2. \A t \in Tables : \A i \in LiveRows(t) : i \in 1..Len(rows[t]) /\ LiveRow(t, i)
    BY <2>1 DEF LiveRows, LiveRow
  <2>3. ASSUME Quiet(OfGroup(g)), NEW t \in {"contact", "apply"}, NEW x \in LiveTo(t, g)  PROVE FALSE
    <3>1. PICK i \in LiveRows(t) : rows[t][i].to = g  BY <2>3 DEF LiveTo
    <3>2. i \in 1..Len(rows[t]) /\ LiveRow(t, i)  BY <2>2, <2>3, TablesAre
    <3> QED  BY <1>1, <2>3, <3>1, <3>2
  <2>4. ASSUME NEW u \in Users, Quiet(OfTalk(u, g)), NEW i \in LiveFrom("session", u, g)  PROVE FALSE
    <3>1. i \in LiveRows("session") /\ rows["session"][i].user = u /\ rows["session"][i].to = g
      BY <2>4 DEF LiveFrom
    <3>2. i \in 1..Len(rows["session"]) /\ LiveRow("session", i)  BY <2>2, <3>1, TablesAre
    <3> QED  BY <1>2, <2>4, <3>1, <3>2
  <2> QED  BY <2>3, <2>4
<1> QED  BY <1>3, AlwaysGrounds, PTL

-----------------------------------------------------------------------------
(* Groups are created once. *)
Creates(h, g) == h.req.op = "CreateGroup" /\ h.req.contact = g

\* The request that creates g is still to be made.
ToCome(g) ==
  \E p \in sent + 1..Len(Scripts[script]) : \E r \in Scripts[script][p] : r.op = "CreateGroup" /\ r.contact = g

\* Nobody has seen the group.
Unseen(g) == ~groups[g].live /\ \A s \in Slots : run[s] # Idle /\ run[s].uuid = g => ~run[s].group.live

BirthsOK ==
  \A g \in Groups :
    /\ \A s \in Slots : run[s] # Idle /\ Creates(run[s], g) => ~ToCome(g)
    /\ ToCome(g) => Unseen(g)

\* What a handler that reads the row of a group has in hand.
LEMMA GroupRead1 ==
  ASSUME Typed, NEW s \in Slots, Step(s), CallOf(s).do \in {"FirstGroup", "FindGroup"}, run'[s] # Idle
  PROVE  /\ run'[s].uuid = CallOf(s).group /\ groups' = groups /\ CallOf(s).group \in Groups
         /\ groups[CallOf(s).group].live => run'[s].group = groups[CallOf(s).group]
         /\ run'[s].group.live => groups[CallOf(s).group].live
<1> DEFINE c == CallOf(s)
           h == run[s]
           g == IF groups[c.group].live THEN groups[c.group] ELSE NoGroup
           x == [h EXCEPT !.group = g, !.uuid = c.group]
<1>1. ReadGroup(s) /\ groups' = groups  BY ActionOf, Leaves
<1>2. DOMAIN run = Slots /\ h # Idle /\ BodyOK(h) /\ h.req \in Requests /\ Fits(h.req, c)  BY StepLeaves, Here
<1>3. GoOn(s, x)
  <2>1. GoOn(s, x) \/ Return(s)  BY <1>1 DEF ReadGroup
  <2>2. ~Return(s)  BY <1>2 DEF Return
  <2> QED  BY <2>1, <2>2
<1>4. c.group \in Groups  BY <1>2 DEF Fits, GroupCall
<1>5. x.uuid = c.group /\ x.group = g /\ DOMAIN x = Fields
  BY <1>2 DEF BodyOK, Fields
<1> HIDE DEF x
<1>6. run'[s] = [x EXCEPT !.pc = @ + 1]
  <2>1. ~(run' = [run EXCEPT ![s] = Idle])  BY <1>2
  <2> QED  BY <1>2, <1>3, <2>1 DEF GoOn, Skip, Return
<1>7. run'[s].uuid = c.group /\ run'[s].group = g
  BY <1>5, <1>6 DEF Fields
<1>8. ~NoGroup.live  BY DEF NoGroup
<1> QED  BY <1>1, <1>4, <1>7, <1>8

\* What becomes of the row of a group.
LEMMA GroupEvents ==
  ASSUME Typed, NEW s \in Slots, Step(s), NEW g \in Groups
  PROVE  \/ groups'[g] = groups[g]
         \/ /\ CallOf(s).do = "InsertGroup" /\ CallOf(s).group = g
            /\ groups'[g] = [live |-> TRUE, members |-> <<OwnerOf[g]>>, cnt |-> 1, status |-> "NORMAL"]
         \/ /\ CallOf(s).do = "SaveGroup" /\ run[s].uuid = g /\ run[s].group.live
            /\ groups'[g] = Changed(run[s].group, CallOf(s).how, CallOf(s).who)
         \/ /\ CallOf(s).do = "UpdateGroup" /\ CallOf(s).group = g
            /\ groups'[g].members = groups[g].members /\ (groups'[g].live => groups[g].live)
<1> DEFINE c == CallOf(s)
<1>0. groups \in [Groups -> GroupRow] /\ DOMAIN groups = Groups  BY DEF Typed
<1>1. CASE c.do \notin {"InsertGroup", "SaveGroup", "UpdateGroup"}
  BY <1>1, Leaves
<1>2. CASE c.do = "InsertGroup"
  <2>1. groups' = [groups EXCEPT ![c.group] = [live |-> TRUE, members |-> <<OwnerOf[c.group]>>, cnt |-> 1,
                                          status |-> "NORMAL"]]
    BY <1>2, ActionOf DEF InsertGroupRow
  <2> HIDE DEF c
  <2>2. CASE c.group = g  BY <1>0, <1>2, <2>1, <2>2 DEF c
  <2>3. CASE c.group # g  BY <1>0, <2>1, <2>3
  <2> QED  BY <2>2, <2>3
<1>3. CASE c.do = "SaveGroup"
  <2> DEFINE h == run[s]
             new == Changed(h.group, c.how, c.who)
  <2>1. SaveGroupRow(s)  BY <1>3, ActionOf
  <2>2. CASE ~h.group.live
    <3>1. groups' = groups  BY <2>1, <2>2 DEF SaveGroupRow
    <3> QED  BY <3>1
  <2>3. CASE h.group.live
    <3>1. groups' = [groups EXCEPT ![h.uuid] = new]  BY <2>1, <2>3 DEF SaveGroupRow
    <3> HIDE DEF new
    <3>2. CASE h.uuid = g  BY <1>0, <1>3, <2>3, <3>1, <3>2 DEF new
    <3>3. CASE h.uuid # g  BY <1>0, <3>1, <3>3
    <3> QED  BY <3>2, <3>3
  <2> QED  BY <2>2, <2>3
<1>4. CASE c.do = "UpdateGroup"
  <2>1. groups' = IF ~groups[c.group].live THEN groups
                  ELSE IF c.field = "deleted_at" THEN [groups EXCEPT ![c.group].live = FALSE]
                  ELSE [groups EXCEPT ![c.group].status = c.field]
    BY <1>4, ActionOf DEF UpdateGroupRow
  <2>2. groups[g] \in GroupRow  BY <1>0
  <2> HIDE DEF c
  <2>3. CASE c.group # g  BY <1>0, <2>1, <2>3
  <2>4. CASE c.group = g
    <3>1. groups'[g].members = groups[g].members /\ (groups'[g].live => groups[g].live)
      BY <1>0, <2>1, <2>2, <2>4 DEF GroupRow
    <3> QED  BY <1>4, <2>4, <3>1 DEF c
  <2> QED  BY <2>3, <2>4
<1> QED  BY <1>1, <1>2, <1>3, <1>4

\* A handler's copy of a row does not come to life.
LEMMA StruckLive ==
  ASSUME Typed, NEW s \in Slots, Step(s), CallOf(s).do = "Strike", run'[s] # Idle
  PROVE  /\ run'[s].group.live = run[s].group.live
         /\ run'[s].group.members = StrikeOut(run[s].group.members, CallOf(s).who).members
<1> DEFINE c == CallOf(s)
           h == run[s]
           out == StrikeOut(h.group.members, c.who)
           new == [h.group EXCEPT !.members = out.members, !.cnt = @ - 1]
           x == [h EXCEPT !.group = new]
<1>1. DOMAIN run = Slots /\ h # Idle /\ BodyOK(h)  BY StepLeaves, Here
<1>2. GoOn(s, x)
  <2>1. StrikeMember(s)  BY ActionOf
  <2>2. GoOn(s, x) \/ Return(s)  BY <2>1 DEF StrikeMember
  <2>3. ~Return(s)  BY <1>1 DEF Return
  <2> QED  BY <2>2, <2>3
<1> HIDE DEF out
<1>3. new.live = h.group.live /\ new.members = out.members
  <2>1. h.group \in GroupRow  BY <1>1 DEF BodyOK
  <2> QED  BY <2>1 DEF GroupRow
<1> HIDE DEF new
<1>4. x.group = new /\ DOMAIN x = Fields  BY <1>1 DEF BodyOK, Fields
<1> HIDE DEF x
<1>5. run'[s] = [x EXCEPT !.pc = @ + 1]
  <2>1. ~(run' = [run EXCEPT ![s] = Idle])  BY <1>1
  <2> QED  BY <1>1, <1>2, <2>1 DEF GoOn, Skip, Return
<1>6. run'[s].group = new  BY <1>4, <1>5 DEF Fields
<1> QED  BY <1>3, <1>6 DEF out

LEMMA InitBirths == Init => BirthsOK
<1> SUFFICES ASSUME Init, NEW g \in Groups  PROVE Unseen(g) /\ \A s \in Slots : run[s] = Idle
  BY DEF BirthsOK
<1>1. \A s \in Slots : run[s] = Idle  BY DEF Init
<1>2. ~groups[g].live  BY DEF Init, NoGroup
<1> QED  BY <1>1, <1>2 DEF Unseen

\* Of what is still to come, there was more before.
LEMMA LessToCome ==
  ASSUME Typed, NEW g, script' = script, sent' = sent \/ sent' = sent + 1, ToCome(g)'
  PROVE  ToCome(g)
<1>1. PICK p \in sent' + 1..Len(Scripts[script]) : \E r \in Scripts[script][p] : r.op = "CreateGroup" /\ r.contact = g
  BY DEF ToCome
<1>2. sent \in Int /\ p \in sent + 1..Len(Scripts[script])
  <2> DEFINE a == sent
             b == sent'
             n == Len(Scripts[script])
  <2>1. a \in Int /\ b \in Int /\ a <= b  BY DEF Typed
  <2>2. p \in b + 1..n  BY <1>1
  <2> HIDE DEF a, b, n
  <2>3. p \in a + 1..n  BY <2>1, <2>2
  <2> QED  BY <2>1, <2>3 DEF a, n
<1> QED  BY <1>1, <1>2 DEF ToCome

\* What the next request creates is still to come, and will not be after it.
LEMMA RequestToCome ==
  ASSUME Typed, sent < Len(Scripts[script]), NEW r \in Scripts[script][sent + 1], NEW g, r.op = "CreateGroup", r.contact = g
  PROVE  /\ ToCome(g)
         /\ script' = script /\ sent' = sent + 1 => ~ToCome(g)'
<1> DEFINE n == Len(Scripts[script])
           m == sent + 1
<1>1. Scripts[script] \in Seq(SUBSET Request) /\ sent \in Nat /\ n \in Nat /\ script \in DOMAIN Scripts
  <2>1. script \in DOMAIN Scripts  BY DEF Typed
  <2>2. Scripts[script] \in Seq(SUBSET Request)  BY <2>1, ScriptAssumption
  <2> QED  BY <2>1, <2>2 DEF Typed
<1>2. m \in m..n /\ m \in Nat /\ m \in DOMAIN Scripts[script]  BY <1>1
<1>3. ToCome(g)  BY <1>2 DEF ToCome
<1>4. ASSUME script' = script, sent' = m, ToCome(g)'  PROVE FALSE
  <2>1. PICK p \in m + 1..n : \E x \in Scripts[script][p] : x.op = "CreateGroup" /\ x.contact = g
    BY <1>4 DEF ToCome
  <2>2. PICK x \in Scripts[script][p] : x.op = "CreateGroup" /\ x.contact = g  BY <2>1
  <2>3. p \in DOMAIN Scripts[script] /\ p # m
    <3> HIDE DEF m
    <3>1. p \in Int /\ m + 1 <= p /\ p <= n  BY <1>1, <1>2, <2>1
    <3>2. p # m /\ p \in 1..n  BY <1>1, <1>2, <3>1
    <3> QED  BY <1>1, <3>2
  <2>4. m = p  BY <1>1, <1>2, <2>2, <2>3, ScriptAssumption
  <2> QED  BY <2>3, <2>4
<1> QED  BY <1>3, <1>4

\* While a step makes no request, nothing that is to come is seen.
LEMMA StepUnseen ==
  ASSUME Typed, BirthsOK, NEW s \in Slots, Step(s), NEW g \in Groups, ToCome(g)
  PROVE  Unseen(g)'
<1> DEFINE h == run[s]
           c == CallOf(s)
<1>0. /\ h # Idle /\ h.req \in Requests /\ Fits(h.req, c) /\ DOMAIN run = Slots /\ Moved(s)
  BY StepLeaves, Here, StepIsTyped DEF StepTyped
<1>1. Unseen(g) /\ ~Creates(h, g)  BY <1>0 DEF BirthsOK
<1>2. ~groups'[g].live
  <2>1. ASSUME c.do = "InsertGroup", c.group = g  PROVE FALSE
    <3>1. h.req.op = "CreateGroup" /\ h.req.contact = g  BY <1>0, <2>1 DEF Fits, GroupCall
    <3> QED  BY <1>1, <3>1 DEF Creates
  <2>2. ASSUME h.uuid = g, h.group.live  PROVE FALSE
    BY <1>0, <1>1, <2>2 DEF Unseen
  <2>3. ~groups[g].live  BY <1>1 DEF Unseen
  <2> QED  BY <2>1, <2>2, <2>3, GroupEvents
<1>3. ASSUME run'[s] # Idle, run'[s].uuid = g  PROVE ~run'[s].group.live
  <2>1. CASE c.do \in {"FirstGroup", "FindGroup"}
    <3>1. run'[s].uuid = c.group /\ (run'[s].group.live => groups[c.group].live)  BY <1>3, <2>1, GroupRead1
    <3> QED  BY <1>1, <1>3, <3>1 DEF Unseen
  <2>2. CASE c.do \notin {"FirstGroup", "FindGroup"}
    <3>1. run'[s].uuid = h.uuid  BY <1>3, <2>2, FieldsKept
    <3>2. ~h.group.live  BY <1>0, <1>1, <1>3, <3>1 DEF Unseen
    <3>3. CASE c.do = "Strike"  BY <1>3, <3>2, <3>3, StruckLive
    <3>4. CASE c.do # "Strike"
      <4>1. run'[s].group = h.group  BY <1>3, <2>2, <3>4, FieldsKept
      <4> QED  BY <3>2, <4>1
    <3> QED  BY <3>3, <3>4
  <2> QED  BY <2>1, <2>2
<1>4. ASSUME NEW q \in Slots, q # s, run'[q] # Idle, run'[q].uuid = g  PROVE ~run'[q].group.live
  <2>1. run'[q] = run[q]  BY <1>0, <1>4 DEF Moved
  <2> QED  BY <1>1, <1>4, <2>1 DEF Unseen
<1> QED  BY <1>2, <1>3, <1>4 DEF Unseen

\* What a handler has in hand after an error, it had before.
LEMMA FaultHands ==
  ASSUME Typed, NEW s \in Slots, Fault(s), run'[s] # Idle
  PROVE  /\ run[s] # Idle /\ run'[s].uuid = run[s].uuid /\ run'[s].group = run[s].group
<1> DEFINE h == run[s]
<1>1. h # Idle  BY DEF Fault, Running
<1>2. DOMAIN run = Slots /\ BodyOK(h)  BY <1>1, Here
<1>3. GoOn(s, h)
  <2>1. GoOn(s, h) \/ Return(s)  BY DEF Fault
  <2>2. ~Return(s)  BY <1>2 DEF Return
  <2> QED  BY <2>1, <2>2
<1>4. DOMAIN h = Fields  BY <1>2 DEF BodyOK
<1> HIDE DEF h
<1>5. run'[s] = [h EXCEPT !.pc = @ + 1]
  <2>1. ~(run' = [run EXCEPT ![s] = Idle])  BY <1>2
  <2> QED  BY <1>2, <1>3, <2>1 DEF GoOn, Skip, Return
<1>6. run'[s].uuid = h.uuid /\ run'[s].group = h.group  BY <1>4, <1>5 DEF Fields
<1> QED  BY <1>1, <1>6 DEF h

LEMMA BirthsStep == Typed /\ BirthsOK /\ [Next]_vars => BirthsOK'
<1> SUFFICES ASSUME Typed, BirthsOK, [Next]_vars, NEW g \in Groups
             PROVE  /\ \A q \in Slots : run'[q] # Idle /\ Creates(run[q], g)' => ~ToCome(g)'
                    /\ ToCome(g)' => Unseen(g)'
  BY DEF BirthsOK
<1> DEFINE Goal == /\ \A q \in Slots : run'[q] # Idle /\ Creates(run[q], g)' => ~ToCome(g)'
                   /\ ToCome(g)' => Unseen(g)'
<1>0. /\ \A q \in Slots : run[q] # Idle /\ Creates(run[q], g) => ~ToCome(g)
      /\ ToCome(g) => Unseen(g)
  BY DEF BirthsOK
<1>1. CASE UNCHANGED <<run, groups, script, sent>>
  BY <1>0, <1>1 DEF Creates, ToCome, Unseen
<1>2. ASSUME NEW s \in Slots, Submit(s)  PROVE Goal
  <2>1. PICK r \in Scripts[script][sent + 1] :
           /\ r \in Requests /\ run' = [run EXCEPT ![s] = NewHandler(r)]
           /\ sent' = sent + 1 /\ sent < Len(Scripts[script])
           /\ UNCHANGED <<tables, script>>
    BY <1>2, Submits
  <2>2. DOMAIN run = Slots  BY DEF Typed, Handlers
  <2>3. run'[s] = NewHandler(r) /\ \A q \in Slots : q # s => run'[q] = run[q]  BY <2>1, <2>2
  <2>4. run'[s].req = r /\ ~run'[s].group.live  BY <2>3 DEF NewHandler, NoGroup
  <2>5. ToCome(g)' => ToCome(g)  BY <2>1, LessToCome
  <2>6. ASSUME Creates(run[s], g)', ToCome(g)'  PROVE FALSE
    <3>1. r.op = "CreateGroup" /\ r.contact = g  BY <2>4, <2>6 DEF Creates
    <3> QED  BY <2>1, <2>6, <3>1, RequestToCome
  <2>7. ASSUME NEW q \in Slots, q # s, run'[q] # Idle, Creates(run[q], g)', ToCome(g)'  PROVE FALSE
    <3>1. run[q] # Idle /\ Creates(run[q], g)  BY <2>3, <2>7 DEF Creates
    <3> QED  BY <1>0, <2>5, <2>7, <3>1
  <2>8. ToCome(g) => Unseen(g)'
    <3>1. groups' = groups  BY <2>1 DEF tables
    <3> QED  BY <1>0, <2>3, <2>4, <3>1 DEF Unseen
  <2> QED  BY <2>5, <2>6, <2>7, <2>8
<1>3. ASSUME NEW s \in Slots, Moved(s), run[s] # Idle, UNCHANGED <<script, sent>>, ToCome(g) => Unseen(g)'
      PROVE  Goal
  <2>1. ToCome(g)' => ToCome(g)  BY <1>3 DEF ToCome
  <2>2. ASSUME NEW q \in Slots, run'[q] # Idle, Creates(run[q], g)'  PROVE run[q] # Idle /\ Creates(run[q], g)
    <3>1. CASE q = s
      <4>1. run'[q].req = run[q].req  BY <1>3, <2>2, <3>1 DEF Moved
      <4> QED  BY <1>3, <2>2, <3>1, <4>1 DEF Creates
    <3>2. CASE q # s
      <4>1. run'[q] = run[q]  BY <1>3, <3>2 DEF Moved
      <4> QED  BY <2>2, <4>1 DEF Creates
    <3> QED  BY <3>1, <3>2
  <2> QED  BY <1>0, <1>3, <2>1, <2>2
<1>4. ASSUME NEW s \in Slots, Step(s)  PROVE Goal
  <2>1. Moved(s) /\ run[s] # Idle /\ UNCHANGED <<script, sent>>
    BY <1>4, StepIsTyped, StepLeaves DEF StepTyped
  <2>2. ToCome(g) => Unseen(g)'  BY <1>4, StepUnseen
  <2> QED  BY <1>3, <2>1, <2>2
<1>5. ASSUME NEW s \in Slots, Fault(s)  PROVE Goal
  <2>1. Moved(s) /\ run[s] # Idle /\ UNCHANGED <<script, sent>> /\ groups' = groups
    BY <1>5, FaultTyped DEF StepTyped, Fault, Running, tables
  <2>2. ASSUME Unseen(g)  PROVE Unseen(g)'
    <3>1. \A q \in Slots : run'[q] # Idle => run[q] # Idle /\ run'[q].uuid = run[q].uuid /\ run'[q].group = run[q].group
      BY <1>5, <2>1, FaultHands DEF Moved
    <3> QED  BY <2>1, <2>2, <3>1 DEF Unseen
  <2> QED  BY <1>0, <1>3, <2>1, <2>2
<1>6. ASSUME NEW e \in cache, Expire(e)  PROVE UNCHANGED <<run, groups, script, sent>>
  BY <1>6 DEF Expire, tables, bounds
<1>7. CASE UNCHANGED vars  BY <1>1, <1>7 DEF vars
<1> QED  BY <1>1, <1>2, <1>4, <1>5, <1>6, <1>7 DEF Next

LEMMA AlwaysBirths == Spec => [](Typed /\ BirthsOK)
<1> QED  BY AlwaysTyped, InitBirths, BirthsStep, PTL DEF Spec

-----------------------------------------------------------------------------
(* Contacts of a group and its member list.  Where the two are written, in the *)
(* lists of calls.                                                             *)
LEMMA SevenCalls ==
  ASSUME NEW a, NEW b, NEW c, NEW d, NEW e, NEW f, NEW g, NEW q, q = << a, b, c, d, e, f, g >>
  PROVE  /\ Len(q) = 7 /\ q[1] = a /\ q[2] = b /\ q[3] = c /\ q[4] = d /\ q[5] = e /\ q[6] = f /\ q[7] = g
<1> QED  OBVIOUS

LEMMA ThreeCalls ==
  ASSUME NEW a, NEW b, NEW c, NEW q, q = << a, b, c >>
  PROVE  Len(q) = 3 /\ q[1] = a /\ q[2] = b /\ q[3] = c
<1> QED  OBVIOUS

LEMMA FiveCalls ==
  ASSUME NEW a, NEW b, NEW c, NEW d, NEW e, NEW q, q = << a, b, c, d, e >>
  PROVE  Len(q) = 5 /\ q[1] = a /\ q[2] = b /\ q[3] = c /\ q[4] = d /\ q[5] = e
<1> QED  OBVIOUS

\* Calls that leave contacts and groups alone.
Besides(c) == c.do \notin {"Insert", "SaveGroup", "InsertGroup", "FirstOr", "SaveUser", "EachFound", "EachGroup", "EachUser"}

Reads(c, g)     == c.do = "FirstGroup" /\ c.group = g /\ Besides(c)
Saves(c, how, u) == c.do = "SaveGroup" /\ c.how = how /\ c.who = u
Puts(c, u, g)   == c.do = "Insert" /\ c.table = "contact" /\ c.user = u /\ c.to = g
Hides(c, u, g)  == /\ c.do = "Update" /\ c.table = "contact" /\ c.user = u /\ c.to = g /\ c.live = FALSE
                   /\ NewStatus(c.status) /\ Besides(c)

LEMMA CallsAre ==
  /\ \A g, st : Reads(FirstGroup(g, st), g)
  /\ \A how, u : Saves(SaveGroup(how, u), how, u)
  /\ \A u, g, st : Puts(Insert("contact", u, g, st), u, g)
  /\ \A u, g : Hides(Hide("contact", u, g), u, g) /\ Hides(Delete("contact", u, g, {"QUIT_GROUP"}), u, g)
  /\ \A t, u, g : Hide(t, u, g).do = "Update" /\ Besides(Hide(t, u, g))
  /\ \A list, u : Besides(Forget(list, u)) /\ Besides(ForgetAll(list))
  /\ \A t, u, g, st : Besides(First(t, u, g, st))
  /\ \A g, st : Besides(FindGroup(g, st)) /\ FindGroup(g, st).do = "FindGroup" /\ FindGroup(g, st).group = g
  /\ \A u, st : Besides(FindUser(u, st))
  /\ \A t, st : Besides(Save(t, st)) /\ Save(t, st).do = "Save"
  /\ \A t, u, g : Besides(Find(t, u, g))
  /\ \A g : InsertGroup(g).do = "InsertGroup" /\ InsertGroup(g).group = g
<1>1. /\ \A g, st : Reads(FirstGroup(g, st), g)
      /\ \A how, u : Saves(SaveGroup(how, u), how, u)
      /\ \A g, st : Besides(FindGroup(g, st)) /\ FindGroup(g, st).do = "FindGroup" /\ FindGroup(g, st).group = g
      /\ \A g : InsertGroup(g).do = "InsertGroup" /\ InsertGroup(g).group = g
  BY DEF Reads, Saves, Besides, FirstGroup, SaveGroup, FindGroup, InsertGroup
<1>2. \A u, g, st : Puts(Insert("contact", u, g, st), u, g)
  BY DEF Puts, Insert
<1>3. \A u, g, st : NewStatus(st) => Hides(Delete("contact", u, g, st), u, g)
  BY DEF Hides, Delete, Besides
<1>4. \A t, u, g : Hide(t, u, g).do = "Update" /\ Besides(Hide(t, u, g))
  BY DEF Hide, Delete, Besides
<1>5. /\ \A list, u : Besides(Forget(list, u)) /\ Besides(ForgetAll(list))
      /\ \A t, u, g, st : Besides(First(t, u, g, st))
      /\ \A u, st : Besides(FindUser(u, st))
      /\ \A t, st : Besides(Save(t, st)) /\ Save(t, st).do = "Save"
      /\ \A t, u, g : Besides(Find(t, u, g))
  BY DEF Besides, Forget, ForgetAll, First, FindUser, Save, Find
<1>6. NewStatus({}) /\ NewStatus({"QUIT_GROUP"})  BY StatusesAre
<1>7. \A u, g : Hides(Hide("contact", u, g), u, g) /\ Hides(Delete("contact", u, g, {"QUIT_GROUP"}), u, g)
  BY <1>3, <1>6 DEF Hide
<1> QED  BY <1>1, <1>2, <1>4, <1>5, <1>7

LEMMA LeaveShape ==
  ASSUME NEW r \in Requests, NEW c, c = CallsOf[r], r.op = "LeaveGroup"
  PROVE  /\ Len(c) = 7 /\ r.contact \in Groups /\ r.owner \in Users
         /\ Reads(c[1], r.contact) /\ Saves(c[2], "leave", r.owner) /\ c[3].do = "Update" /\ Besides(c[3])
         /\ Hides(c[4], r.owner, r.contact) /\ Besides(c[5]) /\ Besides(c[6]) /\ Besides(c[7])
<1> DEFINE x1 == FirstGroup(r.contact, GroupSts)
           x2 == SaveGroup("leave", r.owner)
           x3 == Hide("session", r.owner, r.contact)
           x4 == Delete("contact", r.owner, r.contact, {"QUIT_GROUP"})
           x5 == Hide("apply", r.owner, r.contact)
           x6 == Forget("group_session_list_", r.owner)
           x7 == Forget("my_joined_group_list_ ", r.owner)
<1>1. Reads(x1, r.contact) /\ Saves(x2, "leave", r.owner) /\ x3.do = "Update" /\ Besides(x3)
  BY CallsAre
<1>0. Hides(x4, r.owner, r.contact) /\ Besides(x5) /\ Besides(x6) /\ Besides(x7)
  BY CallsAre
<1>2. c = << x1, x2, x3, x4, x5, x6, x7 >> /\ r.contact \in Groups /\ r.owner \in Users
  BY LeaveGroupCalls DEF LeaveGroup
<1> HIDE DEF x1, x2, x3, x4, x5, x6, x7
<1>3. /\ Len(c) = 7 /\ c[1] = x1 /\ c[2] = x2 /\ c[3] = x3 /\ c[4] = x4 /\ c[5] = x5 /\ c[6] = x6 /\ c[7] = x7
  BY <1>2, SevenCalls
<1> QED  BY <1>0, <1>1, <1>2, <1>3

LEMMA EnterShape ==
  ASSUME NEW r \in Requests, NEW c, c = CallsOf[r], r.op = "EnterGroupDirectly"
  PROVE  /\ Len(c) = 5 /\ r.owner \in Groups /\ r.contact \in Users
         /\ Reads(c[1], r.owner) /\ Saves(c[2], "enter", r.contact) /\ Puts(c[3], r.contact, r.owner)
         /\ Besides(c[4]) /\ Besides(c[5])
<1> DEFINE x1 == FirstGroup(r.owner, GroupSts)
           x2 == SaveGroup("enter", r.contact)
           x3 == Insert("contact", r.contact, r.owner, "NORMAL")
           x4 == Forget("group_session_list_", r.owner)
           x5 == Forget("my_joined_group_list_", r.owner)
<1>1. /\ Reads(x1, r.owner) /\ Saves(x2, "enter", r.contact) /\ Puts(x3, r.contact, r.owner)
      /\ Besides(x4) /\ Besides(x5)
  BY CallsAre
<1>2. c = << x1, x2, x3, x4, x5 >> /\ r.owner \in Groups /\ r.contact \in Users
  BY EnterGroupCalls DEF EnterGroupDirectly
<1> HIDE DEF x1, x2, x3, x4, x5
<1>3. /\ Len(c) = 5 /\ c[1] = x1 /\ c[2] = x2 /\ c[3] = x3 /\ c[4] = x4 /\ c[5] = x5
  BY <1>2, FiveCalls
<1> QED  BY <1>1, <1>2, <1>3

LEMMA InfoShape ==
  ASSUME NEW r \in Requests, NEW c, c = CallsOf[r], r.op = "UpdateGroupInfo"
  PROVE  /\ Len(c) = 4 /\ r.contact \in Groups
         /\ Reads(c[1], r.contact) /\ Saves(c[2], "same", OwnerOf[r.contact]) /\ Besides(c[3]) /\ c[4].do = "EachFound"
<1> DEFINE x1 == FirstGroup(r.contact, GroupSts)
           x2 == SaveGroup("same", OwnerOf[r.contact])
           x3 == Find("session", Users, r.contact)
           x4 == EachFound("session", "save")
<1>1. /\ Reads(x1, r.contact) /\ Saves(x2, "same", OwnerOf[r.contact]) /\ Besides(x3)
  BY CallsAre
<1>2. x4.do = "EachFound"  BY DEF EachFound
<1>3. c = << x1, x2, x3, x4 >> /\ r.contact \in Groups  BY UpdateGroupInfoCalls DEF UpdateGroupInfo
<1> HIDE DEF x1, x2, x3, x4
<1>4. Len(c) = 4 /\ c[1] = x1 /\ c[2] = x2 /\ c[3] = x3 /\ c[4] = x4  BY <1>3, FourCalls
<1> QED  BY <1>1, <1>2, <1>3, <1>4

LEMMA PassShape ==
  ASSUME NEW r \in Requests, NEW c, c = CallsOf[r], r.op = "PassContactApply"
  PROVE  /\ Len(c) = 6 /\ r.contact \in Users
         /\ c[1].do = "First" /\ Besides(c[1]) /\ c[3].do = "Save" /\ Besides(c[3]) /\ Besides(c[6])
         /\ r.owner \in Users =>
              Besides(c[2]) /\ Puts(c[4], r.owner, r.contact) /\ Puts(c[5], r.contact, r.owner)
         /\ r.owner \notin Users =>
              /\ r.owner \in Groups
              /\ c[2].do = "FindGroup" /\ c[2].group = r.owner /\ Besides(c[2])
              /\ Puts(c[4], r.contact, r.owner) /\ Saves(c[5], "pass", r.contact)
<1> DEFINE o == r.owner
           u == r.contact
           x1 == First("apply", u, o, ApplySts)
           x3 == Save("apply", {"AGREE"})
<1>0. r.contact \in Users /\ r.owner \in Users \cup Groups  BY PassApplyCalls
<1>1. x1.do = "First" /\ Besides(x1) /\ x3.do = "Save" /\ Besides(x3)
  <2>1. x1.do = "First"  BY DEF First
  <2> QED  BY <2>1, CallsAre
<1>2. CASE o \in Users
  <2> DEFINE x2 == FindUser(u, {"NORMAL"})
             x4 == Insert("contact", o, u, "NORMAL")
             x5 == Insert("contact", u, o, "NORMAL")
             x6 == Forget("contact_user_list_", o)
  <2>1. Besides(x2) /\ Puts(x4, o, u) /\ Puts(x5, u, o) /\ Besides(x6)  BY CallsAre
  <2>2. c = << x1, x2, x3, x4, x5, x6 >>  BY <1>2, PassApplyCalls DEF PassToUser
  <2> HIDE DEF x1, x2, x3, x4, x5, x6
  <2>3. Len(c) = 6 /\ c[1] = x1 /\ c[2] = x2 /\ c[3] = x3 /\ c[4] = x4 /\ c[5] = x5 /\ c[6] = x6
    BY <2>2, SixCalls
  <2> QED  BY <1>0, <1>1, <1>2, <2>1, <2>3
<1>3. CASE o \notin Users
  <2> DEFINE x2 == FindGroup(o, {"NORMAL"})
             x4 == Insert("contact", u, o, "NORMAL")
             x5 == SaveGroup("pass", u)
             x6 == Forget("my_joined_group_list_", o)
  <2>1. /\ Besides(x2) /\ x2.do = "FindGroup" /\ x2.group = o
        /\ Puts(x4, u, o) /\ Saves(x5, "pass", u) /\ Besides(x6)  BY CallsAre
  <2>2. c = << x1, x2, x3, x4, x5, x6 >>  BY <1>3, PassApplyCalls DEF PassToGroup
  <2> HIDE DEF x1, x2, x3, x4, x5, x6
  <2>3. Len(c) = 6 /\ c[1] = x1 /\ c[2] = x2 /\ c[3] = x3 /\ c[4] = x4 /\ c[5] = x5 /\ c[6] = x6
    BY <2>2, SixCalls
  <2> QED  BY <1>0, <1>1, <1>3, <2>1, <2>3
<1> QED  BY <1>2, <1>3

LEMMA CreateShape ==
  ASSUME NEW r \in Requests, NEW c, c = CallsOf[r], r.op = "CreateGroup"
  PROVE  /\ Len(c) = 3 /\ r.contact \in Groups /\ r.owner = OwnerOf[r.contact]
         /\ c[1].do = "InsertGroup" /\ c[1].group = r.contact
         /\ Puts(c[2], r.owner, r.contact) /\ Besides(c[3])
<1> DEFINE x1 == InsertGroup(r.contact)
           x2 == Insert("contact", r.owner, r.contact, "NORMAL")
           x3 == Forget("contact_mygroup_list_", r.owner)
<1>1. x1.do = "InsertGroup" /\ x1.group = r.contact /\ Puts(x2, r.owner, r.contact) /\ Besides(x3)
  BY CallsAre
<1>2. c = << x1, x2, x3 >> /\ r.contact \in Groups /\ r.owner = OwnerOf[r.contact]
  BY CreateGroupCalls DEF CreateGroup
<1> HIDE DEF x1, x2, x3
<1>3. Len(c) = 3 /\ c[1] = x1 /\ c[2] = x2 /\ c[3] = x3  BY <1>2, ThreeCalls
<1> QED  BY <1>1, <1>2, <1>3

\* A struck member's contact is hidden two calls later.
StrikeAhead(c, p, g) ==
  /\ p + 2 <= Len(c) /\ c[p].do = "Strike" /\ c[p].who \in Users
  /\ c[p + 1].do = "Update" /\ c[p + 2] = Hide("contact", c[p].who, g)

LEMMA StrikeBlockIs ==
  ASSUME NEW g, NEW u, NEW t, t = StrikeBlock(g, u)
  PROVE  /\ Len(t) = 4 /\ t[1].do = "Strike" /\ t[1].who = u /\ t[2].do = "Update"
         /\ t[3] = Hide("contact", u, g) /\ t[3].do = "Update" /\ t[4].do = "Update"
<1> DEFINE x1 == Strike(u)
           x2 == Hide("session", u, g)
           x3 == Hide("contact", u, g)
           x4 == Hide("apply", u, g)
<1>1. x1.do = "Strike" /\ x1.who = u  BY DEF Strike
<1>2. x2.do = "Update" /\ x3.do = "Update" /\ x4.do = "Update"  BY CallsAre
<1>3. t = << x1, x2, x3, x4 >>  BY DEF StrikeBlock
<1> HIDE DEF x1, x2, x3, x4
<1>4. Len(t) = 4 /\ t[1] = x1 /\ t[2] = x2 /\ t[3] = x3 /\ t[4] = x4  BY <1>3, FourCalls
<1> QED  BY <1>1, <1>2, <1>4 DEF x3

LEMMA RemoveShape ==
  ASSUME NEW r \in Requests, NEW c, c = CallsOf[r], r.op = "RemoveGroupMembers"
  PROVE  /\ r.contact \in Groups /\ Reads(c[1], r.contact) /\ Len(c) \in Nat
         /\ \A p \in 2..Len(c) :
              \/ StrikeAhead(c, p, r.contact)
              \/ c[p].do \in {"Update", "Forget"}
              \/ Saves(c[p], "same", r.owner)
<1> DEFINE g == r.contact
<1>1. PICK n : RemoveList(r, n)  BY RemoveCalls
<1>2. /\ n \in Nat /\ n >= 1 /\ c[1] = FirstGroup(g, GroupSts)
      /\ \A p \in 2..n : \E u \in ToSet(r.uuids) \cap Users : Copied(c, StrikeBlock(g, u), p)
      /\ \/ Len(c) = n
         \/ /\ Len(c) = n + 3 /\ c[n + 1] = SaveGroup("same", r.owner)
            /\ c[n + 2] = ForgetAll("group_session_list_")
            /\ c[n + 3] = ForgetAll("my_joined_group_list_")
  BY <1>1 DEF RemoveList
<1>3. ASSUME NEW p \in 2..n  PROVE StrikeAhead(c, p, g) \/ c[p].do \in {"Update", "Forget"}
  <2>1. PICK u \in Users : Copied(c, StrikeBlock(g, u), p)  BY <1>2, <1>3
  <2> DEFINE t == StrikeBlock(g, u)
  <2>2. /\ Len(t) = 4 /\ t[1].do = "Strike" /\ t[1].who = u /\ t[2].do = "Update"
        /\ t[3] = Hide("contact", u, g) /\ t[3].do = "Update" /\ t[4].do = "Update"
    BY StrikeBlockIs
  <2>3. Copied(c, t, p)  BY <2>1
  <2> HIDE DEF t
  <2>4. PICK b \in Nat : p - b \in 1..4 /\ b + 4 <= Len(c) /\ \A k \in 1..4 : c[b + k] = t[k]
    BY <2>2, <2>3 DEF Copied
  <2>5. c[b + 1] = t[1] /\ c[b + 2] = t[2] /\ c[b + 3] = t[3] /\ c[b + 4] = t[4]  BY <2>4
  <2>6. p = b + 1 \/ p = b + 2 \/ p = b + 3 \/ p = b + 4  BY <1>2, <2>4
  <2>7. CASE p = b + 1
    <3>1. b + 2 = p + 1 /\ b + 3 = p + 2 /\ p + 2 <= b + 4  BY <2>4, <2>7
    <3>2. p + 2 <= Len(c)
      <4>1. Len(c) \in Nat  BY <1>2
      <4> QED  BY <2>4, <2>7, <3>1, <4>1
    <3>3. c[p] = t[1] /\ c[p + 1] = t[2] /\ c[p + 2] = t[3]  BY <2>5, <2>7, <3>1
    <3> QED  BY <2>1, <2>2, <3>2, <3>3 DEF StrikeAhead
  <2>8. CASE p = b + 2 \/ p = b + 3 \/ p = b + 4  BY <2>2, <2>5, <2>8
  <2> QED  BY <2>6, <2>7, <2>8
<1>4. Reads(c[1], g) /\ Saves(SaveGroup("same", r.owner), "same", r.owner)  BY <1>2, CallsAre
<1>5. \A list : ForgetAll(list).do = "Forget"  BY DEF ForgetAll
<1>6. ASSUME NEW p \in 2..Len(c), p \notin 2..n  PROVE c[p].do \in {"Update", "Forget"} \/ Saves(c[p], "same", r.owner)
  <2>1. p = n + 1 \/ p = n + 2 \/ p = n + 3  BY <1>2, <1>6
  <2>2. Len(c) # n  BY <1>2, <1>6
  <2> QED  BY <1>2, <1>4, <1>5, <2>1, <2>2
<1>7. r.contact \in Groups /\ Len(c) \in Nat  BY <1>2, RemoveCalls
<1> QED  BY <1>3, <1>4, <1>6, <1>7
-----------------------------------------------------------------------------
(* The hand of the handler that has to do with the group. *)

Member(row, u, g) == row.live /\ row.user = u /\ row.to = g
Joined(u, g)      == \E i \in 1..Len(rows["contact"]) : Member(rows["contact"][i], u, g)

\* The one who is leaving is struck off first, the one who is let in is listed last.
Excused(h, u, g) ==
  \/ h.req.op = "LeaveGroup" /\ h.req.contact = g /\ h.req.owner = u /\ h.pc \in {3, 4}
  \/ h.req.op = "PassContactApply" /\ h.req.owner = g /\ h.req.contact = u /\ h.pc = 5

Listed(u, g) ==
  Joined(u, g) => Contains(groups[g].members, u) \/ \E s \in Slots : On(s, OfGroup(g)) /\ Excused(run[s], u, g)

\* The group whose row a handler reads and writes back, and when it has it in hand.
Named(r) == IF r.op \in {"EnterGroupDirectly", "PassContactApply"} THEN r.owner ELSE r.contact
Saving(h) ==
  \/ h.req.op \in {"LeaveGroup", "UpdateGroupInfo", "EnterGroupDirectly"} /\ h.pc = 2
  \/ h.req.op = "PassContactApply" /\ h.req.owner \notin Users /\ h.pc \in {3, 4, 5}
Removing(h) == h.req.op = "RemoveGroupMembers" /\ h.pc # 1

\* The contact of u is about to be hidden.
AboutToGo(h, u, g) ==
  LET c == CallsOf[h.req]
  IN  \/ c[h.pc] = Hide("contact", u, g)
      \/ h.pc + 1 <= Len(c) /\ c[h.pc].do = "Update" /\ c[h.pc + 1] = Hide("contact", u, g)

InGroupsHand(h, g) ==
  /\ Saving(h) => h.uuid = Named(h.req) /\ (Named(h.req) = g => h.group = groups[g])
  /\ Removing(h) => h.uuid = h.req.contact
  /\ Removing(h) /\ h.req.contact = g =>
       \A u \in Users : Joined(u, g) => Contains(h.group.members, u) \/ AboutToGo(h, u, g)
  /\ h.req.op = "CreateGroup" /\ h.req.contact = g /\ h.pc = 1 => ~groups[g].live
  /\ h.req.op = "CreateGroup" /\ h.req.contact = g /\ h.pc = 2 => Contains(groups[g].members, h.req.owner)
  /\ h.req.op = "EnterGroupDirectly" /\ h.req.owner = g /\ h.pc = 3 => Contains(groups[g].members, h.req.contact)

RosterOK(g) ==
  /\ \A u \in Users : Listed(u, g)
  /\ \A s \in Slots : On(s, OfGroup(g)) => InGroupsHand(run[s], g)

\* Where a contact of a group comes from.
LEMMA JoinedBy ==
  ASSUME Typed, HandsOwn, NEW s \in Slots, Step(s), NEW g \in Groups, NEW u,
         NEW i \in 1..Len(rows'["contact"]), Member(rows'["contact"][i], u, g)
  PROVE  Joined(u, g) \/ Puts(CallOf(s), u, g)
<1> DEFINE t == "contact"
           d == CallOf(s)
           h == run[s]
<1>0. /\ t \in Tables /\ h # Idle /\ h.req \in Requests /\ Fits(h.req, d)
      /\ rows'[t][i].live /\ rows'[t][i].user = u /\ rows'[t][i].to = g
  BY TablesAre, StepLeaves, Here DEF Member
<1>1. \/ LiveRow(t, i) /\ rows'[t][i].user = rows[t][i].user /\ rows'[t][i].to = rows[t][i].to
      \/ NewRow(s, t, i)
      \/ i \in 1..Len(rows[t]) /\ rows'[t][i].user = rows[t][i].user /\ rows'[t][i].to = rows[t][i].to
         /\ (SavedRow(s, t, i) \/ CopiedRow(s, t, i))
  BY <1>0, LiveEvents
<1>2. CASE LiveRow(t, i) /\ rows'[t][i].user = rows[t][i].user /\ rows'[t][i].to = rows[t][i].to
  BY <1>0, <1>2 DEF LiveRow, Member, Joined
<1>3. CASE NewRow(s, t, i)
  <2>1. d.do = "Insert" /\ d.table = t /\ rows'[t][i] = [user |-> d.user, to |-> d.to, status |-> d.status, live |-> TRUE]
    BY <1>3 DEF NewRow
  <2>2. d.user = u /\ d.to = g  BY <1>0, <2>1
  <2> QED  BY <2>1, <2>2 DEF Puts
<1>4. ASSUME SavedRow(s, t, i), i \in 1..Len(rows[t]), rows'[t][i].to = rows[t][i].to  PROVE FALSE
  <2> DEFINE e == h.held[1]
             r == h.req
  <2>1. d.do = "Save" /\ d.table = t /\ h.held # <<>> /\ e.table = t /\ e.id = i /\ Copies(r, e, rows)
    BY <1>4 DEF SavedRow, InHand
  <2>2. r.op = "CancelBlackContact"  BY <1>0, <2>1 DEF Fits, RowCall
  <2>3. r.owner \in Users /\ r.contact \in Users  BY <1>0, <2>2, ContactCalls
  <2>4. h.held \in Seq(HeldRow)  BY <1>0, Here
  <2>5. Own(r, e)
    <3>1. HandOwn(h)  BY <1>0 DEF HandsOwn
    <3>2. 1 \in 1..Len(h.held)  BY <2>1, <2>4
    <3> QED  BY <2>2, <3>1, <3>2 DEF HandOwn, Answers
  <2>6. rows[t][i].to = e.row.to  BY <2>1 DEF Copies
  <2>7. e.row.to \in Users  BY <2>3, <2>5 DEF Own
  <2> QED  BY <1>0, <1>4, <2>6, <2>7, MembershipAssumption
<1>5. ~CopiedRow(s, t, i)  BY DEF CopiedRow
<1> QED  BY <1>1, <1>2, <1>3, <1>4, <1>5

\* Who puts a contact of a group in.
LEMMA PutsShape ==
  ASSUME Typed, NEW s \in Slots, Step(s), NEW g \in Groups, NEW u, Puts(CallOf(s), u, g)
  PROVE  \/ run[s].req.op = "CreateGroup" /\ run[s].pc = 2 /\ run[s].req.contact = g /\ run[s].req.owner = u
         \/ run[s].req.op = "EnterGroupDirectly" /\ run[s].pc = 3 /\ run[s].req.owner = g /\ run[s].req.contact = u
         \/ run[s].req.op = "PassContactApply" /\ run[s].pc = 4 /\ run[s].req.owner = g /\ run[s].req.contact = u
<1> DEFINE h == run[s]
           r == h.req
           c == CallsOf[r]
           d == CallOf(s)
<1>0. /\ h # Idle /\ r \in Requests /\ Fits(r, d) /\ d = c[h.pc] /\ h.pc \in 1..Len(c) /\ h.pc \in Int
  BY StepLeaves, Here
<1>1. d.do = "Insert" /\ d.table = "contact" /\ d.user = u /\ d.to = g /\ g \notin Users
  BY MembershipAssumption DEF Puts
<1>2. r.op \in {"CreateGroup", "EnterGroupDirectly", "PassContactApply"}  BY <1>0, <1>1 DEF Fits, RowCall
<1> HIDE DEF d, c
<1>3. CASE r.op = "CreateGroup"
  <2>1. /\ Len(c) = 3 /\ c[1].do = "InsertGroup" /\ Puts(c[2], r.owner, r.contact) /\ Besides(c[3])
    BY <1>0, <1>3, CreateShape DEF c
  <2>2. h.pc = 2  BY <1>0, <1>1, <2>1 DEF Besides
  <2> QED  BY <1>0, <1>1, <1>3, <2>1, <2>2 DEF Puts
<1>4. CASE r.op = "EnterGroupDirectly"
  <2>1. /\ Len(c) = 5 /\ Reads(c[1], r.owner) /\ Saves(c[2], "enter", r.contact) /\ Puts(c[3], r.contact, r.owner)
        /\ Besides(c[4]) /\ Besides(c[5])
    BY <1>0, <1>4, EnterShape DEF c
  <2>2. h.pc = 3  BY <1>0, <1>1, <2>1 DEF Besides, Reads, Saves
  <2> QED  BY <1>0, <1>1, <1>4, <2>1, <2>2 DEF Puts
<1>5. CASE r.op = "PassContactApply"
  <2>1. /\ Len(c) = 6 /\ r.contact \in Users
        /\ Besides(c[1]) /\ Besides(c[3]) /\ Besides(c[6]) /\ Besides(c[2])
        /\ r.owner \in Users => Puts(c[4], r.owner, r.contact) /\ Puts(c[5], r.contact, r.owner)
        /\ r.owner \notin Users => Puts(c[4], r.contact, r.owner) /\ Saves(c[5], "pass", r.contact)
    BY <1>0, <1>5, PassShape DEF c
  <2>2. h.pc \in {4, 5}  BY <1>0, <1>1, <2>1 DEF Besides
  <2>3. r.owner \notin Users  BY <1>0, <1>1, <2>1, <2>2 DEF Puts
  <2>4. h.pc = 4  BY <1>0, <1>1, <2>1, <2>2, <2>3 DEF Saves
  <2> QED  BY <1>0, <1>1, <1>5, <2>1, <2>3, <2>4 DEF Puts
<1> QED  BY <1>2, <1>3, <1>4, <1>5

\* Who writes the row of a group back, and how.
LEMMA SavesShape ==
  ASSUME Typed, NEW s \in Slots, Step(s), CallOf(s).do = "SaveGroup"
  PROVE  \/ run[s].req.op = "LeaveGroup" /\ run[s].pc = 2 /\ Saves(CallOf(s), "leave", run[s].req.owner)
         \/ run[s].req.op = "UpdateGroupInfo" /\ run[s].pc = 2 /\ CallOf(s).how = "same"
         \/ run[s].req.op = "EnterGroupDirectly" /\ run[s].pc = 2 /\ Saves(CallOf(s), "enter", run[s].req.contact)
         \/ /\ run[s].req.op = "PassContactApply" /\ run[s].req.owner \notin Users /\ run[s].pc = 5
            /\ Saves(CallOf(s), "pass", run[s].req.contact)
         \/ run[s].req.op = "RemoveGroupMembers" /\ run[s].pc # 1 /\ CallOf(s).how = "same"
<1> DEFINE h == run[s]
           r == h.req
           c == CallsOf[r]
           d == CallOf(s)
<1>0. /\ h # Idle /\ r \in Requests /\ Fits(r, d) /\ d = c[h.pc] /\ h.pc \in 1..Len(c) /\ h.pc \in Int /\ d.do = "SaveGroup"
  BY StepLeaves, Here
<1>2. /\ r.op \in {"LeaveGroup", "EnterGroupDirectly", "UpdateGroupInfo", "RemoveGroupMembers", "PassContactApply"}
      /\ r.op \in {"UpdateGroupInfo", "RemoveGroupMembers"} => d.how = "same"
  BY <1>0 DEF Fits, GroupCall
<1> HIDE DEF d, c
<1>3. CASE r.op = "LeaveGroup"
  <2>1. /\ Len(c) = 7 /\ Reads(c[1], r.contact) /\ Saves(c[2], "leave", r.owner) /\ Besides(c[3])
        /\ Hides(c[4], r.owner, r.contact) /\ Besides(c[5]) /\ Besides(c[6]) /\ Besides(c[7])
    BY <1>0, <1>3, LeaveShape DEF c
  <2>2. h.pc = 2  BY <1>0, <2>1 DEF Besides, Reads, Hides
  <2> QED  BY <1>0, <1>3, <2>1, <2>2 DEF d
<1>4. CASE r.op = "EnterGroupDirectly"
  <2>1. /\ Len(c) = 5 /\ Reads(c[1], r.owner) /\ Saves(c[2], "enter", r.contact) /\ Puts(c[3], r.contact, r.owner)
        /\ Besides(c[4]) /\ Besides(c[5])
    BY <1>0, <1>4, EnterShape DEF c
  <2>2. h.pc = 2  BY <1>0, <2>1 DEF Besides, Reads, Puts
  <2> QED  BY <1>0, <1>4, <2>1, <2>2 DEF d
<1>5. CASE r.op = "PassContactApply"
  <2>1. /\ Len(c) = 6 /\ r.contact \in Users
        /\ Besides(c[1]) /\ Besides(c[3]) /\ Besides(c[6]) /\ Besides(c[2])
        /\ r.owner \in Users => Puts(c[4], r.owner, r.contact) /\ Puts(c[5], r.contact, r.owner)
        /\ r.owner \notin Users => Puts(c[4], r.contact, r.owner) /\ Saves(c[5], "pass", r.contact)
    BY <1>0, <1>5, PassShape DEF c
  <2>2. h.pc \in {4, 5}  BY <1>0, <2>1 DEF Besides
  <2>3. h.pc = 5 /\ r.owner \notin Users  BY <1>0, <2>1, <2>2 DEF Puts
  <2> QED  BY <1>0, <1>5, <2>1, <2>3 DEF d
<1>6. CASE r.op = "UpdateGroupInfo"
  <2>1. Len(c) = 4 /\ Reads(c[1], r.contact) /\ Besides(c[3]) /\ c[4].do = "EachFound"
    BY <1>0, <1>6, InfoShape DEF c
  <2>2. h.pc = 2  BY <1>0, <2>1 DEF Besides, Reads
  <2> QED  BY <1>2, <1>6, <2>2 DEF d
<1>7. CASE r.op = "RemoveGroupMembers"
  <2>1. Reads(c[1], r.contact)  BY <1>0, <1>7, RemoveShape DEF c
  <2>2. h.pc # 1  BY <1>0, <2>1 DEF Reads
  <2> QED  BY <1>2, <1>7, <2>2 DEF d
<1> QED  BY <1>2, <1>3, <1>4, <1>5, <1>6, <1>7

\* A contact that is hidden is no contact.
LEMMA HidesStep ==
  ASSUME Typed, NEW s \in Slots, Step(s), NEW g, NEW u, Hides(CallOf(s), u, g)
  PROVE  \A i \in 1..Len(rows'["contact"]) : ~Member(rows'["contact"][i], u, g)
<1> DEFINE t == "contact"
           d == CallOf(s)
<1>0. /\ d.do = "Update" /\ d.table = t /\ d.user = u /\ d.to = g /\ d.live = FALSE /\ NewStatus(d.status) /\ t \in Tables
  BY TablesAre DEF Hides
<1>1. /\ Len(rows'[t]) = Len(rows[t])
      /\ \A i \in 1..Len(rows'[t]) :
           /\ i \in Matching(d) => rows'[t][i] = Put(rows[t][i], d.status, d.live)
           /\ i \notin Matching(d) => SameRow(t, i)
  BY <1>0, UpdateEvents
<1> HIDE DEF d
<1>2. ASSUME NEW i \in 1..Len(rows'[t]), Member(rows'[t][i], u, g)  PROVE FALSE
  <2>1. rows[t][i] \in Row /\ DOMAIN rows[t] = 1..Len(rows[t]) /\ i \in 1..Len(rows[t])  BY <1>0, <1>1, <1>2, TypedRow
  <2>2. CASE i \in Matching(d)
    <3>0. rows'[t][i] = Put(rows[t][i], d.status, d.live)  BY <1>1, <1>2, <2>2
    <3>3. d.live \in BOOLEAN  BY <1>0
    <3>2. Put(rows[t][i], d.status, d.live).live = d.live  BY <1>0, <2>1, <3>3, PutKeeps
    <3>1. rows'[t][i].live = FALSE  BY <1>0, <3>0, <3>2
    <3> QED  BY <1>2, <3>1 DEF Member
  <2>3. CASE i \notin Matching(d)
    <3>1. rows'[t][i] = rows[t][i]  BY <1>1, <2>3 DEF SameRow
    <3>2. rows[t][i].live /\ rows[t][i].user = u /\ rows[t][i].to = g  BY <1>2, <3>1 DEF Member
    <3>3. i \in Matching(d)  BY <1>0, <2>1, <3>2 DEF Matching, LiveRows
    <3> QED  BY <2>3, <3>3
  <2> QED  BY <2>2, <2>3
<1> QED  BY <1>2

\* A call that has another one after it, and nothing to give up for, goes on.
LEMMA GoesAhead ==
  ASSUME Typed, NEW s \in Slots, Step(s), run[s].pc + 1 <= Len(CallsOf[run[s].req]),
         \/ CallOf(s).do \in {"Update", "Insert"}
         \/ CallOf(s).do = "SaveGroup" /\ run[s].group.live
  PROVE  run'[s] # Idle /\ run'[s].pc = run[s].pc + 1 /\ run'[s].req = run[s].req
<1> DEFINE h == run[s]
           d == CallOf(s)
<1>0. /\ h # Idle /\ h.req \in Requests /\ DOMAIN run = Slots /\ DOMAIN h = Fields
      /\ h.pc \in Int /\ h.pc \in 1..Len(CallsOf[h.req])
  BY StepLeaves, Here DEF BodyOK
<1>1. Len(CallsOf[h.req]) \in Nat  BY <1>0, EveryCallFits DEF AllFit
<1>2. h.pc + 1 \in Nat /\ h.pc + 1 >= 1  BY <1>0
<1>3. CASE d.do \in {"Update", "SaveGroup"}
  <2>1. GoOn(s, h)
    <3>1. CASE d.do = "Update"  BY <3>1, ActionOf DEF UpdateRows
    <3>2. CASE d.do = "SaveGroup"
      <4>1. SaveGroupRow(s)  BY <3>2, ActionOf
      <4>2. h.group.live  BY <3>2
      <4> QED  BY <4>1, <4>2 DEF SaveGroupRow
    <3> QED  BY <1>3, <3>1, <3>2
  <2>2. Skip(s, h, 1)  BY <2>1 DEF GoOn
  <2>3. run'[s] # Idle /\ run'[s].pc = h.pc + 1  BY <1>0, <1>1, <1>2, <2>2, SkipAhead
  <2> QED  BY <2>3, FieldsKept
<1>4. CASE d.do = "Insert"
  <2> DEFINE v == Append(h.held, [table |-> d.table, id |-> Len(rows[d.table]) + 1,
                         row |-> [user |-> d.user, to |-> d.to, status |-> d.status, live |-> TRUE]])
             x == [h EXCEPT !.held = v]
  <2>1. Skip(s, x, 1)  BY <1>4, ActionOf DEF InsertRow, GoOn
  <2> HIDE DEF v
  <2>2. DOMAIN x = Fields /\ x.pc = h.pc /\ x.req = h.req  BY <1>0 DEF Fields
  <2> HIDE DEF x
  <2>3. run'[s] # Idle /\ run'[s].pc = h.pc + 1  BY <1>0, <1>1, <1>2, <2>1, <2>2, SkipAhead
  <2> QED  BY <2>3, FieldsKept
<1> QED  BY <1>3, <1>4

-----------------------------------------------------------------------------
(* What a member list holds after it is changed. *)
LEMMA AppendContains ==
  ASSUME NEW S, NEW q \in Seq(S), NEW e \in S
  PROVE  Contains(Append(q, e), e) /\ \A v : Contains(q, v) => Contains(Append(q, e), v)
<1> DEFINE p == Append(q, e)
           n == Len(q)
<1>1. n \in Nat /\ Len(p) = n + 1 /\ p[n + 1] = e /\ \A i \in 1..n : p[i] = q[i]  BY AppendProperties, LenProperties
<1> HIDE DEF p, n
<1>2. Contains(p, e)
  <2>1. n + 1 \in 1..Len(p)  BY <1>1
  <2> QED  BY <1>1, <2>1 DEF Contains
<1>3. ASSUME NEW v, Contains(q, v)  PROVE Contains(p, v)
  <2>1. PICK i \in 1..n : q[i] = v  BY <1>3 DEF Contains, n
  <2>2. i \in 1..Len(p) /\ p[i] = v  BY <1>1, <2>1
  <2> QED  BY <2>2 DEF Contains
<1> QED  BY <1>2, <1>3 DEF p

LEMMA RemoveAtKeeps ==
  ASSUME NEW S, NEW q \in Seq(S), NEW k \in 1..Len(q), NEW v, Contains(q, v), v # q[k]
  PROVE  Contains(RemoveAt(q, k), v)
<1> DEFINE n == Len(q)
           a == SubSeq(q, 1, k - 1)
           b == SubSeq(q, k + 1, n)
           p == RemoveAt(q, k)
<1>0. n \in Nat /\ k \in Nat /\ k \in 1..n  BY LenProperties
<1>1. a \in Seq(S) /\ Len(a) = k - 1 /\ \A i \in 1..k - 1 : a[i] = q[i]
  BY <1>0, SubSeqProperties
<1>2. b \in Seq(S) /\ Len(b) = n - k /\ \A i \in 1..n - k : b[i] = q[k + i]
  <2> DEFINE m == k + 1
  <2>1. m \in Int /\ n \in Int /\ \A i \in m..n : q[i] \in S  BY <1>0
  <2>2. n - m + 1 = n - k /\ \A i \in 1..n - k : m + i - 1 = k + i  BY <1>0
  <2>3. m <= n \/ n - k = 0  BY <1>0
  <2> HIDE DEF m, n
  <2>4. /\ SubSeq(q, m, n) \in Seq(S)
        /\ Len(SubSeq(q, m, n)) = IF m <= n THEN n - m + 1 ELSE 0
        /\ \A i \in 1..n - m + 1 : SubSeq(q, m, n)[i] = q[m + i - 1]
    BY <2>1, SubSeqProperties
  <2> USE DEF m
  <2>5. b = SubSeq(q, m, n)  OBVIOUS
  <2> HIDE DEF m, b
  <2> QED  BY <2>2, <2>3, <2>4, <2>5
<1>3. p = a \o b  BY DEF RemoveAt
<1> HIDE DEF a, b, p
<1>4. Len(p) = n - 1
      /\ \A i \in 1..n - 1 : p[i] = IF i <= k - 1 THEN a[i] ELSE b[i - (k - 1)]
  <2>1. Len(a) + Len(b) = n - 1  BY <1>0, <1>1, <1>2
  <2>2. /\ Len(a \o b) = Len(a) + Len(b)
        /\ \A i \in 1..Len(a) + Len(b) : (a \o b)[i] = IF i <= Len(a) THEN a[i] ELSE b[i - Len(a)]
    BY <1>1, <1>2, ConcatProperties
  <2> QED  BY <1>1, <1>3, <2>1, <2>2
<1>5. PICK i \in 1..n : q[i] = v  BY DEF Contains
<1>6. i # k  BY <1>5
<1>7. CASE i < k
  <2>1. i \in 1..k - 1 /\ i \in 1..n - 1 /\ i <= k - 1  BY <1>0, <1>5, <1>7
  <2>2. p[i] = v  BY <1>1, <1>4, <1>5, <2>1
  <2> QED  BY <1>4, <2>1, <2>2 DEF Contains, p
<1>8. CASE i > k
  <2>1. i - 1 \in 1..n - 1 /\ ~(i - 1 <= k - 1) /\ (i - 1) - (k - 1) = i - k /\ i - k \in 1..n - k /\ k + (i - k) = i
    BY <1>0, <1>5, <1>8
  <2>2. p[i - 1] = b[i - k]  BY <1>4, <2>1
  <2>3. p[i - 1] = v  BY <1>2, <1>5, <2>1, <2>2
  <2> QED  BY <1>4, <2>1, <2>3 DEF Contains, p
<1> QED  BY <1>0, <1>5, <1>6, <1>7, <1>8

LEMMA RemoveFirstKeeps ==
  ASSUME NEW S, NEW q \in Seq(S), NEW e, NEW v, Contains(q, v), v # e
  PROVE  Contains(RemoveFirst(q, e), v)
<1> DEFINE I == {i \in 1..Len(q) : q[i] = e}
<1>1. CASE ~Contains(q, e)  BY <1>1 DEF RemoveFirst, Contains
<1>2. CASE Contains(q, e)
  <2>0. Len(q) \in Nat  BY LenProperties
  <2>1. I # {} /\ I \in SUBSET Nat  BY <1>2, <2>0 DEF Contains
  <2>2. \E x \in I : \A y \in I : x =< y  BY <2>1, LeastExists
  <2>3. Min(I) \in I  BY <2>2 DEF Min
  <2>4. SelectInSeq(q, LAMBDA w : w = e) = Min(I)  BY <2>1 DEF SelectInSeq
  <2>5. RemoveFirst(q, e) = RemoveAt(q, Min(I))  BY <1>2, <2>4 DEF RemoveFirst, Contains
  <2>6. Min(I) \in 1..Len(q) /\ q[Min(I)] = e  BY <2>3
  <2> HIDE DEF I
  <2> QED  BY <2>5, <2>6, RemoveAtKeeps
<1> QED  BY <1>1, <1>2

LEMMA ChangedMembers ==
  ASSUME NEW g \in GroupRow, NEW how, NEW u \in Users
  PROVE  /\ \A v : Contains(g.members, v) /\ (how = "leave" => v # u) => Contains(Changed(g, how, u).members, v)
         /\ how \in {"enter", "pass"} => Contains(Changed(g, how, u).members, u)
<1> DEFINE q == g.members
           n == Changed(g, how, u).members
<1>0. q \in Seq(Users) /\ DOMAIN g = {"live", "members", "cnt", "status"}  BY DEF GroupRow
<1>1. CASE how \in {"enter", "pass"}
  <2>1. n = Append(q, u)  BY <1>0, <1>1 DEF Changed
  <2> HIDE DEF n, q
  <2>2. Contains(n, u) /\ \A v : Contains(q, v) => Contains(n, v)  BY <1>0, <2>1, AppendContains
  <2> QED  BY <1>1, <2>2 DEF n, q
<1>2. CASE how = "leave"
  <2>1. n = RemoveFirst(q, u)  BY <1>0, <1>2 DEF Changed
  <2> HIDE DEF n, q
  <2>2. \A v : Contains(q, v) /\ v # u => Contains(n, v)  BY <1>0, <2>1, RemoveFirstKeeps
  <2> QED  BY <1>2, <2>2 DEF n, q
<1>3. CASE how \notin {"enter", "pass", "leave"}
  <2>1. n = q  BY <1>3 DEF Changed
  <2> QED  BY <1>3, <2>1
<1> QED  BY <1>1, <1>2, <1>3

-----------------------------------------------------------------------------
(* Who has the group among his contacts is listed, after a step of the handler *)
(* that works at the group.                                                     *)
ListedNow(s, u, g) ==
  \/ Contains(groups'[g].members, u)
  \/ run'[s] # Idle /\ Excused(run'[s], u, g) /\ run'[s].req = run[s].req

LEMMA SavedGroup ==
  ASSUME Typed, NEW s \in Slots, Step(s), CallOf(s).do = "SaveGroup", run[s].group.live, run[s].uuid \in Groups
  PROVE  groups'[run[s].uuid] = Changed(run[s].group, CallOf(s).how, CallOf(s).who)
<1> DEFINE h == run[s]
           new == Changed(h.group, CallOf(s).how, CallOf(s).who)
<1>0. DOMAIN groups = Groups  BY DEF Typed
<1>1. groups' = [groups EXCEPT ![h.uuid] = new]  BY ActionOf DEF SaveGroupRow
<1> HIDE DEF new
<1> QED  BY <1>0, <1>1 DEF new

LEMMA ThereAlready ==
  ASSUME NEW t \in {"contact", "apply"}, NEW g \in Groups, Typed, Vacant(t, g, OfGroup(g)), NEW i \in 1..Len(rows[t]),
         rows[t][i].live, rows[t][i].to = g
  PROVE  FALSE
<1>1. rows[t][i].user \in Users
  <2>1. t \in Tables  BY TablesAre
  <2>2. rows[t][i] \in Row  BY <2>1, TypedRow
  <2> QED  BY <2>2 DEF Row
<1>2. HasTopic(t, i, OfGroup(g))  BY <1>1, GroupTopicOf DEF HasTopic
<1> QED  BY <1>2 DEF Vacant, LiveRow

LEMMA PutsListed ==
  ASSUME Typed, NEW g \in Groups, RosterOK(g), NEW s \in Slots, Works(s, OfGroup(g)), NEW u,
         Puts(CallOf(s), u, g)
  PROVE  ListedNow(s, u, g)
<1> DEFINE h == run[s]
           r == h.req
           c == CallsOf[r]
           d == CallOf(s)
<1>0. /\ Step(s) /\ On(s, OfGroup(g)) /\ h # Idle /\ r \in Requests /\ d = c[h.pc] /\ h.pc \in Int /\ d.do = "Insert"
      /\ g \notin Users
  BY StepLeaves, Here, MembershipAssumption DEF Works, Puts
<1>1. groups' = groups  BY <1>0, Leaves
<1>2. InGroupsHand(h, g)  BY <1>0 DEF RosterOK
<1>3. \/ r.op = "CreateGroup" /\ h.pc = 2 /\ r.contact = g /\ r.owner = u
      \/ r.op = "EnterGroupDirectly" /\ h.pc = 3 /\ r.owner = g /\ r.contact = u
      \/ r.op = "PassContactApply" /\ h.pc = 4 /\ r.owner = g /\ r.contact = u
  BY <1>0, PutsShape
<1>4. CASE r.op = "CreateGroup" /\ h.pc = 2 /\ r.contact = g /\ r.owner = u
  BY <1>1, <1>2, <1>4 DEF InGroupsHand, ListedNow
<1>5. CASE r.op = "EnterGroupDirectly" /\ h.pc = 3 /\ r.owner = g /\ r.contact = u
  BY <1>1, <1>2, <1>5 DEF InGroupsHand, ListedNow
<1>6. CASE r.op = "PassContactApply" /\ h.pc = 4 /\ r.owner = g /\ r.contact = u
  <2>1. Len(c) = 6  BY <1>0, <1>6, PassShape
  <2>2. h.pc + 1 <= Len(c) /\ h.pc + 1 = 5  BY <1>6, <2>1
  <2> HIDE DEF c, d
  <2>3. run'[s] # Idle /\ run'[s].pc = h.pc + 1 /\ run'[s].req = r  BY <1>0, <2>2, GoesAhead DEF c, d
  <2>4. Excused(run'[s], u, g)  BY <1>6, <2>2, <2>3 DEF Excused
  <2> QED  BY <2>3, <2>4 DEF ListedNow
<1> QED  BY <1>3, <1>4, <1>5, <1>6

\* The one who is leaving, or is let in, remains excused until he is gone, or listed.
LEMMA ExcusedListed ==
  ASSUME Typed, NEW g \in Groups, GroundOK(g), RosterOK(g), NEW s \in Slots, Works(s, OfGroup(g)), NEW u \in Users,
         Excused(run[s], u, g), NEW i \in 1..Len(rows'["contact"]), Member(rows'["contact"][i], u, g)
  PROVE  ListedNow(s, u, g)
<1> DEFINE h == run[s]
           r == h.req
           c == CallsOf[r]
           d == CallOf(s)
<1>0. /\ Step(s) /\ On(s, OfGroup(g)) /\ h # Idle /\ r \in Requests /\ d = c[h.pc] /\ h.pc \in Int
      /\ g \notin Users
  BY StepLeaves, Here, MembershipAssumption DEF Works
<1>1. CASE r.op = "LeaveGroup" /\ r.contact = g /\ r.owner = u /\ h.pc \in {3, 4}
  <2>1. Len(c) = 7 /\ c[3].do = "Update" /\ Hides(c[4], u, g)  BY <1>0, <1>1, LeaveShape
  <2> HIDE DEF c, d
  <2>2. CASE h.pc = 3
    <3>1. h.pc + 1 <= Len(c) /\ h.pc + 1 = 4 /\ d.do = "Update"  BY <1>0, <2>1, <2>2
    <3>2. run'[s] # Idle /\ run'[s].pc = h.pc + 1 /\ run'[s].req = r  BY <1>0, <3>1, GoesAhead DEF c, d
    <3>3. Excused(run'[s], u, g)  BY <1>1, <3>1, <3>2 DEF Excused
    <3> QED  BY <3>2, <3>3 DEF ListedNow
  <2>3. CASE h.pc = 4
    <3>1. Hides(CallOf(s), u, g)  BY <1>0, <2>1, <2>3 DEF d
    <3> QED  BY <1>0, <3>1, HidesStep
  <2> QED  BY <1>1, <2>2, <2>3
<1>2. CASE r.op = "PassContactApply" /\ r.owner = g /\ r.contact = u /\ h.pc = 5
  <2>1. Saves(c[5], "pass", u)  BY <1>0, <1>2, PassShape
  <2>2. d.do = "SaveGroup" /\ d.how = "pass" /\ d.who = u  BY <1>0, <1>2, <2>1 DEF Saves
  <2>3. h.uuid = g /\ h.group = groups[g]
    <3>1. InGroupsHand(h, g)  BY <1>0 DEF RosterOK
    <3>2. Saving(h) /\ Named(r) = g  BY <1>0, <1>2 DEF Saving, Named
    <3> QED  BY <3>1, <3>2 DEF InGroupsHand
  <2>4. groups[g].live
    <3>1. Grounded(h, g)  BY <1>0 DEF GroundOK
    <3>2. r.op \in Vouching  BY <1>2 DEF Vouching
    <3> QED  BY <1>2, <3>1, <3>2 DEF Grounded
  <2>5. groups[g] \in GroupRow  BY DEF Typed
  <2> HIDE DEF d
  <2>6. groups'[g] = Changed(groups[g], "pass", u)  BY <1>0, <2>2, <2>3, <2>4, SavedGroup DEF d
  <2>7. Contains(groups'[g].members, u)  BY <2>5, <2>6, ChangedMembers
  <2> QED  BY <2>7 DEF ListedNow
<1> QED  BY <1>1, <1>2 DEF Excused

\* A member list that is written loses nobody but the one who is leaving.
LEMMA StaysListed ==
  ASSUME Typed, NEW g \in Groups, GroundOK(g), RosterOK(g), NEW s \in Slots, Works(s, OfGroup(g)), NEW u \in Users,
         Contains(groups[g].members, u), Joined(u, g)
  PROVE  ListedNow(s, u, g)
<1> DEFINE h == run[s]
           r == h.req
           c == CallsOf[r]
           d == CallOf(s)
           y == OfGroup(g)
<1>0. /\ Step(s) /\ On(s, y) /\ h # Idle /\ r \in Requests /\ d = c[h.pc] /\ h.pc \in Int /\ h.pc \in 1..Len(c)
      /\ Fits(r, d) /\ g \notin Users /\ groups[g] \in GroupRow
  BY StepLeaves, Here, MembershipAssumption DEF Works, Typed
<1>9. InGroupsHand(h, g)  BY <1>0 DEF RosterOK
<1>1. CASE groups'[g] = groups[g]  BY <1>1 DEF ListedNow
<1>2. CASE d.do = "UpdateGroup" /\ groups'[g].members = groups[g].members  BY <1>2 DEF ListedNow
<1>3. CASE d.do = "InsertGroup" /\ d.group = g
  <2>1. r.op = "CreateGroup"  BY <1>0, <1>3 DEF Fits, GroupCall
  <2>2. /\ Len(c) = 3 /\ c[1].group = r.contact /\ c[2].do = "Insert" /\ Besides(c[3])
    BY <1>0, <2>1, CreateShape DEF Puts
  <2>3. h.pc = 1 /\ r.contact = g  BY <1>0, <1>3, <2>2 DEF Besides
  <2>4. ~groups[g].live  BY <1>9, <2>1, <2>3 DEF InGroupsHand
  <2>5. Vacating("contact", g, y)  BY <2>4 DEF GroundOK, GroundClear
  <2>6. c[h.pc].do = "InsertGroup"  BY <1>0, <1>3
  <2> HIDE DEF c, d
  <2>7. ~Dismissing(h, "contact", g, y)
    <3>1. ~Emptying(h, "contact", g, y)  BY <2>6 DEF Emptying, c
    <3>2. ASSUME Seeking(h, "contact", g)  PROVE FALSE
      <4>1. PICK p \in 1..Len(c) : h.pc <= p /\ \A k \in 1..p : h.pc <= k => c[k].do \in Seeks
        BY <3>2 DEF Seeking, c
      <4>2. h.pc \in 1..p /\ h.pc <= h.pc  BY <1>0, <4>1
      <4>3. c[h.pc].do \in Seeks  BY <4>1, <4>2
      <4> QED  BY <2>6, <4>3 DEF Seeks
    <3> QED  BY <3>1, <3>2 DEF Dismissing
  <2>8. Vacant("contact", g, y)
    <3>1. \A q \in Slots : q # s => ~On(q, y)  BY DEF Works
    <3> QED  BY <2>5, <2>7, <3>1 DEF Vacating
  <2>9. PICK i \in 1..Len(rows["contact"]) : Member(rows["contact"][i], u, g)  BY DEF Joined
  <2> QED  BY <2>8, <2>9, ThereAlready DEF Member
<1>4. CASE /\ d.do = "SaveGroup" /\ h.uuid = g /\ h.group.live
           /\ groups'[g] = Changed(h.group, d.how, d.who)
  <2>0. d.who \in Users  BY <1>0, <1>4 DEF Fits, GroupCall
  <2>1. \/ r.op = "LeaveGroup" /\ h.pc = 2 /\ Saves(d, "leave", r.owner)
        \/ r.op = "UpdateGroupInfo" /\ h.pc = 2 /\ d.how = "same"
        \/ r.op = "EnterGroupDirectly" /\ h.pc = 2 /\ Saves(d, "enter", r.contact)
        \/ /\ r.op = "PassContactApply" /\ r.owner \notin Users /\ h.pc = 5
           /\ Saves(d, "pass", r.contact)
        \/ r.op = "RemoveGroupMembers" /\ h.pc # 1 /\ d.how = "same"
    BY <1>0, <1>4, SavesShape
  <2> HIDE DEF d
  <2>2. CASE r.op # "RemoveGroupMembers"
    <3>1. Saving(h)  BY <2>1, <2>2 DEF Saving
    <3>2. Named(r) = g /\ h.group = groups[g]  BY <1>4, <1>9, <3>1 DEF InGroupsHand
    <3>3. CASE d.how = "leave" /\ d.who = u
      <4>1. r.op = "LeaveGroup" /\ h.pc = 2 /\ r.owner = u  BY <2>1, <2>2, <3>3 DEF Saves
      <4>2. r.contact = g  BY <3>2, <4>1 DEF Named
      <4>3. Len(c) = 7  BY <1>0, <4>1, LeaveShape
      <4> HIDE DEF c
      <4>4. h.pc + 1 <= Len(c) /\ h.pc + 1 = 3  BY <4>1, <4>3
      <4>5. run'[s] # Idle /\ run'[s].pc = h.pc + 1 /\ run'[s].req = r  BY <1>0, <1>4, <4>4, GoesAhead DEF c, d
      <4>6. Excused(run'[s], u, g)  BY <4>1, <4>2, <4>4, <4>5 DEF Excused
      <4> QED  BY <4>5, <4>6 DEF ListedNow
    <3>4. CASE ~(d.how = "leave" /\ d.who = u)
      <4>1. groups'[g] = Changed(groups[g], d.how, d.who)  BY <1>4, <3>2
      <4>2. Contains(groups'[g].members, u)  BY <1>0, <2>0, <3>4, <4>1, ChangedMembers
      <4> QED  BY <4>2 DEF ListedNow
    <3> QED  BY <3>3, <3>4
  <2>3. CASE r.op = "RemoveGroupMembers"
    <3>1. Removing(h) /\ d.how = "same"  BY <2>1, <2>3 DEF Removing
    <3>2. r.contact = g  BY <1>4, <1>9, <3>1 DEF InGroupsHand
    <3>3. Contains(h.group.members, u) \/ AboutToGo(h, u, g)  BY <1>9, <3>1, <3>2 DEF InGroupsHand
    <3>4. ~AboutToGo(h, u, g)
      <4>1. c[h.pc].do = "SaveGroup"  BY <1>0, <1>4
      <4>2. c[h.pc] # Hide("contact", u, g)  BY <4>1, CallsAre
      <4> QED  BY <4>1, <4>2 DEF AboutToGo
    <3>5. groups'[g] = h.group  BY <1>4, <3>1 DEF Changed
    <3> QED  BY <3>3, <3>4, <3>5 DEF ListedNow
  <2> QED  BY <2>2, <2>3
<1> QED  BY <1>0, <1>1, <1>2, <1>3, <1>4, GroupEvents

LEMMA WorksListed ==
  ASSUME Typed, HandsOwn, NEW g \in Groups, GroundOK(g), RosterOK(g), NEW s \in Slots, Works(s, OfGroup(g)),
         NEW u \in Users
  PROVE  Listed(u, g)'
<1> DEFINE y == OfGroup(g)
<1>0. Step(s) /\ On(s, y) /\ \A q \in Slots : q # s => ~On(q, y)  BY DEF Works
<1> SUFFICES ASSUME Joined(u, g)'  PROVE (Contains(groups[g].members, u) \/ \E q \in Slots : On(q, y) /\ Excused(run[q], u, g))'
  BY DEF Listed
<1>1. PICK i \in 1..Len(rows'["contact"]) : Member(rows'["contact"][i], u, g)  BY DEF Joined, Member
<1>2. Joined(u, g) \/ Puts(CallOf(s), u, g)  BY <1>0, <1>1, JoinedBy
<1>3. ListedNow(s, u, g)
  <2>1. CASE Puts(CallOf(s), u, g)  BY <2>1, PutsListed
  <2>2. CASE Joined(u, g)
    <3>1. Listed(u, g)  BY DEF RosterOK
    <3>2. Contains(groups[g].members, u) \/ Excused(run[s], u, g)  BY <1>0, <2>2, <3>1 DEF Listed
    <3> QED  BY <1>1, <2>2, <3>2, StaysListed, ExcusedListed
  <2> QED  BY <1>2, <2>1, <2>2
<1>4. run'[s].req = run[s].req /\ run'[s] # Idle => On(s, y)'  BY <1>0 DEF On
<1> QED  BY <1>3, <1>4 DEF ListedNow, Excused

-----------------------------------------------------------------------------
(* What the handler that works at the group has in hand after its call. *)

LEMMA NextCall ==
  ASSUME Typed, NEW s \in Slots, Step(s), run'[s] # Idle,
         run[s].req.op \in {"LeaveGroup", "EnterGroupDirectly", "PassContactApply", "CreateGroup", "RemoveGroupMembers"}
  PROVE  run'[s].pc = run[s].pc + 1 /\ run'[s].req = run[s].req /\ run[s].pc >= 1 /\ run[s].pc \in Int
<1> DEFINE d == CallOf(s)
<1>0. run[s] # Idle /\ Fits(run[s].req, d) /\ run[s].pc >= 1 /\ run[s].pc \in Int  BY StepLeaves, Here
<1>1. d.do \notin {"FirstOr", "EachFound"}  BY <1>0 DEF Fits, RowCall
<1>2. d.do # "SaveUser"  BY <1>0 DEF Fits, UserCall, UserOps
<1>3. d.do \notin {"EachGroup", "EachUser"}  BY <1>0 DEF Fits, ListCall, Lists
<1> QED  BY <1>0, <1>1, <1>2, <1>3, FieldsKept

LEMMA SavingHand ==
  ASSUME Typed, NEW g \in Groups, GroundOK(g), RosterOK(g), NEW s \in Slots, Works(s, OfGroup(g)), run'[s] # Idle,
         Saving(run'[s])
  PROVE  /\ run'[s].uuid = Named(run'[s].req)
         /\ Named(run'[s].req) = g => run'[s].group = groups'[g]
<1> DEFINE h == run[s]
           r == h.req
           c == CallsOf[r]
           d == CallOf(s)
           x == Named(r)
<1>0. /\ Step(s) /\ On(s, OfGroup(g)) /\ h # Idle /\ r \in Requests /\ d = c[h.pc] /\ h.pc \in 1..Len(c)
      /\ h.pc \in Int /\ Fits(r, d) /\ run'[s].req = r
  BY StepLeaves, Here, FieldsKept DEF Works
<1>1. InGroupsHand(h, g)  BY <1>0 DEF RosterOK
<1>2. CASE r.op \in {"LeaveGroup", "UpdateGroupInfo", "EnterGroupDirectly"}
  <2>1. run'[s].pc = 2  BY <1>0, <1>2 DEF Saving
  <2>2. h.pc = 1
    <3>1. CASE r.op \in {"LeaveGroup", "EnterGroupDirectly"}  BY <1>0, <2>1, <3>1, NextCall
    <3>2. CASE r.op = "UpdateGroupInfo"
      <4>1. Len(c) = 4 /\ c[3].do = "Find" /\ c[1].do = "FirstGroup" /\ c[2].do = "SaveGroup" /\ c[4].do = "EachFound"
        BY <1>0, <3>2, UpdateShape
      <4>2. CASE h.pc = 4
        <5>1. run'[s].pc = h.pc + 1 \/ run'[s].pc = h.pc  BY <1>0, <4>1, <4>2, EachTakes
        <5> QED  BY <2>1, <4>2, <5>1
      <4>3. CASE h.pc # 4
        <5>1. h.pc \in {1, 2, 3}  BY <1>0, <4>1, <4>3
        <5>2. d.do \in {"FirstGroup", "SaveGroup", "Find"}  BY <1>0, <4>1, <5>1
        <5>3. run'[s].pc = h.pc + 1  BY <1>0, <5>2, FieldsKept
        <5> QED  BY <2>1, <5>1, <5>3
      <4> QED  BY <4>2, <4>3
    <3> QED  BY <1>2, <3>1, <3>2
  <2>3. Reads(c[1], x)
    <3>1. CASE r.op = "LeaveGroup"  BY <1>0, <3>1, LeaveShape DEF Named
    <3>2. CASE r.op = "UpdateGroupInfo"  BY <1>0, <3>2, InfoShape DEF Named
    <3>3. CASE r.op = "EnterGroupDirectly"  BY <1>0, <3>3, EnterShape DEF Named
    <3> QED  BY <1>2, <3>1, <3>2, <3>3
  <2>4. d.do = "FirstGroup" /\ d.group = x  BY <1>0, <2>2, <2>3 DEF Reads
  <2> HIDE DEF d
  <2>5. groups[x].live  BY <1>0, <2>4, GroupFound DEF d
  <2>6. run'[s].uuid = x /\ groups' = groups /\ run'[s].group = groups[x]  BY <1>0, <2>4, <2>5, GroupRead1 DEF d
  <2> QED  BY <1>0, <2>6
<1>3. CASE r.op = "PassContactApply"
  <2>1. r.owner \notin Users /\ run'[s].pc \in {3, 4, 5}  BY <1>0, <1>3 DEF Saving
  <2>2. run'[s].pc = h.pc + 1  BY <1>0, <1>3, NextCall
  <2>3. h.pc \in {2, 3, 4}  BY <1>0, <2>1, <2>2
  <2>4. /\ c[2].do = "FindGroup" /\ c[2].group = r.owner /\ c[3].do = "Save" /\ c[4].do = "Insert"
    BY <1>0, <1>3, <2>1, PassShape DEF Puts
  <2>5. x = r.owner  BY <1>3 DEF Named
  <2>6. CASE h.pc = 2
    <3>1. d.do = "FindGroup" /\ d.group = x  BY <1>0, <2>4, <2>5, <2>6
    <3> HIDE DEF d
    <3>2. /\ run'[s].uuid = x /\ groups' = groups
          /\ groups[x].live => run'[s].group = groups[x]
      BY <1>0, <3>1, GroupRead1 DEF d
    <3>3. x = g => groups[g].live
      <4>1. Grounded(h, g)  BY <1>0 DEF GroundOK
      <4>2. r.op \in Vouching  BY <1>3 DEF Vouching
      <4> QED  BY <2>5, <2>6, <4>1, <4>2 DEF Grounded
    <3> QED  BY <1>0, <3>2, <3>3
  <2>7. CASE h.pc \in {3, 4}
    <3>1. d.do \in {"Save", "Insert"}  BY <1>0, <2>4, <2>7
    <3>2. groups' = groups /\ run'[s].uuid = h.uuid /\ run'[s].group = h.group  BY <1>0, <3>1, Leaves, FieldsKept
    <3>3. Saving(h)  BY <1>3, <2>1, <2>7 DEF Saving
    <3> QED  BY <1>0, <1>1, <3>2, <3>3 DEF InGroupsHand
  <2> QED  BY <2>3, <2>6, <2>7
<1> QED  BY <1>0, <1>2, <1>3 DEF Saving

\* Who is being removed is struck off before his contact is hidden.
LEMMA RemovingHand ==
  ASSUME Typed, HandsOwn, NEW g \in Groups, RosterOK(g), NEW s \in Slots, Works(s, OfGroup(g)), run'[s] # Idle,
         Removing(run'[s])
  PROVE  /\ run'[s].uuid = run'[s].req.contact
         /\ run'[s].req.contact = g => \A u \in Users :
              (\E i \in 1..Len(rows'["contact"]) : Member(rows'["contact"][i], u, g)) =>
                Contains(run'[s].group.members, u) \/ AboutToGo(run'[s], u, g)
<1> DEFINE h == run[s]
           r == h.req
           c == CallsOf[r]
           d == CallOf(s)
<1>0. /\ Step(s) /\ On(s, OfGroup(g)) /\ h # Idle /\ r \in Requests /\ d = c[h.pc] /\ h.pc \in 1..Len(c)
      /\ h.pc \in Int /\ Fits(r, d) /\ run'[s].req = r /\ r.op = "RemoveGroupMembers"
      /\ \A q \in Slots : q # s => ~On(q, OfGroup(g))
  BY StepLeaves, Here, FieldsKept DEF Works, Removing
<1>1. InGroupsHand(h, g)  BY <1>0 DEF RosterOK
<1>2. run'[s].pc = h.pc + 1  BY <1>0, NextCall
<1>3. /\ Reads(c[1], r.contact) /\ Len(c) \in Nat
      /\ \A p \in 2..Len(c) :
           \/ StrikeAhead(c, p, r.contact)
           \/ c[p].do \in {"Update", "Forget"}
           \/ Saves(c[p], "same", r.owner)
  BY <1>0, RemoveShape
<1>4. CASE h.pc = 1
  <2>1. d.do = "FirstGroup" /\ d.group = r.contact  BY <1>0, <1>3, <1>4 DEF Reads
  <2> HIDE DEF d
  <2>2. groups[r.contact].live  BY <1>0, <2>1, GroupFound DEF d
  <2>3. /\ run'[s].uuid = r.contact /\ groups' = groups /\ run'[s].group = groups[r.contact] /\ rows' = rows
    BY <1>0, <2>1, <2>2, GroupRead1, Leaves DEF d
  <2>4. ASSUME NEW u \in Users, NEW i \in 1..Len(rows'["contact"]), Member(rows'["contact"][i], u, g)
        PROVE  Contains(groups[g].members, u)
    <3>1. Joined(u, g)  BY <2>3, <2>4 DEF Joined
    <3>2. Listed(u, g)  BY DEF RosterOK
    <3>3. ~Excused(h, u, g)  BY <1>0 DEF Excused
    <3> QED  BY <1>0, <3>1, <3>2, <3>3 DEF Listed
  <2> QED  BY <1>0, <2>3, <2>4
<1>5. CASE h.pc # 1
  <2>0. Removing(h) /\ h.pc \in 2..Len(c)  BY <1>0, <1>3, <1>5 DEF Removing
  <2>1. \/ StrikeAhead(c, h.pc, r.contact)
        \/ d.do \in {"Update", "Forget"}
        \/ d.do = "SaveGroup"
    BY <1>0, <1>3, <2>0 DEF Saves
  <2>2. d.do \in {"Strike", "Update", "Forget", "SaveGroup"}  BY <1>0, <2>1 DEF StrikeAhead
  <2>3. run'[s].uuid = h.uuid /\ (d.do # "Strike" => run'[s].group = h.group)  BY <1>0, <2>2, FieldsKept
  <2>4. h.uuid = r.contact  BY <1>1, <2>0 DEF InGroupsHand
  <2>5. ASSUME r.contact = g, NEW u \in Users, NEW i \in 1..Len(rows'["contact"]), Member(rows'["contact"][i], u, g)
        PROVE  Contains(run'[s].group.members, u) \/ AboutToGo(run'[s], u, g)
    <3>1. Joined(u, g)
      <4>1. ~Puts(d, u, g)  BY <2>2 DEF Puts
      <4> QED  BY <1>0, <2>5, <4>1, JoinedBy
    <3>2. Contains(h.group.members, u) \/ AboutToGo(h, u, g)  BY <1>1, <2>0, <2>5, <3>1 DEF InGroupsHand
    <3>3. CASE AboutToGo(h, u, g)
      <4>1. CASE c[h.pc] = Hide("contact", u, g)
        <5>1. Hides(d, u, g)  BY <1>0, <4>1, CallsAre
        <5> QED  BY <1>0, <2>5, <5>1, HidesStep
      <4>2. CASE c[h.pc + 1] = Hide("contact", u, g)  BY <1>0, <1>2, <4>2 DEF AboutToGo
      <4> QED  BY <3>3, <4>1, <4>2 DEF AboutToGo
    <3>4. CASE Contains(h.group.members, u) /\ d.do # "Strike"  BY <2>3, <3>4
    <3>5. CASE Contains(h.group.members, u) /\ d.do = "Strike"
      <4>1. run'[s].group.members = StrikeOut(h.group.members, d.who).members  BY <1>0, <3>5, StruckLive
      <4>2. CASE d.who = u
        <5>1. StrikeAhead(c, h.pc, g)  BY <2>1, <2>5, <3>5
        <5>2. h.pc + 2 <= Len(c) /\ c[h.pc + 1].do = "Update" /\ c[h.pc + 2] = Hide("contact", u, g)
          BY <1>0, <4>2, <5>1 DEF StrikeAhead
        <5>3. (h.pc + 1) + 1 = h.pc + 2  BY <1>0
        <5> QED  BY <1>0, <1>2, <5>2, <5>3 DEF AboutToGo
      <4>3. CASE d.who # u
        <5>1. h.group.members \in Seq(Users)  BY <1>0, Here DEF BodyOK, GroupRow
        <5>2. Contains(StrikeOut(h.group.members, d.who).members, u)
          <6> DEFINE m == h.group.members
                     w == d.who
          <6>1. m \in Seq(Users) /\ Contains(m, u) /\ u \in Users \ {w}  BY <3>5, <4>3, <5>1
          <6> HIDE DEF m, w
          <6>2. Contains(StrikeOut(m, w).members, u)  BY <6>1, StrikeOutKeeps
          <6> QED  BY <6>2 DEF m, w
        <5> QED  BY <4>1, <5>2
      <4> QED  BY <4>2, <4>3
    <3> QED  BY <3>2, <3>3, <3>4, <3>5
  <2> QED  BY <1>0, <2>3, <2>4, <2>5
<1> QED  BY <1>4, <1>5

LEMMA CreatingHand ==
  ASSUME Typed, NEW g \in Groups, NEW s \in Slots, Works(s, OfGroup(g)), run'[s] # Idle,
         run'[s].req.op = "CreateGroup", run'[s].req.contact = g
  PROVE  run'[s].pc # 1 /\ (run'[s].pc = 2 => Contains(groups'[g].members, run'[s].req.owner))
<1> DEFINE h == run[s]
           r == h.req
           c == CallsOf[r]
           d == CallOf(s)
<1>0. /\ Step(s) /\ h # Idle /\ r \in Requests /\ d = c[h.pc] /\ h.pc \in Int /\ run'[s].req = r /\ DOMAIN groups = Groups
  BY StepLeaves, Here, FieldsKept DEF Works, Typed
<1>1. run'[s].pc = h.pc + 1 /\ h.pc >= 1  BY <1>0, NextCall
<1>2. r.owner = OwnerOf[g] /\ c[1].do = "InsertGroup" /\ c[1].group = g  BY <1>0, CreateShape
<1>3. ASSUME run'[s].pc = 2  PROVE Contains(groups'[g].members, r.owner)
  <2>1. d.do = "InsertGroup" /\ d.group = g  BY <1>0, <1>1, <1>2, <1>3
  <2>2. groups' = [groups EXCEPT ![d.group] = [live |-> TRUE, members |-> <<OwnerOf[d.group]>>, cnt |-> 1,
                                          status |-> "NORMAL"]]
    BY <1>0, <2>1, ActionOf DEF InsertGroupRow
  <2> HIDE DEF d
  <2>3. groups'[g].members = <<r.owner>>  BY <1>0, <1>2, <2>1, <2>2
  <2>4. Contains(<<r.owner>>, r.owner)  BY DEF Contains
  <2> QED  BY <2>3, <2>4
<1> QED  BY <1>0, <1>1, <1>3

LEMMA EnteringHand ==
  ASSUME Typed, NEW g \in Groups, RosterOK(g), NEW s \in Slots, Works(s, OfGroup(g)), run'[s] # Idle,
         run'[s].req.op = "EnterGroupDirectly", run'[s].req.owner = g, run'[s].pc = 3
  PROVE  Contains(groups'[g].members, run'[s].req.contact)
<1> DEFINE h == run[s]
           r == h.req
           c == CallsOf[r]
           d == CallOf(s)
<1>0. /\ Step(s) /\ On(s, OfGroup(g)) /\ h # Idle /\ r \in Requests /\ d = c[h.pc] /\ h.pc \in Int /\ run'[s].req = r
      /\ h.group \in GroupRow
  BY StepLeaves, Here, FieldsKept DEF Works, BodyOK
<1>1. h.pc = 2  BY <1>0, NextCall
<1>2. Saves(c[2], "enter", r.contact) /\ r.contact \in Users  BY <1>0, EnterShape
<1>3. d.do = "SaveGroup" /\ d.how = "enter" /\ d.who = r.contact  BY <1>0, <1>1, <1>2 DEF Saves
<1>4. h.uuid = g
  <2>1. InGroupsHand(h, g) /\ Saving(h) /\ Named(r) = g  BY <1>0, <1>1 DEF RosterOK, Saving, Named
  <2> QED  BY <2>1 DEF InGroupsHand
<1>5. h.group.live
  <2>1. SaveGroupRow(s)  BY <1>0, <1>3, ActionOf
  <2>2. h.group.live \/ Return(s)  BY <2>1 DEF SaveGroupRow
  <2>3. ~Return(s)  BY <1>0, Here DEF Return
  <2> QED  BY <2>2, <2>3
<1> HIDE DEF d
<1>6. groups'[g] = Changed(h.group, "enter", r.contact)  BY <1>0, <1>3, <1>4, <1>5, SavedGroup DEF d
<1>7. Contains(groups'[g].members, r.contact)  BY <1>0, <1>2, <1>6, ChangedMembers
<1> QED  BY <1>0, <1>7

LEMMA WorksGroupsHand ==
  ASSUME Typed, HandsOwn, NEW g \in Groups, GroundOK(g), RosterOK(g), NEW s \in Slots, Works(s, OfGroup(g)),
         run'[s] # Idle
  PROVE  InGroupsHand(run[s], g)'
<1>1. Saving(run'[s]) => /\ run'[s].uuid = Named(run'[s].req)
                         /\ Named(run'[s].req) = g => run'[s].group = groups'[g]
  BY SavingHand
<1>2. Removing(run'[s]) =>
        /\ run'[s].uuid = run'[s].req.contact
        /\ run'[s].req.contact = g => \A u \in Users :
             (\E i \in 1..Len(rows'["contact"]) : Member(rows'["contact"][i], u, g)) =>
               Contains(run'[s].group.members, u) \/ AboutToGo(run'[s], u, g)
  BY RemovingHand
<1>3. run'[s].req.op = "CreateGroup" /\ run'[s].req.contact = g =>
        run'[s].pc # 1 /\ (run'[s].pc = 2 => Contains(groups'[g].members, run'[s].req.owner))
  BY CreatingHand
<1>4. run'[s].req.op = "EnterGroupDirectly" /\ run'[s].req.owner = g /\ run'[s].pc = 3 =>
        Contains(groups'[g].members, run'[s].req.contact)
  BY EnteringHand
<1>5. \A u : Joined(u, g)' => \E i \in 1..Len(rows'["contact"]) : Member(rows'["contact"][i], u, g)
  BY DEF Joined, Member
<1>6. /\ Saving(run[s])' = Saving(run'[s]) /\ Removing(run[s])' = Removing(run'[s])
      /\ Named(run[s].req)' = Named(run'[s].req)
  BY DEF Saving, Removing, Named
<1>7. \A u : AboutToGo(run'[s], u, g) => AboutToGo(run[s], u, g)'  BY DEF AboutToGo
<1> QED  BY <1>1, <1>2, <1>3, <1>4, <1>5, <1>6, <1>7 DEF InGroupsHand

\* The handler that begins is a request that was still to be made.
LEMMA NotYetCreated ==
  ASSUME Typed, BirthsOK, [Next]_vars, NEW s \in Slots, run[s] = Idle, run'[s] # Idle,
         NEW g \in Groups, run'[s].req.op = "CreateGroup", run'[s].req.contact = g
  PROVE  ~groups[g].live
<1>1. ASSUME NEW q \in Slots, Submit(q)  PROVE ~groups[g].live
  <2>1. PICK r \in Scripts[script][sent + 1] :
           run' = [run EXCEPT ![q] = NewHandler(r)] /\ sent < Len(Scripts[script])
    BY <1>1, Submits
  <2>2. DOMAIN run = Slots  BY DEF Typed, Handlers
  <2>3. q = s /\ run'[s] = NewHandler(r)  BY <2>1, <2>2
  <2>4. run'[s].req = r  BY <2>3 DEF NewHandler
  <2>5. ToCome(g)  BY <2>1, <2>4, RequestToCome
  <2> QED  BY <2>5 DEF BirthsOK, Unseen
<1>2. ASSUME NEW q \in Slots, Moved(q), run[q] # Idle  PROVE FALSE
  <2>1. q # s  BY <1>2
  <2> QED  BY <1>2, <2>1 DEF Moved
<1>3. ASSUME NEW q \in Slots, Step(q)  PROVE FALSE
  <2>1. Moved(q) /\ run[q] # Idle  BY <1>3, StepIsTyped, StepLeaves DEF StepTyped
  <2> QED  BY <1>2, <2>1
<1>4. ASSUME NEW q \in Slots, Fault(q)  PROVE FALSE
  <2>1. Moved(q) /\ run[q] # Idle  BY <1>4, FaultTyped DEF StepTyped, Fault, Running
  <2> QED  BY <1>2, <2>1
<1>5. ASSUME NEW e \in cache, Expire(e)  PROVE FALSE  BY <1>5 DEF Expire
<1>6. ASSUME UNCHANGED vars  PROVE FALSE  BY <1>6 DEF vars
<1> QED  BY <1>1, <1>3, <1>4, <1>5, <1>6 DEF Next

LEMMA SameRoster ==
  ASSUME NEW g \in Groups, groups'[g] = groups[g],
         \A u \in Users : Joined(u, g)' => Joined(u, g),
         NEW s \in Slots, run'[s] = run[s], InGroupsHand(run[s], g)
  PROVE  InGroupsHand(run[s], g)'
<1>1. /\ Saving(run[s])' = Saving(run[s]) /\ Removing(run[s])' = Removing(run[s])
      /\ Named(run[s].req)' = Named(run[s].req)
  BY DEF Saving, Removing, Named
<1>2. \A u : AboutToGo(run[s], u, g)' = AboutToGo(run[s], u, g)  BY DEF AboutToGo
<1> QED  BY <1>1, <1>2 DEF InGroupsHand

LEMMA ElsewhereRoster ==
  ASSUME Typed, NEW g \in Groups, RosterOK(g), Elsewhere(OfGroup(g))
  PROVE  RosterOK(g)'
<1> DEFINE y == OfGroup(g)
<1>1. groups'[g] = groups[g] /\ \A s \in Slots : On(s, y)' => On(s, y) /\ run'[s] = run[s]
  BY DEF Elsewhere
<1>2. \A s \in Slots : On(s, y) => On(s, y)' /\ run'[s] = run[s]
  BY DEF Elsewhere, On
<1>3. ASSUME NEW u \in Users, Joined(u, g)'  PROVE Joined(u, g)
  <2>1. PICK i \in 1..Len(rows'["contact"]) : Member(rows'["contact"][i], u, g)  BY <1>3 DEF Joined, Member
  <2>2. Topic("contact", rows'["contact"][i].user, rows'["contact"][i].to) = y  BY <2>1, GroupTopicOf DEF Member
  <2>3. i \in 1..Len(rows["contact"]) /\ rows'["contact"][i] = rows["contact"][i]  BY <2>2, TablesAre DEF Elsewhere
  <2> QED  BY <2>1, <2>3 DEF Joined
<1>4. ASSUME NEW u \in Users  PROVE Listed(u, g)'
  <2> SUFFICES ASSUME Joined(u, g)'
               PROVE  Contains(groups'[g].members, u) \/ \E s \in Slots : On(s, y)' /\ Excused(run'[s], u, g)
    BY DEF Listed, Excused
  <2>1. Listed(u, g) /\ Joined(u, g)  BY <1>3 DEF RosterOK
  <2> QED  BY <1>1, <1>2, <2>1 DEF Listed
<1>5. ASSUME NEW s \in Slots, On(s, y)'  PROVE InGroupsHand(run[s], g)'
  <2>1. On(s, y) /\ run'[s] = run[s]  BY <1>1, <1>5
  <2>2. InGroupsHand(run[s], g)  BY <2>1 DEF RosterOK
  <2> QED  BY <1>1, <1>3, <2>1, <2>2, SameRoster
<1> QED  BY <1>4, <1>5 DEF RosterOK

LEMMA BeginsRoster ==
  ASSUME Typed, BirthsOK, [Next]_vars, NEW g \in Groups, RosterOK(g), NEW s \in Slots, Begins(s, OfGroup(g))
  PROVE  RosterOK(g)'
<1> DEFINE y == OfGroup(g)
<1>1. /\ run[s] = Idle /\ groups' = groups /\ rows' = rows
      /\ \A q \in Slots : q # s => ~On(q, y) /\ ~On(q, y)'
  BY DEF Begins, tables
<1>2. ASSUME NEW u \in Users  PROVE Listed(u, g)'
  <2> SUFFICES ASSUME Joined(u, g)'  PROVE Contains(groups'[g].members, u)
    BY DEF Listed
  <2>1. Listed(u, g) /\ Joined(u, g)  BY <1>1 DEF RosterOK, Joined
  <2>2. \A q \in Slots : ~On(q, y)  BY <1>1 DEF On
  <2> QED  BY <1>1, <2>1, <2>2 DEF Listed
<1>3. PICK r \in Requests : run'[s] = NewHandler(r)  BY DEF Begins
<1>4. run'[s].pc = 1 /\ run'[s].req = r  BY <1>3 DEF NewHandler
<1>5. r.op = "CreateGroup" /\ r.contact = g => ~groups'[g].live
  <2>1. NewHandler(r) # Idle
    <3>1. NewHandler(r).pc = 1  BY DEF NewHandler
    <3>2. Idle.pc = 0  BY DEF Idle
    <3> QED  BY <3>1, <3>2
  <2> QED  BY <1>1, <1>3, <1>4, <2>1, NotYetCreated
<1>6. InGroupsHand(run[s], g)'
  <2>1. ~Saving(run[s])' /\ ~Removing(run[s])'  BY <1>4 DEF Saving, Removing
  <2> QED  BY <1>4, <1>5, <2>1 DEF InGroupsHand
<1> QED  BY <1>1, <1>2, <1>6 DEF RosterOK

LEMMA RosterStep ==
  ASSUME Typed, Apart, HandsOwn, BirthsOK, [Next]_vars, NEW g \in Groups, OfGroup(g) \notin disturbed', GroundOK(g),
         RosterOK(g)
  PROVE  RosterOK(g)'
<1> DEFINE y == OfGroup(g)
<1>1. Elsewhere(y) \/ \E s \in Slots : Begins(s, y) \/ Works(s, y)  BY StepAbout
<1>2. CASE Elsewhere(y)  BY <1>2, ElsewhereRoster
<1>3. ASSUME NEW s \in Slots, Begins(s, y)  PROVE RosterOK(g)'
  BY <1>3, BeginsRoster
<1>4. ASSUME NEW s \in Slots, Works(s, y)  PROVE RosterOK(g)'
  <2>1. \A u \in Users : Listed(u, g)'  BY <1>4, WorksListed
  <2>2. \A q \in Slots : q # s => ~On(q, y)'  BY <1>4 DEF Works
  <2>3. run'[s] # Idle => InGroupsHand(run[s], g)'  BY <1>4, WorksGroupsHand
  <2>4. On(s, y)' => run'[s] # Idle  BY DEF On
  <2>5. \A q \in Slots : On(q, y)' => InGroupsHand(run[q], g)'  BY <2>2, <2>3, <2>4
  <2> QED  BY <2>1, <2>5 DEF RosterOK
<1> QED  BY <1>1, <1>2, <1>3, <1>4

RostersOK == \A g \in Groups : OfGroup(g) \notin disturbed => RosterOK(g)

LEMMA InitRosters == Init => RostersOK
<1> SUFFICES ASSUME Init, NEW g \in Groups  PROVE RosterOK(g)
  BY DEF RostersOK
<1>1. \A s \in Slots : \A y : ~On(s, y)  BY DEF Init, On
<1>2. \A u : ~Joined(u, g)
  <2>1. Len(rows["contact"]) = 0  BY InitRows, TablesAre
  <2>2. 1..Len(rows["contact"]) = {}  BY <2>1
  <2> QED  BY <2>2 DEF Joined
<1> QED  BY <1>1, <1>2 DEF RosterOK, Listed

LEMMA RostersStep ==
  Typed /\ Apart /\ HandsOwn /\ BirthsOK /\ GroundsOK /\ RostersOK /\ [Next]_vars => RostersOK'
<1> SUFFICES ASSUME Typed, Apart, HandsOwn, BirthsOK, GroundsOK, RostersOK, [Next]_vars, NEW g \in Groups,
                    OfGroup(g) \notin disturbed'
             PROVE  RosterOK(g)'
  BY DEF RostersOK
<1>0. OfGroup(g) \notin disturbed  BY DisturbedGrows
<1>1. GroundOK(g) /\ RosterOK(g)  BY <1>0 DEF GroundsOK, RostersOK
<1> QED  BY <1>1, RosterStep

LEMMA AlwaysRosters == Spec => [](Typed /\ GroundsOK /\ RostersOK)
<1>1. Typed /\ Apart /\ HandsOwn /\ BirthsOK /\ GroundsOK /\ RostersOK /\ [Next]_vars => RostersOK'  BY RostersStep
<1> QED  BY <1>1, InitRosters, AlwaysApart, AlwaysOwn, AlwaysBirths, AlwaysGrounds, PTL DEF Spec

\* At all times who has a group among his contacts is on its member list, and the group
\* exists, unless requests about it overlapped or failed: LeaveGroup and
\* RemoveGroupMembers go on to hide the contact of whom they strike off the list,
\* PassContactApply to list whom it gives one, and the row that is written back is the
\* one that was read, nobody else working at the group.
THEOREM JoinedAreListed == Spec => []JoinedIsListed
<1>1. ASSUME Typed, GroundsOK, RostersOK, NEW g \in Groups, Quiet(OfGroup(g)), NEW i \in 1..Len(rows["contact"]),
             rows["contact"][i].live, rows["contact"][i].to = g
      PROVE  groups[g].live /\ Contains(groups[g].members, rows["contact"][i].user)
  <2>1. OfGroup(g) \notin disturbed /\ \A s \in Slots : ~On(s, OfGroup(g))  BY <1>1, QuietIs
  <2>2. GroundOK(g) /\ RosterOK(g)  BY <1>1, <2>1 DEF GroundsOK, RostersOK
  <2>3. rows["contact"][i].user \in Users
    <3>1. rows["contact"][i] \in Row  BY <1>1, TypedRow, TablesAre
    <3> QED  BY <3>1 DEF Row
  <2>4. Contains(groups[g].members, rows["contact"][i].user)
    <3> DEFINE u == rows["contact"][i].user
    <3>1. Joined(u, g)  BY <1>1 DEF Joined, Member
    <3>2. Listed(u, g)  BY <2>2, <2>3 DEF RosterOK
    <3> QED  BY <2>1, <3>1, <3>2 DEF Listed
  <2>5. ASSUME ~groups[g].live  PROVE FALSE
    <3>1. Vacant("contact", g, OfGroup(g))  BY <2>1, <2>2, <2>5 DEF GroundOK, GroundClear, Vacating
    <3> QED  BY <1>1, <3>1, ThereAlready
  <2> QED  BY <2>4, <2>5
<1>2. Typed /\ GroundsOK /\ RostersOK => JoinedIsListed
  <2> SUFFICES ASSUME Typed, GroundsOK, RostersOK, NEW g \in Groups, Quiet(OfGroup(g)), NEW x \in LiveTo("contact", g)
               PROVE  groups[g].live /\ Contains(groups[g].members, x.user)
    BY DEF JoinedIsListed
  <2>1. DOMAIN rows["contact"] = 1..Len(rows["contact"])  BY TablesAre DEF Typed
  <2>2. PICK i \in LiveRows("contact") : rows["contact"][i].to = g /\ x = rows["contact"][i]  BY DEF LiveTo
  <2>3. i \in 1..Len(rows["contact"]) /\ rows["contact"][i].live  BY <2>1 DEF LiveRows
  <2> QED  BY <1>1, <2>2, <2>3
<1> QED  BY <1>2, AlwaysRosters, PTL

-----------------------------------------------------------------------------
(* The cached list of the groups of an owner.  The groups come and go with the *)
(* handlers that forget the list afterwards, and with no others.               *)

\* A group whose members are being removed exists.
GroupHeld(h, g) == h.req.op = "RemoveGroupMembers" /\ h.req.contact = g /\ h.pc # 1 => groups[g].live

HeldOK(g) == \A s \in Slots : On(s, OfGroup(g)) => GroupHeld(run[s], g)

LEMMA WorksHeld ==
  ASSUME Typed, NEW g \in Groups, HeldOK(g), NEW s \in Slots, Works(s, OfGroup(g)), run'[s] # Idle
  PROVE  GroupHeld(run[s], g)'
<1> DEFINE h == run[s]
           r == h.req
           c == CallsOf[r]
           d == CallOf(s)
<1>0. /\ Step(s) /\ On(s, OfGroup(g)) /\ h # Idle /\ r \in Requests /\ run'[s].req = r
      /\ d = c[h.pc] /\ h.pc \in 1..Len(c) /\ h.pc \in Int
  BY StepLeaves, Here, FieldsKept DEF Works
<1> SUFFICES ASSUME r.op = "RemoveGroupMembers", r.contact = g  PROVE groups'[g].live
  BY <1>0 DEF GroupHeld
<1>1. CASE h.pc # 1
  <2>1. groups[g].live  BY <1>0, <1>1 DEF HeldOK, GroupHeld
  <2> QED  BY <1>0, <2>1, GroupGoes
<1>2. CASE h.pc = 1
  <2>1. Reads(c[1], r.contact)  BY <1>0, RemoveShape
  <2>2. d.do = "FirstGroup" /\ d.group = g  BY <1>0, <1>2, <2>1 DEF Reads
  <2> HIDE DEF d
  <2>3. groups[g].live /\ groups' = groups  BY <1>0, <2>2, GroupFound DEF d
  <2> QED  BY <2>3
<1> QED  BY <1>1, <1>2

LEMMA HeldStep ==
  ASSUME Typed, Apart, [Next]_vars, NEW g \in Groups, OfGroup(g) \notin disturbed', HeldOK(g)
  PROVE  HeldOK(g)'
<1> DEFINE y == OfGroup(g)
<1>1. Elsewhere(y) \/ \E s \in Slots : Begins(s, y) \/ Works(s, y)  BY StepAbout
<1>2. CASE Elsewhere(y)
  <2>1. groups'[g] = groups[g]  BY <1>2 DEF Elsewhere
  <2>2. ASSUME NEW s \in Slots, On(s, y)'  PROVE GroupHeld(run[s], g)'
    <3>1. On(s, y) /\ run'[s] = run[s]  BY <1>2, <2>2 DEF Elsewhere
    <3>2. GroupHeld(run[s], g)  BY <3>1 DEF HeldOK
    <3> QED  BY <2>1, <3>1, <3>2 DEF GroupHeld
  <2> QED  BY <2>2 DEF HeldOK
<1>3. ASSUME NEW s \in Slots, Begins(s, y)  PROVE HeldOK(g)'
  <2>1. \A q \in Slots : q # s => ~On(q, y)'  BY <1>3 DEF Begins
  <2>2. run'[s].pc = 1  BY <1>3 DEF Begins, NewHandler
  <2>3. GroupHeld(run[s], g)'  BY <2>2 DEF GroupHeld
  <2> QED  BY <2>1, <2>3 DEF HeldOK
<1>4. ASSUME NEW s \in Slots, Works(s, y)  PROVE HeldOK(g)'
  <2>1. \A q \in Slots : q # s => ~On(q, y)'  BY <1>4 DEF Works
  <2>2. run'[s] # Idle => GroupHeld(run[s], g)'  BY <1>4, WorksHeld
  <2>3. On(s, y)' => run'[s] # Idle  BY DEF On
  <2> QED  BY <2>1, <2>2, <2>3 DEF HeldOK
<1> QED  BY <1>1, <1>2, <1>3, <1>4

HeldsOK == \A g \in Groups : OfGroup(g) \notin disturbed => HeldOK(g)

LEMMA AlwaysHeld == Spec => [](Typed /\ HeldsOK)
<1>1. Init => HeldsOK
  <2> SUFFICES ASSUME Init, NEW g \in Groups  PROVE HeldOK(g)
    BY DEF HeldsOK
  <2>1. \A s \in Slots : \A y : ~On(s, y)  BY DEF Init, On
  <2> QED  BY <2>1 DEF HeldOK
<1>2. Typed /\ Apart /\ HeldsOK /\ [Next]_vars => HeldsOK'
  <2> SUFFICES ASSUME Typed, Apart, HeldsOK, [Next]_vars, NEW g \in Groups, OfGroup(g) \notin disturbed'
               PROVE  HeldOK(g)'
    BY DEF HeldsOK
  <2>0. OfGroup(g) \notin disturbed  BY DisturbedGrows
  <2>1. HeldOK(g)  BY <2>0 DEF HeldsOK
  <2> QED  BY <2>1, HeldStep
<1> QED  BY <1>1, <1>2, AlwaysApart, PTL DEF Spec

\* A group that nothing has disturbed comes into being when it is created.
LEMMA GroupComes ==
  ASSUME Typed, NEW s \in Slots, Step(s), NEW g \in Groups, RosterOK(g), HeldOK(g), ~groups[g].live, groups'[g].live
  PROVE  CallOf(s).do = "InsertGroup" /\ CallOf(s).group = g
<1> DEFINE h == run[s]
           d == CallOf(s)
<1>0. h # Idle /\ h.req \in Requests /\ Fits(h.req, d) /\ BodyOK(h)  BY StepLeaves, Here
<1>1. ASSUME d.do = "SaveGroup", h.uuid = g, h.group.live  PROVE FALSE
  <2>0. h.req.op # "OpenSession"  BY <1>0, <1>1 DEF Fits, GroupCall
  <2>1. GroupTopic(h.req, g)  BY <1>0, <1>1, <2>0 DEF BodyOK
  <2>2. On(s, OfGroup(g))  BY <1>0, <2>1 DEF GroupTopic, On
  <2>3. InGroupsHand(h, g) /\ GroupHeld(h, g)  BY <2>2 DEF RosterOK, HeldOK
  <2>4. Saving(h) \/ Removing(h)  BY <1>1, SavesShape DEF Saving, Removing
  <2>5. CASE Saving(h)
    <3>1. h.group = groups[g]  BY <1>1, <2>3, <2>5 DEF InGroupsHand
    <3> QED  BY <1>1, <3>1
  <2>6. CASE Removing(h)
    <3>1. h.req.contact = g  BY <1>1, <2>3, <2>6 DEF InGroupsHand
    <3> QED  BY <2>3, <2>6, <3>1 DEF GroupHeld, Removing
  <2> QED  BY <2>4, <2>5, <2>6
<1> QED  BY <1>1, GroupEvents

ListKey == "contact_mygroup_list_"
Keepers == {"CreateGroup", "DismissGroup", "DeleteGroups"}

Clears(c, o)  == c.do = "Forget" /\ c.list = ListKey /\ o \in c.of
Forgets(h, o) == \E p \in 1..Len(CallsOf[h.req]) : p >= h.pc /\ Clears(CallsOf[h.req][p], o)

LEMMA ClearsWhat ==
  /\ \A o : Clears(Forget(ListKey, o), o)
  /\ \A o \in Users : Clears(ForgetAll(ListKey), o)
BY DEF Clears, Forget, ForgetAll, Ids

\* Who has to do with the list of an owner.
LEMMA ListOps ==
  ASSUME NEW r \in Requests, NEW o, OfList(o) \in AboutOf[r]
  PROVE  r.op \in Keepers \/ (r.op = ListKey /\ r.owner = o)
<1>0. AboutOf[r] = About(r)  BY RequestOK
<1>1. \A u, x, g, tel : OfList(o) # OfTalk(u, x) /\ OfList(o) # OfGroup(g) /\ OfList(o) # OfTel(tel) /\ OfList(o) # OfPair(u, x)
  BY DEF OfTel, OfTalk, OfGroup, OfList, OfPair
<1>2. OfList(o) \notin Pair(r) \cup Roster(r)  BY <1>1 DEF Pair, Roster
<1>3. OfList(o) \notin Account(r) \cup Talks(r) \cup Ties(r)  BY <1>1 DEF Account, Talks, Ties
<1>4. OfList(o) \notin {OfTalk(r.owner, r.contact), OfTel(TelOf[r.owner])}  BY <1>1
<1>5. OfList(o) = OfList(r.owner) => r.owner = o  BY DEF OfList
<1>6. CASE r.op \in Keepers  BY <1>6
<1>7. CASE r.op = ListKey
  <2>1. AboutOf[r] = {OfList(r.owner)}  BY <1>7, AboutCases DEF ListKey
  <2> QED  BY <1>5, <1>7, <2>1
<1>8. CASE r.op \notin Keepers /\ r.op # ListKey
  <2>1. AboutOf[r] \subseteq Pair(r) \cup Roster(r) \cup Account(r) \cup Talks(r) \cup Ties(r)
                               \cup {OfTalk(r.owner, r.contact), OfTel(TelOf[r.owner])}
    BY <1>0, <1>8 DEF About, UserOps, Keepers, ListKey, Lists
  <2> QED  BY <1>2, <1>3, <1>4, <2>1
<1> QED  BY <1>6, <1>7, <1>8

\* Who creates, dismisses or deletes a group forgets the list of its owner afterwards.
LEMMA ClearsLater ==
  ASSUME Typed, NEW s \in Slots, Step(s), NEW g \in Groups, CallOf(s).group = g,
         CallOf(s).do = "InsertGroup" \/ (CallOf(s).do = "UpdateGroup" /\ run[s].req.op \in {"DismissGroup", "DeleteGroups"})
  PROVE  /\ run[s].req.op \in Keepers /\ OfList(OwnerOf[g]) \in AboutOf[run[s].req]
         /\ \E p \in 1..Len(CallsOf[run[s].req]) : p >= run[s].pc + 1 /\ Clears(CallsOf[run[s].req][p], OwnerOf[g])
<1> DEFINE h == run[s]
           r == h.req
           c == CallsOf[r]
           d == CallOf(s)
           o == OwnerOf[g]
<1>0. /\ h # Idle /\ r \in Requests /\ Fits(r, d) /\ d = c[h.pc] /\ h.pc \in 1..Len(c) /\ h.pc \in Int
      /\ o \in Users /\ d.group = g
  BY StepLeaves, Here, MembershipAssumption
<1>1. CASE r.op = "CreateGroup"
  <2> DEFINE x1 == InsertGroup(r.contact)
             x2 == Insert("contact", r.owner, r.contact, "NORMAL")
             x3 == Forget(ListKey, r.owner)
  <2>1. c = << x1, x2, x3 >> /\ r.contact \in Groups /\ r.owner = OwnerOf[r.contact]
    BY <1>0, <1>1, CreateGroupCalls DEF CreateGroup, ListKey
  <2>2. x1.do = "InsertGroup" /\ x1.group = r.contact /\ x2.do = "Insert" /\ x3.do = "Forget" /\ Clears(x3, r.owner)
    BY ClearsWhat DEF InsertGroup, Insert, Forget
  <2> HIDE DEF x1, x2, x3
  <2>3. Len(c) = 3 /\ c[1] = x1 /\ c[2] = x2 /\ c[3] = x3  BY <2>1, ThreeCalls
  <2>4. d.do = "InsertGroup"  BY <1>1
  <2> HIDE DEF c, d
  <2>5. h.pc = 1  BY <1>0, <2>2, <2>3, <2>4
  <2>6. d = x1  BY <1>0, <2>3, <2>5
  <2>7. r.contact = g /\ r.owner = o  BY <1>0, <2>1, <2>2, <2>6
  <2>8. 3 \in 1..Len(c) /\ 3 >= h.pc + 1 /\ Clears(c[3], o)  BY <2>2, <2>3, <2>5, <2>7
  <2>9. OfList(o) \in AboutOf[r]
    <3>1. g \in GroupsIn(r)  BY <2>7 DEF GroupsIn
    <3>2. OfList(o) \in OwnersList(r)  BY <3>1 DEF OwnersList
    <3>3. AboutOf[r] = About(r)  BY <1>0, RequestOK
    <3>4. About(r) = Roster(r) \cup OwnersList(r)  BY <1>1 DEF About, UserOps, Lists
    <3> QED  BY <3>2, <3>3, <3>4
  <2> QED  BY <1>1, <2>8, <2>9 DEF Keepers, c
<1>2. CASE r.op = "DismissGroup"
  <2> DEFINE x == r.contact
  <2>1. /\ x \in Groups /\ r.owner = OwnerOf[x]
        /\ c = << UpdateGroup(x, "deleted_at"),
                  Find("session", Users, x), EachFound("session", "hide"),
                  Find("contact", Users, x), EachFound("contact", "hide"),
                  Find("apply", Users, x), EachFound("apply", "hide"),
                  Forget(ListKey, r.owner), Forget("group_session_list_", r.owner),
                  ForgetAll("my_joined_group_list_") >>
    BY <1>0, <1>2, DismissGroupCalls DEF ListKey
  <2> HIDE DEF x
  <2>2. /\ Len(c) = 10 /\ (\A k \in 2..10 : c[k].do # "UpdateGroup") /\ c[1].group = x
        /\ c[8] = Forget(ListKey, r.owner)
    BY <2>1 DEF Find, EachFound, Forget, ForgetAll, UpdateGroup
  <2>3. Clears(c[8], r.owner)  BY <2>2, ClearsWhat
  <2>4. d.do = "UpdateGroup"  BY <1>0, <1>2 DEF Fits, GroupCall
  <2> HIDE DEF c, d
  <2>5. h.pc = 1  BY <1>0, <2>2, <2>4
  <2>6. x = g /\ r.owner = o  BY <1>0, <2>1, <2>2, <2>5
  <2>7. 8 \in 1..Len(c) /\ 8 >= h.pc + 1 /\ Clears(c[8], o)  BY <2>2, <2>3, <2>5, <2>6
  <2>8. OfList(o) \in AboutOf[r]
    <3>1. g \in GroupsIn(r)  BY <2>6 DEF GroupsIn, x
    <3>2. OfList(o) \in OwnersList(r)  BY <3>1 DEF OwnersList
    <3>3. AboutOf[r] = About(r)  BY <1>0, RequestOK
    <3>4. About(r) = Roster(r) \cup OwnersList(r)  BY <1>2 DEF About, UserOps, Lists
    <3> QED  BY <3>2, <3>3, <3>4
  <2> QED  BY <1>2, <2>7, <2>8 DEF Keepers, c
<1>3. CASE r.op = "DeleteGroups"
  <2>1. PICK n : DeleteGroupsList(r, n)  BY <1>0, <1>3, DeleteGroupsCalls
  <2>2. /\ n \in Nat /\ Len(c) = n + 2 /\ c[n + 1] = ForgetAll(ListKey) /\ c[n + 2] = ForgetAll("group_session_list_")
        /\ \A p \in 1..n : \E x \in ToSet(r.uuids) \cap Groups : Copied(c, HideGroup(x), p)
    BY <2>1 DEF DeleteGroupsList, ListKey
  <2>3. c[n + 1].do = "Forget" /\ c[n + 2].do = "Forget" /\ Clears(c[n + 1], o)
    BY <1>0, <2>2, ClearsWhat DEF ForgetAll
  <2>4. d.do = "UpdateGroup"  BY <1>0, <1>3 DEF Fits, GroupCall
  <2> HIDE DEF c, d
  <2>5. h.pc \in 1..n
    <3>1. h.pc # n + 1 /\ h.pc # n + 2  BY <1>0, <2>3, <2>4
    <3> QED  BY <1>0, <2>2, <3>1
  <2>6. n + 1 \in 1..Len(c) /\ n + 1 >= h.pc + 1  BY <1>0, <2>2, <2>5
  <2>7. PICK x \in ToSet(r.uuids) \cap Groups : Copied(c, HideGroup(x), h.pc)  BY <2>2, <2>5
  <2>8. x = g
    <3> DEFINE t == HideGroup(x)
    <3>1. Len(t) = 7 /\ t[1].group = x /\ \A k \in 2..7 : t[k].do # "UpdateGroup"
      <4>1. t = << UpdateGroup(x, "deleted_at"),
                   Find("session", Users, x), EachFound("session", "hide"),
                   Find("contact", Users, x), EachFound("contact", "hide"),
                   Find("apply", Users, x), EachFound("apply", "hide") >>
        BY DEF HideGroup
      <4> HIDE DEF t
      <4> QED  BY <4>1 DEF UpdateGroup, Find, EachFound
    <3>2. Copied(c, t, h.pc)  BY <2>7
    <3> HIDE DEF t
    <3>3. PICK b \in Nat : h.pc - b \in 1..Len(t) /\ \A k \in 1..Len(t) : c[b + k] = t[k]
      BY <3>2, Zenon DEF Copied
    <3> DEFINE k == h.pc - b
    <3>7. b + k = h.pc /\ b \in Nat /\ k \in 1..Len(t)  BY <1>0, <3>3
    <3> HIDE DEF k
    <3>8. c[b + k] = t[k]  BY <3>3, <3>7
    <3>4. b + k = h.pc /\ k \in 1..7 /\ c[b + k] = t[k]  BY <3>1, <3>7, <3>8
    <3>5. d = t[k]  BY <1>0, <3>4
    <3>6. k = 1  BY <2>4, <3>1, <3>4, <3>5
    <3> QED  BY <1>0, <3>1, <3>5, <3>6
  <2>9. OfList(o) \in AboutOf[r]
    <3>1. g \in GroupsIn(r)  BY <2>8 DEF GroupsIn
    <3>2. OfList(o) \in OwnersList(r)  BY <3>1 DEF OwnersList
    <3>3. AboutOf[r] = About(r)  BY <1>0, RequestOK
    <3>4. About(r) = Roster(r) \cup OwnersList(r)  BY <1>3 DEF About, UserOps, Lists
    <3> QED  BY <3>2, <3>3, <3>4
  <2> QED  BY <1>3, <2>3, <2>6, <2>9 DEF Keepers, c
<1> QED
  <2>1. d.do = "InsertGroup" => r.op = "CreateGroup"  BY <1>0 DEF Fits, GroupCall
  <2> QED  BY <1>1, <1>2, <1>3, <2>1

\* A handler that creates or removes groups gives up at no call.
LEMMA KeeperGoesOn ==
  ASSUME Typed, NEW s \in Slots, Step(s), run[s].req.op \in Keepers, run[s].pc + 1 <= Len(CallsOf[run[s].req])
  PROVE  run'[s] # Idle /\ run'[s].req = run[s].req /\ run'[s].pc \in {run[s].pc, run[s].pc + 1}
<1> DEFINE h == run[s]
           d == CallOf(s)
<1>0. /\ h # Idle /\ h.req \in Requests /\ DOMAIN run = Slots /\ DOMAIN h = Fields /\ Fits(h.req, d)
      /\ h.pc \in Int /\ h.pc \in 1..Len(CallsOf[h.req]) /\ Len(CallsOf[h.req]) \in Nat
  BY StepLeaves, Here, EveryCallFits DEF BodyOK, AllFit
<1>1. d.do \in {"Insert", "Find", "EachFound", "InsertGroup", "UpdateGroup", "Forget"}
  <2>1. d.do \notin {"First", "FirstOr", "IfNone", "Save", "Update", "FindEither"}  BY <1>0 DEF Fits, RowCall, Keepers
  <2>2. d.do \notin {"FirstUser", "FindUser", "FindUsers", "IfNoTelephone", "InsertUser", "SaveUser"}
    BY <1>0 DEF Fits, UserCall, UserOps, Keepers
  <2>3. d.do \notin {"FirstGroup", "FindGroup", "Strike", "SaveGroup"}  BY <1>0 DEF Fits, GroupCall, Keepers
  <2>4. d.do \notin {"Get", "Query", "EachGroup", "EachUser", "SetEx"}  BY <1>0 DEF Fits, ListCall, Lists, Keepers
  <2> QED  BY <1>0, <2>1, <2>2, <2>3, <2>4 DEF Fits, Dos
<1>2. CASE d.do = "Insert"  BY <1>2, GoesAhead
<1>3. CASE d.do = "Find"
  <2>1. run'[s] # Idle  BY <1>3, FindGoesOn
  <2> QED  BY <1>3, <2>1, FieldsKept
<1>4. CASE d.do = "EachFound"
  <2>1. run'[s] # Idle  BY <1>4, EachGoesOn
  <2> QED  BY <1>4, <2>1, FieldsKept, EachTakes
<1>5. CASE d.do \in {"InsertGroup", "UpdateGroup", "Forget"}
  <2>1. Skip(s, h, 1)
    <3>1. CASE d.do = "InsertGroup"  BY <3>1, ActionOf DEF InsertGroupRow, GoOn
    <3>2. CASE d.do = "UpdateGroup"  BY <3>2, ActionOf DEF UpdateGroupRow, GoOn
    <3>3. CASE d.do = "Forget"  BY <3>3, ActionOf DEF DelKeys, GoOn
    <3> QED  BY <1>5, <3>1, <3>2, <3>3
  <2>2. h.pc + 1 \in Nat /\ h.pc + 1 >= 1  BY <1>0
  <2>3. run'[s] # Idle  BY <1>0, <2>1, <2>2, SkipAhead
  <2> QED  BY <1>5, <2>3, FieldsKept
<1> QED  BY <1>1, <1>2, <1>3, <1>4, <1>5

\* Who is to forget the list does so, or goes on to.
LEMMA ForgetsStep ==
  ASSUME Typed, NEW s \in Slots, Step(s), NEW o, run[s].req.op \in Keepers,
         NEW p \in 1..Len(CallsOf[run[s].req]), p >= run[s].pc + 1, Clears(CallsOf[run[s].req][p], o)
  PROVE  run'[s] # Idle /\ run'[s].req = run[s].req /\ Forgets(run'[s], o)
<1> DEFINE n == Len(CallsOf[run[s].req])
           m == run[s].pc
           k == run'[s].pc
<1>0. run[s] # Idle /\ run[s].req \in Requests /\ m \in Int /\ n \in Nat
  BY StepLeaves, Here, EveryCallFits DEF AllFit
<1>1. m + 1 <= n
  <2>1. p \in 1..n /\ p >= m + 1  OBVIOUS
  <2> HIDE DEF m, n
  <2> QED  BY <1>0, <2>1
<1>2. run'[s] # Idle /\ run'[s].req = run[s].req /\ k \in {m, m + 1}  BY <1>1, KeeperGoesOn
<1>3. p >= k
  <2>1. p \in 1..n /\ p >= m + 1  OBVIOUS
  <2> HIDE DEF m, n, k
  <2> QED  BY <1>0, <1>2, <2>1
<1> QED  BY <1>2, <1>3 DEF Forgets

Stored(o) == \A e \in cache : e.list = ListKey /\ e.of = o => e.ids = LoadMyGroup(o)

\* The list that a reader is about to store.
Loaded(h, o) == h.req.op = ListKey /\ h.pc = 3 => h.ids = LoadMyGroup(o)

ListOK(o) ==
  /\ Stored(o) \/ \E s \in Slots : On(s, OfList(o)) /\ Forgets(run[s], o)
  /\ \A s \in Slots : On(s, OfList(o)) => Loaded(run[s], o)

\* Nothing has disturbed the list or a group of the owner.
Clean(o) == OfList(o) \notin disturbed /\ \A g \in Groups : OwnerOf[g] = o => OfGroup(g) \notin disturbed

LEMMA SameOwned ==
  ASSUME NEW o, \A g \in Groups : OwnerOf[g] = o => (groups'[g].live <=> groups[g].live)
  PROVE  LoadMyGroup(o)' = LoadMyGroup(o)
BY DEF LoadMyGroup

LEMMA ReaderShape ==
  ASSUME NEW r \in Requests, r.op = ListKey
  PROVE  /\ Len(CallsOf[r]) = 3 /\ CallsOf[r][1].do = "Get"
         /\ CallsOf[r][2] = Query(ListKey, r.owner) /\ CallsOf[r][3] = SetEx(ListKey, r.owner)
<1> DEFINE a == Get(ListKey, r.owner)
           b == Query(ListKey, r.owner)
           c == SetEx(ListKey, r.owner)
<1>4. CallsOf[r] = << a, b, c >>  BY ListHandlerCalls DEF ListKey, Lists
<1>3. a.do = "Get"  BY DEF Get
<1> HIDE DEF a, b, c
<1>5. Len(CallsOf[r]) = 3 /\ CallsOf[r][1] = a /\ CallsOf[r][2] = b /\ CallsOf[r][3] = c  BY <1>4, ThreeCalls
<1> QED  BY <1>3, <1>5 DEF b, c

\* What the cache holds of a list, without a reader of it.
LEMMA EntriesShrink ==
  ASSUME Typed, NEW s \in Slots, Step(s), NEW o, ~(run[s].req.op = ListKey /\ run[s].req.owner = o),
         NEW e \in cache', e.list = ListKey, e.of = o
  PROVE  e \in cache
<1> DEFINE d == CallOf(s)
<1>0. run[s] # Idle /\ Fits(run[s].req, d)  BY StepLeaves, Here
<1>1. CASE d.do \notin {"SetEx", "Forget"}  BY <1>1, Leaves
<1>2. CASE d.do = "Forget"  BY <1>2, ActionOf DEF DelKeys
<1>3. CASE d.do = "SetEx"
  <2> DEFINE new == [list |-> d.list, of |-> d.of, ids |-> run[s].ids]
  <2>1. e \in cache \/ e = new  BY <1>3, ActionOf DEF SetKeyEx
  <2>2. d.list = run[s].req.op /\ d.of = run[s].req.owner  BY <1>0, <1>3 DEF Fits, ListCall
  <2>3. ASSUME e = new  PROVE FALSE
    <3>1. e.list = d.list /\ e.of = d.of  BY <2>3
    <3> QED  BY <2>2, <3>1
  <2> QED  BY <2>1, <2>3
<1> QED  BY <1>1, <1>2, <1>3

\* A step that changes which groups an owner has is one of a handler that has to do
\* with his list, and that goes on to forget it.
LEMMA OwnedChanges ==
  ASSUME Typed, NEW s \in Slots, Step(s), NEW g \in Groups, RosterOK(g), HeldOK(g),
         ~(groups'[g].live <=> groups[g].live)
  PROVE  /\ run[s].req.op \in Keepers /\ On(s, OfList(OwnerOf[g]))
         /\ \E p \in 1..Len(CallsOf[run[s].req]) : p >= run[s].pc + 1 /\ Clears(CallsOf[run[s].req][p], OwnerOf[g])
<1>0. run[s] # Idle  BY StepLeaves
<1>1. groups[g] \in GroupRow /\ groups'[g] \in GroupRow
  BY StepIsTyped DEF Typed, StepTyped, GroupsFrame
<1>2. groups[g].live \in BOOLEAN /\ groups'[g].live \in BOOLEAN  BY <1>1 DEF GroupRow
<1>3. CASE groups[g].live /\ ~groups'[g].live
  <2>1. CallOf(s).do = "UpdateGroup" /\ CallOf(s).group = g /\ run[s].req.op \in {"DismissGroup", "DeleteGroups"}
    BY <1>3, GroupGoes
  <2> QED  BY <1>0, <2>1, ClearsLater DEF On
<1>4. CASE ~groups[g].live /\ groups'[g].live
  <2>1. CallOf(s).do = "InsertGroup" /\ CallOf(s).group = g  BY <1>4, GroupComes
  <2> QED  BY <1>0, <2>1, ClearsLater DEF On
<1> QED  BY <1>2, <1>3, <1>4

Kept(o) == \A g \in Groups : OwnerOf[g] = o => RosterOK(g) /\ HeldOK(g)

\* A step of a handler that has nothing to do with the list.
LEMMA OthersList ==
  ASSUME Typed, NEW o, Kept(o), ListOK(o), NEW s \in Slots, Step(s), ~On(s, OfList(o))
  PROVE  ListOK(o)'
<1> DEFINE y == OfList(o)
<1>0. Moved(s) /\ run[s] # Idle /\ run[s].req \in Requests  BY StepIsTyped, StepLeaves, Here DEF StepTyped
<1>1. \A g \in Groups : OwnerOf[g] = o => (groups'[g].live <=> groups[g].live)
  BY OwnedChanges DEF Kept
<1>2. LoadMyGroup(o)' = LoadMyGroup(o)  BY <1>1, SameOwned
<1>3. \A q \in Slots : q # s => run'[q] = run[q]  BY <1>0 DEF Moved
<1>4. ~On(s, y)'  BY <1>0 DEF On, Moved
<1>5. ~(run[s].req.op = ListKey /\ run[s].req.owner = o)
  <2>1. ASSUME run[s].req.op = ListKey, run[s].req.owner = o  PROVE FALSE
    <3>1. AboutOf[run[s].req] = {OfList(run[s].req.owner)}  BY <1>0, <2>1, AboutCases DEF ListKey
    <3> QED  BY <1>0, <2>1, <3>1 DEF On
  <2> QED  BY <2>1
<1>6. Stored(o) => Stored(o)'
  <2> SUFFICES ASSUME Stored(o), NEW e \in cache', e.list = ListKey, e.of = o  PROVE e.ids = LoadMyGroup(o)'
    BY DEF Stored
  <2>1. e \in cache  BY <1>5, EntriesShrink
  <2>2. e.ids = LoadMyGroup(o)  BY <2>1 DEF Stored
  <2> QED  BY <1>2, <2>2
<1>7. ASSUME NEW q \in Slots, On(q, y), Forgets(run[q], o)  PROVE On(q, y)' /\ Forgets(run'[q], o)
  <2>1. run'[q] = run[q]  BY <1>3, <1>7
  <2> QED  BY <1>7, <2>1 DEF On
<1>8. ASSUME NEW q \in Slots, On(q, y)'  PROVE Loaded(run[q], o)'
  <2>1. q # s  BY <1>4, <1>8
  <2>2. run'[q] = run[q] /\ On(q, y)  BY <1>3, <1>8, <2>1 DEF On
  <2>3. Loaded(run[q], o)  BY <2>2 DEF ListOK
  <2> QED  BY <1>2, <2>2, <2>3 DEF Loaded
<1>9. Stored(o)' \/ \E q \in Slots : On(q, y)' /\ Forgets(run'[q], o)  BY <1>6, <1>7 DEF ListOK
<1> QED  BY <1>8, <1>9 DEF ListOK

\* A step of the handler that has to do with the list; there is no other one.
LEMMA KeeperList ==
  ASSUME Typed, NEW o, Kept(o), ListOK(o), NEW s \in Slots, Works(s, OfList(o)), run[s].req.op \in Keepers
  PROVE  ListOK(o)'
<1> DEFINE y == OfList(o)
           h == run[s]
           d == CallOf(s)
           c == CallsOf[h.req]
<1>0. /\ Step(s) /\ Moved(s) /\ On(s, y) /\ h # Idle /\ h.req \in Requests /\ d = c[h.pc] /\ h.pc \in 1..Len(c)
      /\ h.pc \in Int /\ Len(c) \in Nat /\ \A q \in Slots : q # s => ~On(q, y) /\ ~On(q, y)'
  BY StepLeaves, Here, EveryCallFits DEF Works, StepTyped, AllFit
<1>1. \A q \in Slots : On(q, y)' => Loaded(run[q], o)'
  <2>1. On(s, y)' => run'[s].req = h.req  BY <1>0 DEF On, Moved
  <2>2. h.req.op # ListKey  BY DEF Keepers, ListKey
  <2> QED  BY <1>0, <2>1, <2>2 DEF Loaded
<1>2. ASSUME NEW p \in 1..Len(c), p >= h.pc + 1, Clears(c[p], o)  PROVE ListOK(o)'
  <2>1. run'[s] # Idle /\ run'[s].req = h.req /\ Forgets(run'[s], o)  BY <1>0, <1>2, ForgetsStep
  <2>2. On(s, y)'  BY <1>0, <2>1 DEF On
  <2> QED  BY <1>1, <2>1, <2>2 DEF ListOK
<1>3. CASE Clears(d, o)
  <2>1. cache' = cache \ Entries(d)  BY <1>0, <1>3, ActionOf DEF DelKeys, Clears
  <2>2. \A e \in cache' : ~(e.list = ListKey /\ e.of = o)  BY <1>3, <2>1 DEF Entries, Clears
  <2>3. Stored(o)'  BY <2>2 DEF Stored
  <2> QED  BY <1>1, <2>3 DEF ListOK
<1>4. CASE ~Clears(d, o) /\ \A p \in 1..Len(c) : ~(p >= h.pc + 1 /\ Clears(c[p], o))
  <2>1. ~Forgets(h, o)
    <3>1. ASSUME NEW p \in 1..Len(c), p >= h.pc, Clears(c[p], o)  PROVE FALSE
      <4> DEFINE m == h.pc
      <4>0. p >= m /\ m \in Int /\ p \in Int  BY <1>0, <3>1
      <4>1. p # m  BY <1>0, <1>4, <3>1
      <4> HIDE DEF m
      <4>2. p >= m + 1  BY <4>0, <4>1
      <4> QED  BY <1>4, <3>1, <4>2 DEF m
    <3> QED  BY <3>1 DEF Forgets
  <2>2. Stored(o)  BY <1>0, <2>1 DEF ListOK
  <2>3. \A g \in Groups : OwnerOf[g] = o => (groups'[g].live <=> groups[g].live)
    BY <1>0, <1>4, OwnedChanges DEF Kept
  <2>4. LoadMyGroup(o)' = LoadMyGroup(o)  BY <2>3, SameOwned
  <2>5. h.req.op # ListKey  BY DEF Keepers, ListKey
  <2>6. Stored(o)'
    <3> SUFFICES ASSUME NEW e \in cache', e.list = ListKey, e.of = o  PROVE e.ids = LoadMyGroup(o)'
      BY DEF Stored
    <3>1. e \in cache  BY <1>0, <2>5, EntriesShrink
    <3>2. e.ids = LoadMyGroup(o)  BY <2>2, <3>1 DEF Stored
    <3> QED  BY <2>4, <3>2
  <2> QED  BY <1>1, <2>6 DEF ListOK
<1> QED  BY <1>2, <1>3, <1>4

\* A step of the reader of the list; no handler that changes the groups is at work.
LEMMA ReaderList ==
  ASSUME Typed, NEW o, ListOK(o), NEW s \in Slots, Works(s, OfList(o)), run[s].req.op = ListKey, run[s].req.owner = o
  PROVE  ListOK(o)'
<1> DEFINE y == OfList(o)
           h == run[s]
           d == CallOf(s)
           c == CallsOf[h.req]
<1>0. /\ Step(s) /\ Moved(s) /\ On(s, y) /\ h # Idle /\ h.req \in Requests /\ d = c[h.pc] /\ h.pc \in 1..Len(c)
      /\ h.pc \in Int /\ BodyOK(h) /\ DOMAIN run = Slots /\ \A q \in Slots : q # s => ~On(q, y) /\ ~On(q, y)'
  BY StepLeaves, Here DEF Works, StepTyped
<1>1. /\ Len(c) = 3 /\ c[1].do = "Get" /\ c[2] = Query(ListKey, o) /\ c[3] = SetEx(ListKey, o)
      /\ c[2].do = "Query" /\ c[3].do = "SetEx"
  BY <1>0, ReaderShape DEF Query, SetEx
<1>2. ~Forgets(h, o)  BY <1>1 DEF Forgets, Clears
<1>3. Stored(o) /\ Loaded(h, o)  BY <1>0, <1>2 DEF ListOK
<1>4. d.do \in {"Get", "Query", "SetEx"}  BY <1>0, <1>1
<1>5. groups' = groups  BY <1>0, <1>4, Leaves
<1>6. LoadMyGroup(o)' = LoadMyGroup(o)  BY <1>5, SameOwned
<1>7. run'[s] # Idle => run'[s].pc = h.pc + 1  BY <1>0, <1>4, FieldsKept
<1>8. CASE h.pc = 1
  <2>1. cache' = cache  BY <1>0, <1>1, <1>8, Leaves
  <2>2. Stored(o)'  BY <1>3, <1>6, <2>1 DEF Stored
  <2>3. run'[s] # Idle => run'[s].pc # 3  BY <1>7, <1>8
  <2> QED  BY <1>0, <2>2, <2>3 DEF ListOK, Loaded, On
<1>9. CASE h.pc = 2
  <2>0. d = Query(ListKey, o)  BY <1>0, <1>1, <1>9
  <2>1. cache' = cache  BY <1>0, <1>1, <1>9, Leaves
  <2>2. Stored(o)'  BY <1>3, <1>6, <2>1 DEF Stored
  <2> DEFINE set == LoadMyGroup(o)
             new == SetToSeq(set)
             x == [h EXCEPT !.ids = set, !.found = new]
  <2>3. GoOn(s, x)
    <3>1. d.list = ListKey /\ d.of = o /\ d.do = "Query"  BY <2>0 DEF Query
    <3>2. ListQuery(d.list, d.of) = set  BY <3>1 DEF ListQuery, ListKey
    <3>3. QueryList(s)  BY <1>0, <3>1, ActionOf
    <3> QED  BY <3>2, <3>3 DEF QueryList
  <2> HIDE DEF set, new
  <2>4. DOMAIN x = Fields /\ x.ids = set  BY <1>0 DEF BodyOK, Fields
  <2> HIDE DEF x
  <2>5. run'[s] # Idle => run'[s] = [x EXCEPT !.pc = @ + 1]  BY <1>0, <2>3 DEF GoOn, Skip, Return
  <2>6. run'[s] # Idle => run'[s].ids = set  BY <2>4, <2>5 DEF Fields
  <2>7. run'[s] # Idle => Loaded(run[s], o)'  BY <1>6, <2>6 DEF Loaded, set
  <2> QED  BY <1>0, <2>2, <2>7 DEF ListOK, On
<1>10. CASE h.pc = 3
  <2>0. d = SetEx(ListKey, o) /\ h.ids = LoadMyGroup(o)  BY <1>0, <1>1, <1>3, <1>10 DEF Loaded
  <2>1. d.list = ListKey /\ d.of = o /\ d.do = "SetEx"  BY <2>0 DEF SetEx
  <2>2. cache' = {e \in cache : e.list # d.list \/ e.of # d.of}
                    \cup {[list |-> d.list, of |-> d.of, ids |-> h.ids]}
    BY <1>0, <2>1, ActionOf DEF SetKeyEx
  <2>3. ASSUME NEW e \in cache', e.list = ListKey, e.of = o  PROVE e.ids = LoadMyGroup(o)'
    <3>1. e = [list |-> d.list, of |-> d.of, ids |-> h.ids]  BY <2>1, <2>2, <2>3
    <3>2. e.ids = h.ids  BY <3>1
    <3> QED  BY <1>6, <2>0, <3>2
  <2>4. Stored(o)'  BY <2>3 DEF Stored
  <2>5. run'[s] # Idle => run'[s].pc # 3  BY <1>7, <1>10
  <2> QED  BY <1>0, <2>4, <2>5 DEF ListOK, Loaded, On
<1> QED  BY <1>0, <1>1, <1>8, <1>9, <1>10

LEMMA StepList ==
  ASSUME Typed, Apart, NEW o, OfList(o) \notin disturbed, Kept(o), ListOK(o), NEW s \in Slots, Step(s)
  PROVE  ListOK(o)'
<1> DEFINE y == OfList(o)
<1>1. CASE ~On(s, y)  BY <1>1, OthersList
<1>2. CASE On(s, y)
  <2>0. run[s] # Idle /\ run[s].req \in Requests /\ y \in AboutOf[run[s].req] /\ StepTyped(s) /\ Moved(s)
    BY <1>2, StepIsTyped, Here DEF On, StepTyped
  <2>1. \A q \in Slots : q # s => ~On(q, y)  BY <1>2, <2>0 DEF Apart, On
  <2>2. \A q \in Slots : q # s => ~On(q, y)'  BY <2>0, <2>1 DEF Moved, On
  <2>3. Works(s, y)  BY <1>2, <2>0, <2>1, <2>2 DEF Works
  <2>4. run[s].req.op \in Keepers \/ (run[s].req.op = ListKey /\ run[s].req.owner = o)  BY <2>0, ListOps
  <2> QED  BY <2>3, <2>4, KeeperList, ReaderList
<1> QED  BY <1>1, <1>2

LEMMA ListStep ==
  ASSUME Typed, Apart, [Next]_vars, NEW o, OfList(o) \notin disturbed', Kept(o), ListOK(o)
  PROVE  ListOK(o)'
<1> DEFINE y == OfList(o)
<1>1. ASSUME groups' = groups, cache' \subseteq cache,
             \A q \in Slots : On(q, y) => run'[q] = run[q],
             \A q \in Slots : On(q, y)' => run'[q].pc = 1 \/ (On(q, y) /\ run'[q] = run[q])
      PROVE  ListOK(o)'
  <2>1. LoadMyGroup(o)' = LoadMyGroup(o)  BY <1>1, SameOwned
  <2>2. Stored(o) => Stored(o)'  BY <1>1, <2>1 DEF Stored
  <2>3. \A q \in Slots : On(q, y) => On(q, y)' /\ run'[q] = run[q]  BY <1>1 DEF On
  <2>4. Stored(o)' \/ \E q \in Slots : On(q, y)' /\ Forgets(run'[q], o)  BY <2>2, <2>3 DEF ListOK
  <2>5. ASSUME NEW q \in Slots, On(q, y)'  PROVE Loaded(run[q], o)'
    <3>1. CASE run'[q].pc = 1  BY <3>1 DEF Loaded
    <3>2. CASE On(q, y) /\ run'[q] = run[q]
      <4>1. Loaded(run[q], o)  BY <3>2 DEF ListOK
      <4> QED  BY <2>1, <3>2, <4>1 DEF Loaded
    <3> QED  BY <1>1, <2>5, <3>1, <3>2
  <2> QED  BY <2>4, <2>5 DEF ListOK
<1>2. ASSUME NEW s \in Slots, Submit(s)  PROVE ListOK(o)'
  <2>1. PICK r \in Requests : run' = [run EXCEPT ![s] = NewHandler(r)] /\ run[s] = Idle /\ groups' = groups /\ cache' = cache
    BY <1>2, Submits DEF tables
  <2>2. DOMAIN run = Slots  BY DEF Typed, Handlers
  <2>3. run'[s].pc = 1 /\ \A q \in Slots : q # s => run'[q] = run[q]  BY <2>1, <2>2 DEF NewHandler
  <2>4. \A q \in Slots : On(q, y) => run'[q] = run[q]  BY <2>1, <2>3 DEF On
  <2>5. \A q \in Slots : q # s => (On(q, y)' => On(q, y))  BY <2>3 DEF On
  <2> QED  BY <1>1, <2>1, <2>3, <2>4, <2>5
<1>3. ASSUME NEW s \in Slots, Fault(s)  PROVE ListOK(o)'
  <2>1. /\ groups' = groups /\ cache' = cache /\ run[s] # Idle /\ Moved(s)
        /\ disturbed' = disturbed \cup AboutOf[run[s].req]
    BY <1>3, FaultTyped DEF Fault, Running, StepTyped, tables
  <2>2. ~On(s, y) /\ ~On(s, y)'  BY <2>1 DEF On, Moved
  <2>3. \A q \in Slots : q # s => run'[q] = run[q]  BY <2>1 DEF Moved
  <2>4. \A q \in Slots : On(q, y) => run'[q] = run[q]  BY <2>2, <2>3
  <2>5. \A q \in Slots : On(q, y)' => On(q, y) /\ run'[q] = run[q]  BY <2>2, <2>3 DEF On
  <2> QED  BY <1>1, <2>1, <2>4, <2>5
<1>4. ASSUME NEW s \in Slots, Step(s)  PROVE ListOK(o)'
  <2>1. disturbed' = disturbed  BY <1>4, StepLeaves
  <2> QED  BY <1>4, <2>1, StepList
<1>5. ASSUME run' = run, groups' = groups, cache' \subseteq cache  PROVE ListOK(o)'
  <2>1. \A q \in Slots : On(q, y)' => On(q, y)  BY <1>5 DEF On
  <2> QED  BY <1>1, <1>5, <2>1
<1>6. ASSUME NEW e \in cache, Expire(e)  PROVE ListOK(o)'
  <2>1. run' = run /\ groups' = groups /\ cache' \subseteq cache  BY <1>6 DEF Expire, tables
  <2> QED  BY <1>5, <2>1
<1>7. CASE UNCHANGED vars
  <2>1. run' = run /\ groups' = groups /\ cache' = cache  BY <1>7 DEF vars
  <2> QED  BY <1>5, <2>1
<1> QED  BY <1>2, <1>3, <1>4, <1>6, <1>7 DEF Next

ListsOK == \A o \in Users : Clean(o) => ListOK(o)

LEMMA AlwaysLists == Spec => []ListsOK
<1>1. Init => ListsOK
  <2> SUFFICES ASSUME Init, NEW o \in Users  PROVE ListOK(o)
    BY DEF ListsOK
  <2>1. cache = {} /\ \A s \in Slots : \A y : ~On(s, y)  BY DEF Init, On
  <2> QED  BY <2>1 DEF ListOK, Stored
<1>2. Typed /\ Apart /\ RostersOK /\ HeldsOK /\ ListsOK /\ [Next]_vars => ListsOK'
  <2> SUFFICES ASSUME Typed, Apart, RostersOK, HeldsOK, ListsOK, [Next]_vars, NEW o \in Users, Clean(o)'
               PROVE  ListOK(o)'
    BY DEF ListsOK
  <2>1. disturbed \subseteq disturbed'  BY DisturbedGrows
  <2>2. OfList(o) \notin disturbed' /\ \A g \in Groups : OwnerOf[g] = o => OfGroup(g) \notin disturbed'  BY DEF Clean
  <2>3. Clean(o)  BY <2>1, <2>2 DEF Clean
  <2>4. ListOK(o)  BY <2>3 DEF ListsOK
  <2>5. Kept(o)  BY <2>3 DEF Clean, Kept, RostersOK, HeldsOK
  <2> QED  BY <2>2, <2>4, <2>5, ListStep
<1> QED  BY <1>1, <1>2, AlwaysApart, AlwaysRosters, AlwaysHeld, PTL DEF Spec

\* At all times the cached list of the groups of an owner, where there is one, is what
\* the table says, unless requests about the list or about one of the groups overlapped
\* or failed: CreateGroup, DismissGroup and DeleteGroups forget the list after they have
\* changed the table, no other handler changes which groups there are, and a reader that
\* has read the table stores what it read before anyone changes it.
THEOREM MyGroupsStayFresh == Spec => []MyGroupsFresh
<1>1. ASSUME Typed, ListsOK, NEW e \in cache, e.list = ListKey, Quiet(OfList(e.of)),
             \A g \in Groups : OwnerOf[g] = e.of => OfGroup(g) \notin disturbed
      PROVE  e.ids = LoadMyGroup(e.of)
  <2> DEFINE o == e.of
  <2>1. o \in Users
    <3>1. e \in Entry  BY <1>1 DEF Typed, CacheOK
    <3> QED  BY <3>1 DEF Entry
  <2>2. OfList(o) \notin disturbed /\ \A s \in Slots : ~On(s, OfList(o))  BY <1>1, QuietIs
  <2>3. ListOK(o)  BY <1>1, <2>1, <2>2 DEF ListsOK, Clean
  <2>4. Stored(o)  BY <2>2, <2>3 DEF ListOK
  <2> QED  BY <1>1, <2>4 DEF Stored
<1>2. Typed /\ ListsOK => MyGroupsFresh  BY <1>1 DEF MyGroupsFresh, ListKey
<1> QED  BY <1>2, AlwaysTyped, AlwaysLists, PTL
===============================================================================
