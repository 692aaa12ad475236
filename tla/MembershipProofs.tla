--------------------------- MODULE MembershipProofs ---------------------------
(***************************************************************************)
(* What Membership promises, proved: the groundwork, and the accounts.     *)
(*                                                                         *)
(* The count of a group agrees with its member list, whatever lists of     *)
(* calls the handlers make.  The rest depends on those lists: the module   *)
(* works out which calls a request makes and where (Fits, OutlineAt), what *)
(* a handler holds there (HeldIn), shows that the types hold, and that of  *)
(* what nothing has disturbed one handler at a time takes care (Apart).    *)
(* With that, each property is a matter of one handler and one topic: a    *)
(* step happens elsewhere, begins a handler, or is one of its own.  The    *)
(* telephones and the accounts come last; the rows of the other tables are *)
(* MembershipRowProofs.                                                    *)
(***************************************************************************)
EXTENDS Membership, SequenceTheorems, FiniteSetTheorems, WellFoundedInduction, TLAPS

\* The library's relation on the natural numbers is less-than.
LEMMA LessThanRelation ==
  \A x, y \in Nat : <<y, x>> \in OpToRel(<, Nat) <=> y < x
BY Zenon DEF OpToRel

\* A nonempty set of natural numbers has a least element.
LEMMA LeastExists ==
  ASSUME NEW I \in SUBSET Nat, I # {}
  PROVE  \E x \in I : \A y \in I : x =< y
<1>1. IsWellFoundedOn(OpToRel(<, Nat), Nat)  BY NatLessThanWellFounded
<1>2. \E x \in I : \A y \in I : ~ (<<y, x>> \in OpToRel(<, Nat))  BY <1>1, WFMin
<1>3. \E x \in I : \A y \in I : ~ (y < x)  BY <1>2, LessThanRelation, Zenon
<1> QED  BY <1>3

\* Taking one element out of a sequence makes it one shorter.
LEMMA RemoveAtLen ==
  ASSUME NEW S, NEW q \in Seq(S), NEW i \in 1..Len(q)
  PROVE  RemoveAt(q, i) \in Seq(S) /\ Len(RemoveAt(q, i)) = Len(q) - 1
<1>0. Len(q) \in Nat /\ i \in Int /\ 1 <= i /\ i <= Len(q)  BY LenProperties
<1>1. /\ SubSeq(q, 1, i - 1) \in Seq(S)
      /\ Len(SubSeq(q, 1, i - 1)) = i - 1
  BY <1>0, SubSeqProperties
<1>2. /\ SubSeq(q, i + 1, Len(q)) \in Seq(S)
      /\ Len(SubSeq(q, i + 1, Len(q))) = Len(q) - i
  BY <1>0, SubSeqProperties
<1> DEFINE front == SubSeq(q, 1, i - 1)
           back == SubSeq(q, i + 1, Len(q))
<1>3. RemoveAt(q, i) = front \o back  BY DEF RemoveAt
<1> HIDE DEF front, back
<1>4. front \in Seq(S) /\ back \in Seq(S)  BY <1>1, <1>2 DEF front, back
<1>5. front \o back \in Seq(S) /\ Len(front \o back) = Len(front) + Len(back)  BY <1>4, ConcatProperties
<1>6. Len(front) = i - 1 /\ Len(back) = Len(q) - i  BY <1>1, <1>2 DEF front, back
<1> QED  BY <1>0, <1>3, <1>5, <1>6

\* RemoveFirst takes one element out of a sequence that has it.
LEMMA RemoveFirstLen ==
  ASSUME NEW S, NEW q \in Seq(S), NEW e, Contains(q, e)
  PROVE  RemoveFirst(q, e) \in Seq(S) /\ Len(RemoveFirst(q, e)) = Len(q) - 1
<1> DEFINE I == {i \in 1..Len(q) : q[i] = e}
<1>0. Len(q) \in Nat  BY LenProperties
<1>1. I # {} /\ I \in SUBSET Nat  BY <1>0 DEF Contains
<1>2. \E x \in I : \A y \in I : x =< y  BY <1>1, LeastExists
<1>3. Min(I) \in I  BY <1>2 DEF Min
<1>4. SelectInSeq(q, LAMBDA v : v = e) = Min(I)  BY <1>1 DEF SelectInSeq
<1>5. RemoveFirst(q, e) = RemoveAt(q, Min(I))  BY <1>4 DEF RemoveFirst, Contains
<1>6. Min(I) \in 1..Len(q)  BY <1>3
<1> HIDE DEF I
<1> QED  BY <1>5, <1>6, RemoveAtLen
-----------------------------------------------------------------------------
\* A row of group_info whose member list is a list and whose count is its length.
Counted(x) ==
  /\ x = [live |-> x.live, members |-> x.members, cnt |-> x.cnt, status |-> x.status]
  /\ \E S : x.members \in Seq(S)
  /\ x.cnt = Len(x.members)

\* A handler carries a row with the id it was read under, counted unless somebody
\* left that group (one of the lost) who was not on its list exactly once.
Carries(h, lost) ==
  /\ {"uuid", "group"} \subseteq DOMAIN h
  /\ h.uuid \in Groups \ lost => Counted(h.group)

CountInv ==
  /\ DOMAIN run = Slots
  /\ DOMAIN groups = Groups
  /\ \A g \in Groups \ miscounted : Counted(groups[g])
  /\ \A s \in Slots : run[s] # Idle => Carries(run[s], miscounted)

LEMMA NoGroupCounted == Counted(NoGroup)
<1>1. <<>> \in Seq({}) /\ Len(<<>>) = 0  OBVIOUS
<1> QED  BY <1>1 DEF Counted, NoGroup

\* The variables of a handler that is going on: n calls further, or where it was.
LEMMA Goes ==
  ASSUME NEW s \in Slots, NEW h, NEW n, DOMAIN run = Slots,
         Skip(s, h, n) \/ Stay(s, h) \/ Return(s),
         {"uuid", "group"} \subseteq DOMAIN h
  PROVE  /\ DOMAIN run' = Slots
         /\ \A t \in Slots \ {s} : run'[t] = run[t]
         /\ run'[s] # Idle => /\ {"uuid", "group"} \subseteq DOMAIN run'[s]
                              /\ run'[s].uuid = h.uuid /\ run'[s].group = h.group
<1>1. CASE Return(s)  BY <1>1 DEF Return
<1>2. CASE Stay(s, h)  BY <1>2 DEF Stay
<1>3. CASE Skip(s, h, n)
  <2>1. CASE Return(s)  BY <2>1 DEF Return
  <2>2. CASE run' = [run EXCEPT ![s] = [h EXCEPT !.pc = @ + n]]  BY <2>2
  <2> QED  BY <1>3, <2>1, <2>2 DEF Skip
<1> QED  BY <1>1, <1>2, <1>3

\* The step of a handler that goes on with variables that carry a counted row.
LEMMA CarriesOn ==
  ASSUME CountInv, NEW s \in Slots, NEW h, NEW n,
         Skip(s, h, n) \/ Stay(s, h) \/ Return(s),
         Carries(h, miscounted'),
         miscounted \subseteq miscounted',
         DOMAIN groups' = Groups,
         \A g \in Groups \ miscounted' : Counted(groups'[g])
  PROVE  CountInv'
<1>1. {"uuid", "group"} \subseteq DOMAIN h  BY DEF Carries
<1>2. /\ DOMAIN run' = Slots
      /\ \A t \in Slots \ {s} : run'[t] = run[t]
      /\ run'[s] # Idle => /\ {"uuid", "group"} \subseteq DOMAIN run'[s]
                           /\ run'[s].uuid = h.uuid /\ run'[s].group = h.group
  BY <1>1, Goes DEF CountInv
<1>3. ASSUME NEW t \in Slots, run'[t] # Idle  PROVE  Carries(run'[t], miscounted')
  <2>1. CASE t = s  BY <2>1, <1>2, <1>3 DEF Carries
  <2>2. CASE t # s
    <3>1. run'[t] = run[t] /\ Carries(run[t], miscounted)  BY <2>2, <1>2, <1>3 DEF CountInv
    <3>2. Carries(run[t], miscounted')  BY <3>1 DEF Carries
    <3> QED  BY <3>1, <3>2
  <2> QED  BY <2>1, <2>2
<1> QED  BY <1>2, <1>3 DEF CountInv

\* The same for a step that leaves the row it carries, the table and the history alone.
LEMMA CarriesSame ==
  ASSUME CountInv, NEW s \in Slots, run[s] # Idle, NEW h, NEW n,
         Skip(s, h, n) \/ Stay(s, h) \/ Return(s),
         {"uuid", "group"} \subseteq DOMAIN h, h.uuid = run[s].uuid, h.group = run[s].group,
         UNCHANGED <<groups, miscounted>>
  PROVE  CountInv'
<1>1. Carries(run[s], miscounted)  BY DEF CountInv
<1>2. Carries(h, miscounted')  BY <1>1 DEF Carries
<1>3. DOMAIN groups' = Groups /\ \A g \in Groups \ miscounted' : Counted(groups'[g])  BY DEF CountInv
<1> QED  BY <1>2, <1>3, CarriesOn

\* The calls that have nothing to do with a row of group_info.
LEMMA OtherCalls ==
  ASSUME CountInv, NEW s \in Slots,
         \/ ReadRow(s) \/ FindSession(s) \/ InsertRow(s) \/ SaveRow(s) \/ UpdateRows(s)
         \/ FindRows(s) \/ EachRow(s)
         \/ ReadUser(s) \/ ReadUsers(s) \/ CheckTelephoneExist(s) \/ InsertUserRow(s) \/ SaveUserRow(s)
         \/ GetKey(s) \/ QueryList(s) \/ ReadEachGroup(s) \/ ReadEachUser(s) \/ SetKeyEx(s) \/ DelKeys(s)
         \/ Fault(s)
  PROVE  CountInv'
<1> DEFINE old == run[s]
<1>1. run[s] # Idle
  BY DEF ReadRow, FindSession, InsertRow, SaveRow, UpdateRows, FindRows, EachRow, ReadUser, ReadUsers,
         CheckTelephoneExist, InsertUserRow, SaveUserRow, GetKey, QueryList, ReadEachGroup, ReadEachUser,
         SetKeyEx, DelKeys, Fault, At, Running
<1>2. {"uuid", "group"} \subseteq DOMAIN run[s]  BY <1>1 DEF CountInv, Carries
<1>3. UNCHANGED <<groups, miscounted>>
  BY DEF ReadRow, FindSession, InsertRow, SaveRow, UpdateRows, FindRows, EachRow, ReadUser, ReadUsers,
         CheckTelephoneExist, InsertUserRow, SaveUserRow, GetKey, QueryList, ReadEachGroup, ReadEachUser,
         SetKeyEx, DelKeys, Fault, tables, history
<1>4. ASSUME NEW h, NEW n, {"uuid", "group"} \subseteq DOMAIN h, h.uuid = old.uuid, h.group = old.group,
             Skip(s, h, n) \/ Stay(s, h) \/ Return(s)
      PROVE  CountInv'
  BY <1>1, <1>3, <1>4, CarriesSame
<1>5. ASSUME NEW n, Skip(s, old, n) \/ Stay(s, old) \/ Return(s)
      PROVE  CountInv'
  BY <1>2, <1>4, <1>5
<1>6. ASSUME NEW x, NEW n, Skip(s, [old EXCEPT !.held = x], n) \/ Stay(s, [old EXCEPT !.held = x])
      PROVE  CountInv'
  <2> DEFINE h == [old EXCEPT !.held = x]
  <2>1. {"uuid", "group"} \subseteq DOMAIN h /\ h.uuid = old.uuid /\ h.group = old.group  BY <1>2
  <2> HIDE DEF h
  <2> QED  BY <2>1, <1>4, <1>6 DEF h
<1>7. ASSUME NEW x, NEW n, Skip(s, [old EXCEPT !.people = x], n)
      PROVE  CountInv'
  <2> DEFINE h == [old EXCEPT !.people = x]
  <2>1. {"uuid", "group"} \subseteq DOMAIN h /\ h.uuid = old.uuid /\ h.group = old.group  BY <1>2
  <2> HIDE DEF h
  <2> QED  BY <2>1, <1>4, <1>7 DEF h
<1>8. ASSUME NEW x, NEW y, NEW n,
             Skip(s, [old EXCEPT !.ids = x, !.found = y], n) \/ Stay(s, [old EXCEPT !.found = y, !.ids = x])
      PROVE  CountInv'
  <2>1. CASE Skip(s, [old EXCEPT !.ids = x, !.found = y], n)
    <3> DEFINE h == [old EXCEPT !.ids = x, !.found = y]
    <3>1. {"uuid", "group"} \subseteq DOMAIN h /\ h.uuid = old.uuid /\ h.group = old.group  BY <1>2
    <3> HIDE DEF h
    <3> QED  BY <2>1, <3>1, <1>4 DEF h
  <2>2. CASE Stay(s, [old EXCEPT !.found = y, !.ids = x])
    <3> DEFINE h == [old EXCEPT !.found = y, !.ids = x]
    <3>1. {"uuid", "group"} \subseteq DOMAIN h /\ h.uuid = old.uuid /\ h.group = old.group  BY <1>2
    <3> HIDE DEF h
    <3> QED  BY <2>2, <3>1, <1>4 DEF h
  <2> QED  BY <1>8, <2>1, <2>2
<1>9. ASSUME NEW y, Stay(s, [old EXCEPT !.found = y])
      PROVE  CountInv'
  <2> DEFINE h == [old EXCEPT !.found = y]
  <2>1. {"uuid", "group"} \subseteq DOMAIN h /\ h.uuid = old.uuid /\ h.group = old.group  BY <1>2
  <2> HIDE DEF h
  <2> QED  BY <2>1, <1>4, <1>9 DEF h
<1> HIDE DEF old
<1>10. CASE ReadRow(s)
  <2>1. (\E n : Skip(s, old, n) \/ Return(s)) \/ (\E x, n : Skip(s, [old EXCEPT !.held = x], n))
    BY <1>10 DEF ReadRow, GoOn, old
  <2> QED  BY <2>1, <1>5, <1>6
<1>11. CASE FindSession(s)  BY <1>11, <1>5 DEF FindSession, GoOn, old
<1>12. CASE InsertRow(s)
  <2>1. \E x : Skip(s, [old EXCEPT !.held = x], 1)  BY <1>12 DEF InsertRow, GoOn, old
  <2> QED  BY <2>1, <1>6
<1>13. CASE SaveRow(s)
  <2>1. \E x : Skip(s, [old EXCEPT !.held = x], 1)  BY <1>13 DEF SaveRow, GoOn, old
  <2> QED  BY <2>1, <1>6
<1>14. CASE UpdateRows(s)  BY <1>14, <1>5 DEF UpdateRows, GoOn, old
<1>15. CASE FindRows(s)
  <2>1. \E x : Skip(s, [old EXCEPT !.held = x], 1)  BY <1>15 DEF FindRows, GoOn, old
  <2> QED  BY <2>1, <1>6
<1>16. CASE EachRow(s)
  <2>1. Skip(s, old, 1) \/ \E x : Stay(s, [old EXCEPT !.held = x])  BY <1>16 DEF EachRow, GoOn, old
  <2> QED  BY <2>1, <1>5, <1>6
<1>17. CASE ReadUser(s)
  <2>1. Return(s) \/ \E x : Skip(s, [old EXCEPT !.people = x], 1)  BY <1>17 DEF ReadUser, GoOn, old
  <2> QED  BY <2>1, <1>5, <1>7
<1>18. CASE ReadUsers(s)
  <2>1. \E x : Skip(s, [old EXCEPT !.people = x], 1)  BY <1>18 DEF ReadUsers, GoOn, old
  <2> QED  BY <2>1, <1>7
<1>19. CASE CheckTelephoneExist(s)  BY <1>19, <1>5 DEF CheckTelephoneExist, GoOn, old
<1>20. CASE InsertUserRow(s)  BY <1>20, <1>5 DEF InsertUserRow, GoOn, old
<1>21. CASE SaveUserRow(s)
  <2>1. \E n : Skip(s, old, n)  BY <1>21 DEF SaveUserRow, GoOn, old
  <2> QED  BY <2>1, <1>5
<1>22. CASE GetKey(s)  BY <1>22, <1>5 DEF GetKey, GoOn, old
<1>23. CASE QueryList(s)
  <2>1. \E x, y : Skip(s, [old EXCEPT !.ids = x, !.found = y], 1)  BY <1>23 DEF QueryList, GoOn, old
  <2> QED  BY <2>1, <1>8
<1>24. CASE ReadEachGroup(s)
  <2>1. Skip(s, old, 1) \/ Return(s) \/ \E x, y : Stay(s, [old EXCEPT !.found = y, !.ids = x])
    BY <1>24 DEF ReadEachGroup, GoOn, old
  <2> QED  BY <2>1, <1>5, <1>8
<1>25. CASE ReadEachUser(s)
  <2>1. Skip(s, old, 1) \/ Return(s) \/ \E y : Stay(s, [old EXCEPT !.found = y])
    BY <1>25 DEF ReadEachUser, GoOn, old
  <2> QED  BY <2>1, <1>5, <1>9
<1>26. CASE SetKeyEx(s)  BY <1>26, <1>5 DEF SetKeyEx, GoOn, old
<1>27. CASE DelKeys(s)  BY <1>27, <1>5 DEF DelKeys, GoOn, old
<1>28. CASE Fault(s)  BY <1>28, <1>5 DEF Fault, GoOn, old
<1> QED
  BY <1>10, <1>11, <1>12, <1>13, <1>14, <1>15, <1>16, <1>17, <1>18, <1>19, <1>20, <1>21, <1>22, <1>23,
     <1>24, <1>25, <1>26, <1>27, <1>28

\* A handler starts with an empty row, read under no id.
LEMMA SubmitCounts ==
  ASSUME CountInv, NEW s \in Slots, Submit(s)
  PROVE  CountInv'
<1>1. PICK r : run' = [run EXCEPT ![s] = [req |-> r, pc |-> 1, held |-> <<>>, found |-> <<>>,
                                          people |-> <<>>, uuid |-> Idle, group |-> NoGroup, ids |-> {}]]
  BY DEF Submit
<1>2. UNCHANGED <<groups, miscounted>>  BY DEF Submit, tables
<1>3. Carries(run'[s], miscounted)
  <2> DEFINE h == [req |-> r, pc |-> 1, held |-> <<>>, found |-> <<>>,
                   people |-> <<>>, uuid |-> Idle, group |-> NoGroup, ids |-> {}]
  <2>1. {"uuid", "group"} \subseteq DOMAIN h /\ h.group = NoGroup  OBVIOUS
  <2>2. run'[s] = h  BY <1>1 DEF CountInv
  <2> HIDE DEF h
  <2> QED  BY <2>1, <2>2, NoGroupCounted DEF Carries
<1>4. ASSUME NEW t \in Slots, run'[t] # Idle  PROVE  Carries(run'[t], miscounted)
  <2>1. CASE t = s  BY <2>1, <1>3
  <2>2. CASE t # s
    <3>1. run'[t] = run[t]  BY <2>2, <1>1 DEF CountInv
    <3> QED  BY <3>1, <1>4 DEF CountInv
  <2> QED  BY <2>1, <2>2
<1>5. DOMAIN run' = Slots  BY <1>1 DEF CountInv
<1> QED  BY <1>2, <1>4, <1>5 DEF CountInv

\* A new group has its owner on the list.
LEMMA InsertGroupRowCounts ==
  ASSUME CountInv, NEW s \in Slots, InsertGroupRow(s)
  PROVE  CountInv'
<1> DEFINE g == CallOf(s).group
           new == [live |-> TRUE, members |-> <<OwnerOf[g]>>, cnt |-> 1, status |-> "NORMAL"]
<1>1. /\ run[s] # Idle /\ Skip(s, run[s], 1)
      /\ groups' = [groups EXCEPT ![g] = new]
      /\ miscounted' = miscounted
  BY DEF InsertGroupRow, GoOn, At, history
<1>2. Counted(new)
  <2>1. new.members \in Seq({OwnerOf[g]}) /\ Len(new.members) = 1 /\ new.cnt = 1  OBVIOUS
  <2>2. new = [live |-> new.live, members |-> new.members, cnt |-> new.cnt, status |-> new.status]  OBVIOUS
  <2> HIDE DEF new
  <2> QED  BY <2>1, <2>2 DEF Counted
<1> HIDE DEF g, new
<1>3. DOMAIN groups' = Groups  BY <1>1 DEF CountInv
<1>4. \A x \in Groups \ miscounted' : Counted(groups'[x])  BY <1>1, <1>2 DEF CountInv
<1>5. Carries(run[s], miscounted')  BY <1>1 DEF CountInv
<1> QED  BY <1>1, <1>3, <1>4, <1>5, CarriesOn

\* A handler reads the row it will write back together with its count.
LEMMA ReadGroupCounts ==
  ASSUME CountInv, NEW s \in Slots, ReadGroup(s)
  PROVE  CountInv'
<1> DEFINE c == CallOf(s)
           g == IF groups[c.group].live THEN groups[c.group] ELSE NoGroup
           h == [run[s] EXCEPT !.group = g, !.uuid = c.group]
<1>1. /\ run[s] # Idle
      /\ Skip(s, h, 1) \/ Return(s)
      /\ groups' = groups
      /\ miscounted' = miscounted
  BY DEF ReadGroup, GoOn, At, history, tables
<1>2. {"uuid", "group"} \subseteq DOMAIN run[s]  BY <1>1 DEF CountInv, Carries
<1>3. {"uuid", "group"} \subseteq DOMAIN h /\ h.uuid = c.group /\ h.group = g  BY <1>2
<1>4. c.group \in Groups \ miscounted => Counted(g)  BY NoGroupCounted DEF CountInv
<1> HIDE DEF c, g, h
<1>5. Carries(h, miscounted')  BY <1>1, <1>3, <1>4 DEF Carries
<1>6. DOMAIN groups' = Groups /\ \A x \in Groups \ miscounted' : Counted(groups'[x])  BY <1>1 DEF CountInv
<1> QED  BY <1>1, <1>5, <1>6, CarriesOn

\* A row that loses one element of its list and one of its count.
LEMMA StruckCounted ==
  ASSUME NEW g, Counted(g), NEW i \in DOMAIN g.members, NEW new,
         new = [g EXCEPT !.members = RemoveAt(g.members, i), !.cnt = @ - 1]
  PROVE  Counted(new)
<1>1. PICK S : g.members \in Seq(S)  BY DEF Counted
<1>2. i \in 1..Len(g.members)  BY <1>1
<1>3. /\ RemoveAt(g.members, i) \in Seq(S)
      /\ Len(RemoveAt(g.members, i)) = Len(g.members) - 1
  BY <1>1, <1>2, RemoveAtLen
<1>4. g.cnt = Len(g.members)  BY DEF Counted
<1>5. new = [live |-> g.live, members |-> RemoveAt(g.members, i), cnt |-> g.cnt - 1, status |-> g.status]
  BY DEF Counted
<1> QED  BY <1>3, <1>4, <1>5 DEF Counted

\* RemoveGroupMembers takes a name off the list it carries, or its group is one of the lost.
LEMMA StrikeMemberCounts ==
  ASSUME CountInv, NEW s \in Slots, StrikeMember(s)
  PROVE  CountInv'
<1> DEFINE g == run[s].group
           out == StrikeOut(g.members, CallOf(s).who)
           new == [g EXCEPT !.members = out.members, !.cnt = @ - 1]
           h == [run[s] EXCEPT !.group = new]
           struck == \E i \in DOMAIN g.members : out.members = RemoveAt(g.members, i)
<1>1. /\ run[s] # Idle
      /\ Skip(s, h, 1) \/ Return(s)
      /\ groups' = groups
      /\ miscounted' = IF struck THEN miscounted ELSE miscounted \cup {run[s].uuid}
  BY DEF StrikeMember, GoOn, At, tables
<1>2. {"uuid", "group"} \subseteq DOMAIN run[s] /\ Carries(run[s], miscounted)  BY <1>1 DEF CountInv, Carries
<1>3. {"uuid", "group"} \subseteq DOMAIN h /\ h.uuid = run[s].uuid /\ h.group = new  BY <1>2
<1>4. ASSUME run[s].uuid \in Groups \ miscounted'  PROVE  Counted(new)
  <2>1. struck /\ miscounted' = miscounted  BY <1>1, <1>4
  <2>2. PICK i \in DOMAIN g.members : out.members = RemoveAt(g.members, i)  BY <2>1
  <2>3. Counted(g)  BY <1>2, <1>4, <2>1 DEF Carries
  <2>4. new = [g EXCEPT !.members = RemoveAt(g.members, i), !.cnt = @ - 1]  BY <2>2
  <2> HIDE DEF g, out, new
  <2> QED  BY <2>2, <2>3, <2>4, StruckCounted
<1> HIDE DEF g, out, new, h, struck
<1>5. Carries(h, miscounted')  BY <1>3, <1>4 DEF Carries
<1>6. miscounted \subseteq miscounted'  BY <1>1
<1>7. DOMAIN groups' = Groups /\ \A x \in Groups \ miscounted' : Counted(groups'[x])
  BY <1>1, <1>6 DEF CountInv
<1> QED  BY <1>1, <1>5, <1>6, <1>7, CarriesOn

\* A row changed in one place of its list and by one in its count, or not at all.
LEMMA ChangedCounted ==
  ASSUME NEW g, Counted(g), NEW how, NEW u, how # "leave" \/ Contains(g.members, u)
  PROVE  Counted(Changed(g, how, u))
<1> DEFINE row(m, n) == [live |-> g.live, members |-> m, cnt |-> n, status |-> g.status]
<1>1. PICK S : g.members \in Seq(S)  BY DEF Counted
<1>2. g.cnt = Len(g.members) /\ Len(g.members) \in Nat  BY <1>1, LenProperties DEF Counted
<1>3. ASSUME NEW m, NEW T, m \in Seq(T)  PROVE  Counted(row(m, Len(m)))
  BY <1>3 DEF Counted
<1>4. ASSUME NEW m, NEW n, NEW new, new = [g EXCEPT !.members = m, !.cnt = n]  PROVE  new = row(m, n)
  BY <1>4 DEF Counted
<1>5. /\ Append(g.members, u) \in Seq(S \cup {u})
      /\ Len(Append(g.members, u)) = Len(g.members) + 1
  BY <1>1, AppendProperties
<1>6. CASE how = "enter"
  <2>1. Changed(g, how, u) = row(Append(g.members, u), g.cnt + 1)  BY <1>6, <1>4 DEF Changed
  <2> HIDE DEF row
  <2> QED  BY <2>1, <1>2, <1>3, <1>5
<1>7. CASE how = "pass"
  <2>1. Changed(g, how, u) = row(Append(g.members, u), Len(g.members) + 1)  BY <1>7, <1>4 DEF Changed
  <2> HIDE DEF row
  <2> QED  BY <2>1, <1>3, <1>5
<1>8. CASE how = "leave"
  <2>1. Changed(g, how, u) = row(RemoveFirst(g.members, u), g.cnt - 1)  BY <1>8, <1>4 DEF Changed
  <2>2. /\ RemoveFirst(g.members, u) \in Seq(S)
        /\ Len(RemoveFirst(g.members, u)) = Len(g.members) - 1
    BY <1>1, <1>8, RemoveFirstLen
  <2> HIDE DEF row
  <2> QED  BY <2>1, <2>2, <1>2, <1>3
<1>9. CASE how \notin {"enter", "pass", "leave"}
  <2>1. Changed(g, how, u) = g  BY <1>9 DEF Changed
  <2> QED  BY <2>1
<1> QED  BY <1>6, <1>7, <1>8, <1>9

\* The list and the count are written back from one reading.
LEMMA SaveGroupRowCounts ==
  ASSUME CountInv, NEW s \in Slots, SaveGroupRow(s)
  PROVE  CountInv'
<1> DEFINE c == CallOf(s)
           g == run[s].group
           new == Changed(g, c.how, c.who)
           lost == c.how = "leave" /\ ~Contains(g.members, c.who)
<1>1. run[s] # Idle /\ Carries(run[s], miscounted)  BY DEF SaveGroupRow, At, CountInv
<1>2. CASE Return(s) /\ UNCHANGED <<groups, miscounted>>
  <2>1. DOMAIN groups' = Groups /\ \A x \in Groups \ miscounted' : Counted(groups'[x])
    BY <1>2 DEF CountInv
  <2> QED  BY <1>1, <1>2, <2>1, CarriesOn
<1>3. CASE /\ groups' = [groups EXCEPT ![run[s].uuid] = new]
           /\ miscounted' = IF lost THEN miscounted \cup {run[s].uuid} ELSE miscounted
           /\ Skip(s, run[s], 1)
  <2>1. run[s].uuid \in Groups \ miscounted' => Counted(new)
    <3> SUFFICES ASSUME run[s].uuid \in Groups \ miscounted'  PROVE Counted(new)
      OBVIOUS
    <3>1. ~lost /\ miscounted' = miscounted  BY <1>3
    <3>2. Counted(g)  BY <1>1, <3>1 DEF Carries
    <3>3. c.how # "leave" \/ Contains(g.members, c.who)  BY <3>1
    <3> HIDE DEF c, g
    <3> QED  BY <3>2, <3>3, ChangedCounted
  <2> HIDE DEF c, g, new, lost
  <2>2. miscounted \subseteq miscounted'  BY <1>3
  <2>3. DOMAIN groups' = Groups  BY <1>3 DEF CountInv
  <2>4. ASSUME NEW x \in Groups \ miscounted'  PROVE  Counted(groups'[x])
    <3>1. CASE x = run[s].uuid  BY <3>1, <1>3, <2>1, <2>4 DEF CountInv
    <3>2. CASE x # run[s].uuid  BY <3>2, <1>3, <2>2, <2>4 DEF CountInv
    <3> QED  BY <3>1, <3>2
  <2>5. Carries(run[s], miscounted')  BY <1>1, <2>2 DEF Carries
  <2> QED  BY <1>3, <2>2, <2>3, <2>4, <2>5, CarriesOn
<1> QED  BY <1>2, <1>3 DEF SaveGroupRow, GoOn

\* Deleting a group and setting its status leave its list and its count alone.
LEMMA UpdateGroupRowCounts ==
  ASSUME CountInv, NEW s \in Slots, UpdateGroupRow(s)
  PROVE  CountInv'
<1> DEFINE c == CallOf(s)
<1>1. /\ run[s] # Idle
      /\ Carries(run[s], miscounted')
      /\ Skip(s, run[s], 1)
      /\ miscounted' = miscounted
  BY DEF UpdateGroupRow, GoOn, At, history, CountInv
<1>2. \/ groups' = groups
      \/ groups' = [groups EXCEPT ![c.group].live = FALSE]
      \/ groups' = [groups EXCEPT ![c.group].status = c.field]
  BY DEF UpdateGroupRow
<1> HIDE DEF c
<1>3. DOMAIN groups' = Groups  BY <1>2 DEF CountInv
<1>4. ASSUME NEW x \in Groups \ miscounted'  PROVE  Counted(groups'[x])
  <2>1. Counted(groups[x])  BY <1>1, <1>4 DEF CountInv
  <2>2. CASE groups'[x] = groups[x]  BY <2>1, <2>2
  <2>3. CASE groups'[x] = [groups[x] EXCEPT !.live = FALSE]  BY <2>1, <2>3 DEF Counted
  <2>4. CASE groups'[x] = [groups[x] EXCEPT !.status = c.field]  BY <2>1, <2>4 DEF Counted
  <2>5. \/ groups'[x] = groups[x]
        \/ groups'[x] = [groups[x] EXCEPT !.live = FALSE]
        \/ groups'[x] = [groups[x] EXCEPT !.status = c.field]
    BY <1>2 DEF CountInv
  <2> QED  BY <2>2, <2>3, <2>4, <2>5
<1> QED  BY <1>1, <1>3, <1>4, CarriesOn

LEMMA CountInit == Init => CountInv
<1> SUFFICES ASSUME Init PROVE CountInv
  OBVIOUS
<1>1. DOMAIN run = Slots /\ DOMAIN groups = Groups  BY DEF Init
<1>2. \A s \in Slots : run[s] = Idle  BY DEF Init
<1>3. \A g \in Groups : groups[g] = NoGroup  BY DEF Init
<1> QED  BY <1>1, <1>2, <1>3, NoGroupCounted DEF CountInv

LEMMA CountStep == CountInv /\ [Next]_vars => CountInv'
<1> SUFFICES ASSUME CountInv, [Next]_vars PROVE CountInv'
  OBVIOUS
<1>1. ASSUME NEW s \in Slots, Submit(s)  PROVE  CountInv'  BY <1>1, SubmitCounts
<1>2. ASSUME NEW s \in Slots, Step(s)  PROVE  CountInv'
  <2>1. CASE InsertGroupRow(s)  BY <2>1, InsertGroupRowCounts
  <2>2. CASE ReadGroup(s)  BY <2>2, ReadGroupCounts
  <2>3. CASE StrikeMember(s)  BY <2>3, StrikeMemberCounts
  <2>4. CASE SaveGroupRow(s)  BY <2>4, SaveGroupRowCounts
  <2>5. CASE UpdateGroupRow(s)  BY <2>5, UpdateGroupRowCounts
  <2> QED  BY <1>2, <2>1, <2>2, <2>3, <2>4, <2>5, OtherCalls DEF Step
<1>3. ASSUME NEW s \in Slots, Fault(s)  PROVE  CountInv'  BY <1>3, OtherCalls
<1>4. ASSUME NEW e \in cache, Expire(e)  PROVE  CountInv'
  <2>1. UNCHANGED <<run, groups, miscounted>>  BY <1>4 DEF Expire, tables, history
  <2> QED  BY <2>1 DEF CountInv
<1>5. CASE UNCHANGED vars
  <2>1. UNCHANGED <<run, groups, miscounted>>  BY <1>5 DEF vars
  <2> QED  BY <2>1 DEF CountInv
<1> QED  BY <1>1, <1>2, <1>3, <1>4, <1>5 DEF Next

\* The member count of a group is the length of its member list whatever
\* requests overlap and fail, and whatever calls the handlers consist of: the
\* two are read together, changed together and written back together.  Only
\* somebody leaving who is not on the list exactly once parts them.
THEOREM CountFollowsTheList == Spec => []CountMatchesList
<1>1. Init => CountInv  BY CountInit
<1>2. CountInv /\ [Next]_vars => CountInv'  BY CountStep
<1>3. CountInv => CountMatchesList  BY DEF CountInv, CountMatchesList, Counted
<1> QED  BY <1>1, <1>2, <1>3, PTL DEF Spec

\* A set of numbers that has 0 and the successor of each of its elements below n
\* has everything up to n.
LEMMA ClimbTo ==
  ASSUME NEW J, NEW n \in Nat, 0 \in J, \A i \in 1..n : i - 1 \in J => i \in J
  PROVE  0..n \subseteq J
<1> DEFINE I == {i \in 0..n : i \notin J}
<1> SUFFICES ASSUME I # {}  PROVE FALSE
  OBVIOUS
<1>1. I \in SUBSET Nat  OBVIOUS
<1>2. PICK x \in I : \A y \in I : x =< y  BY <1>1, LeastExists
<1>3. x \in 1..n /\ x - 1 \in 0..n /\ x - 1 \notin I  BY <1>2
<1> QED  BY <1>3

\* f goes from b through n steps of F, all in S.
Runs(f, S, b, F, n) ==
  f \in [0..n -> S] /\ f[0] = b /\ \A i \in 1..n : f[i] = F[i][f[i - 1]]

\* A recursive function on 0..n exists when each step stays in a set.
LEMMA RecursionExists ==
  ASSUME NEW S, NEW b \in S, NEW F \in [Nat -> [S -> S]], NEW n \in Nat
  PROVE  \E f : Runs(f, S, b, F, n)
<1> DEFINE Fits(f, m) == f[0] = b /\ \A i \in 1..m : f[i] = F[i][f[i - 1]]
           J == {m \in 0..n : \E f \in [0..m -> S] : Fits(f, m)}
<1>0. \A i \in Nat, x \in S : F[i][x] \in S
  OBVIOUS
<1>1. 0 \in J
  <2> DEFINE f == [i \in 0..0 |-> b]
  <2>1. f \in [0..0 -> S] /\ f[0] = b  OBVIOUS
  <2>2. 1..0 = {}  OBVIOUS
  <2> HIDE DEF f
  <2>3. Fits(f, 0)  BY <2>1, <2>2
  <2> QED  BY <2>1, <2>3
<1>2. ASSUME NEW m \in 1..n, m - 1 \in J  PROVE m \in J
  <2>1. PICK f \in [0..(m - 1) -> S] : Fits(f, m - 1)  BY <1>2
  <2> DEFINE g == [i \in 0..m |-> IF i = m THEN F[m][f[m - 1]] ELSE f[i]]
  <2>2. F[m][f[m - 1]] \in S
    <3>1. m - 1 \in 0..(m - 1)  OBVIOUS
    <3>2. f[m - 1] \in S  BY <3>1, <2>1
    <3> QED  BY <3>2, <1>0
  <2>3. g \in [0..m -> S]  BY <2>2
  <2>4. \A i \in 0..(m - 1) : g[i] = f[i]  OBVIOUS
  <2>5. g[m] = F[m][f[m - 1]]  OBVIOUS
  <2> HIDE DEF g
  <2>6. Fits(g, m)  
    <3>1. g[0] = b  BY <2>1, <2>4
    <3>2. ASSUME NEW i \in 1..m  PROVE g[i] = F[i][g[i - 1]]
      <4>1. CASE i = m
        <5>1. m - 1 \in 0..(m - 1)  OBVIOUS
        <5>2. g[m - 1] = f[m - 1]  BY <5>1, <2>4
        <5> QED  BY <4>1, <5>2, <2>5
      <4>2. CASE i # m  
        <5>1. i \in 1..(m - 1) /\ i - 1 \in 0..(m - 1) /\ i \in 0..(m - 1)  BY <4>2
        <5> QED  BY <5>1, <2>1, <2>4
      <4> QED  BY <4>1, <4>2
    <3> QED  BY <3>1, <3>2
  <2> QED  BY <2>3, <2>6
<1>3. 0..n \subseteq J  BY <1>1, <1>2, ClimbTo
<1>4. n \in J  BY <1>3
<1> QED  BY <1>4 DEF Runs
-----------------------------------------------------------------------------
(* What FlattenSeq returns. *)

\* Position p of q is in a copy of t.
Copied(q, t, p) ==
  \E b \in Nat : /\ p - b \in 1..Len(t)
                /\ b + Len(t) <= Len(q)
                /\ \A k \in 1..Len(t) : q[b + k] = t[k]

\* Every position of q is in a copy of one of the first m sequences of ss.
Tiled(q, ss, m) == \A p \in 1..Len(q) : \E j \in 1..m : Copied(q, ss[j], p)

LEMMA CopiedWhole ==
  ASSUME NEW S, NEW t \in Seq(S), NEW p \in 1..Len(t)
  PROVE  Copied(t, t, p)
<1>1. Len(t) \in Nat  BY LenProperties
<1>2. 0 \in Nat /\ p - 0 \in 1..Len(t) /\ 0 + Len(t) <= Len(t)  BY <1>1
<1>3. \A k \in 1..Len(t) : t[0 + k] = t[k]  BY <1>1
<1> QED  BY <1>2, <1>3, Zenon DEF Copied

LEMMA CopiedBefore ==
  ASSUME NEW S, NEW q \in Seq(S), NEW t \in Seq(S), NEW u \in Seq(S), NEW p \in 1..Len(q), Copied(q, t, p)
  PROVE  Copied(q \o u, t, p)
<1>1. PICK b \in Nat : /\ p - b \in 1..Len(t)
                      /\ b + Len(t) <= Len(q)
                      /\ \A k \in 1..Len(t) : q[b + k] = t[k]
  BY Zenon DEF Copied
<1>2. Len(q) \in Nat /\ Len(u) \in Nat /\ Len(t) \in Nat /\ Len(q \o u) = Len(q) + Len(u)
      /\ \A i \in 1..(Len(q) + Len(u)) : (q \o u)[i] = IF i <= Len(q) THEN q[i] ELSE u[i - Len(q)]
  BY LenProperties, ConcatProperties
<1>3. ASSUME NEW k \in 1..Len(t)  PROVE (q \o u)[b + k] = t[k]
  <2>1. b + k \in 1..(Len(q) + Len(u)) /\ b + k <= Len(q)  BY <1>1, <1>2
  <2>2. (q \o u)[b + k] = q[b + k]  BY <1>2, <2>1
  <2> QED  BY <1>1, <2>2
<1>4. b + Len(t) <= Len(q \o u)  BY <1>1, <1>2
<1> QED  BY <1>1, <1>3, <1>4, Zenon DEF Copied

LEMMA CopiedLast ==
  ASSUME NEW S, NEW q \in Seq(S), NEW t \in Seq(S), NEW p \in 1..Len(q \o t), p > Len(q)
  PROVE  Copied(q \o t, t, p)
<1>2. Len(q) \in Nat /\ Len(t) \in Nat /\ Len(q \o t) = Len(q) + Len(t)
      /\ \A i \in 1..(Len(q) + Len(t)) : (q \o t)[i] = IF i <= Len(q) THEN q[i] ELSE t[i - Len(q)]
  BY LenProperties, ConcatProperties
<1>3. ASSUME NEW k \in 1..Len(t)  PROVE (q \o t)[Len(q) + k] = t[k]
  <2>1. Len(q) + k \in 1..(Len(q) + Len(t)) /\ ~(Len(q) + k <= Len(q)) /\ (Len(q) + k) - Len(q) = k  BY <1>2
  <2> QED  BY <1>2, <2>1
<1>4. p - Len(q) \in 1..Len(t) /\ Len(q) + Len(t) <= Len(q \o t)  BY <1>2
<1> QED  BY <1>2, <1>3, <1>4, Zenon DEF Copied

LEMMA TiledByOne ==
  ASSUME NEW S, NEW n \in Nat, NEW ss \in [1..n -> Seq(S)], NEW m \in 1..n
  PROVE  Tiled(ss[m], ss, m)
<1>1. ss[m] \in Seq(S) /\ m \in 1..m  OBVIOUS
<1>2. \A p \in 1..Len(ss[m]) : Copied(ss[m], ss[m], p)  BY <1>1, CopiedWhole
<1> QED  BY <1>1, <1>2 DEF Tiled

LEMMA TiledByMore ==
  ASSUME NEW S, NEW n \in Nat, NEW ss \in [1..n -> Seq(S)], NEW m \in 2..n,
         NEW q \in Seq(S), Tiled(q, ss, m - 1)
  PROVE  Tiled(q \o ss[m], ss, m)
<1>1. ss[m] \in Seq(S) /\ m \in 1..m  OBVIOUS
<1>2. ASSUME NEW p \in 1..Len(q \o ss[m])  PROVE \E j \in 1..m : Copied(q \o ss[m], ss[j], p)
  <2>1. CASE p > Len(q)
    <3>1. Copied(q \o ss[m], ss[m], p)  BY <1>1, <2>1, CopiedLast
    <3> QED  BY <1>1, <3>1
  <2>2. CASE ~(p > Len(q))
    <3>1. Len(q) \in Nat /\ Len(q \o ss[m]) \in Nat  BY <1>1, LenProperties, ConcatProperties
    <3>2. p \in 1..Len(q)  BY <2>2, <3>1
    <3>3. PICK j \in 1..(m - 1) : Copied(q, ss[j], p)  BY <3>2 DEF Tiled
    <3>4. j \in 1..m /\ ss[j] \in Seq(S)  OBVIOUS
    <3>5. Copied(q \o ss[m], ss[j], p)  BY <1>1, <3>2, <3>3, <3>4, CopiedBefore
    <3> QED  BY <3>4, <3>5
  <2> QED  BY <2>1, <2>2
<1> QED  BY <1>2 DEF Tiled

LEMMA FlattenTiles ==
  ASSUME NEW S, NEW ss \in Seq(Seq(S))
  PROVE  /\ FlattenSeq(ss) \in Seq(S)
         /\ Tiled(FlattenSeq(ss), ss, Len(ss))
         /\ Len(ss) # 0 => Len(FlattenSeq(ss)) >= Len(ss[1])
<1> DEFINE n == Len(ss)
<1>0. n \in Nat /\ ss \in [1..n -> Seq(S)] /\ DOMAIN ss = 1..n  BY LenProperties
<1>1. CASE n = 0
  <2>1. ss = <<>>  BY <1>1, <1>0
  <2>2. FlattenSeq(ss) = <<>>  BY <2>1, <1>1 DEF FlattenSeq
  <2> QED  BY <2>2, <1>1 DEF Tiled
<1>2. CASE n # 0
  <2> DEFINE Right(f) == f = [i \in 1..n |-> IF i = 1 THEN ss[i] ELSE f[i - 1] \o ss[i]]
             flatten == CHOOSE f : Right(f)
  <2>1. FlattenSeq(ss) = flatten[n]  BY <1>2, Zenon DEF FlattenSeq
  <2>2. \E f : Right(f)
    <3> DEFINE T == Seq(S)
               F == [i \in Nat |-> [x \in T |-> IF i + 1 \in 1..n THEN x \o ss[i + 1] ELSE x]]
    <3>1. F \in [Nat -> [T -> T]]
      <4>1. ASSUME NEW i \in Nat, NEW x \in T
            PROVE  (IF i + 1 \in 1..n THEN x \o ss[i + 1] ELSE x) \in T
        <5>1. CASE i + 1 \in 1..n
          <6>1. ss[i + 1] \in Seq(S)  BY <5>1, <1>0
          <6> QED  BY <5>1, <6>1, ConcatProperties
        <5> QED  BY <5>1
      <4> QED  BY <4>1
    <3> DEFINE m == n - 1
    <3>2. ss[1] \in T /\ m \in Nat  BY <1>0, <1>2
    <3>3. \A i \in Nat, x \in T : F[i][x] = IF i + 1 \in 1..n THEN x \o ss[i + 1] ELSE x
      OBVIOUS
    <3> HIDE DEF F, T, m
    <3>4. PICK f : Runs(f, T, ss[1], F, m)  BY <3>1, <3>2, RecursionExists
    <3> DEFINE g == [i \in 1..n |-> f[i - 1]]
    <3>5. ASSUME NEW i \in 1..n  PROVE g[i] = IF i = 1 THEN ss[i] ELSE g[i - 1] \o ss[i]
      <4>1. CASE i = 1  BY <4>1, <3>4 DEF Runs
      <4>2. CASE i # 1
        <5>1. i - 1 \in 1..(n - 1) /\ i - 1 \in 1..n /\ (i - 1) + 1 = i /\ i - 2 \in 0..m /\ i - 1 \in 1..m /\ (i - 1) - 1 = i - 2
          BY <4>2, <1>0 DEF m
        <5>2. g[i] = f[i - 1] /\ g[i - 1] = f[i - 2]  BY <5>1
        <5>3. f[i - 1] = F[i - 1][f[i - 2]]  BY <5>1, <3>4 DEF Runs
        <5>4. f[i - 2] \in T  BY <5>1, <3>4 DEF Runs
        <5>5. F[i - 1][f[i - 2]] = f[i - 2] \o ss[i]
          <6>1. i - 1 \in Nat /\ (i - 1) + 1 \in 1..n  BY <5>1
          <6>2. F[i - 1][f[i - 2]] = f[i - 2] \o ss[(i - 1) + 1]  BY <6>1, <5>4, <3>3, Zenon
          <6> QED  BY <5>1, <6>2, Zenon
        <5> QED  BY <4>2, <5>2, <5>3, <5>5
      <4> QED  BY <4>1, <4>2
    <3>6. g = [i \in 1..n |-> IF i = 1 THEN ss[i] ELSE g[i - 1] \o ss[i]]
      <4> DEFINE e == [i \in 1..n |-> IF i = 1 THEN ss[i] ELSE g[i - 1] \o ss[i]]
      <4>1. DOMAIN g = 1..n /\ DOMAIN e = 1..n  OBVIOUS
      <4>2. \A i \in 1..n : g[i] = e[i]  BY <3>5
      <4> QED  BY <3>5, Zenon
    <3> QED  BY <3>6
  <2>3. Right(flatten)  BY <2>2
  <2> HIDE DEF flatten
  <2>4. \A i \in 1..n : flatten[i] = IF i = 1 THEN ss[i] ELSE flatten[i - 1] \o ss[i]  BY <2>3
  <2> HIDE DEF Right
  <2> DEFINE Good(q, m) == q \in Seq(S) /\ Tiled(q, ss, m) /\ Len(q) >= Len(ss[1])
             J == {0} \cup {m \in 1..n : Good(flatten[m], m)}
  <2>5. ASSUME NEW m \in 1..n, m - 1 \in J  PROVE m \in J
    <3>1. CASE m = 1
      <4>1. flatten[m] = ss[1] /\ ss[1] \in Seq(S)  BY <3>1, <2>4, <1>0
      <4>2. Tiled(ss[1], ss, 1)  BY <1>0, <3>1, TiledByOne
      <4>3. Len(ss[1]) \in Nat  BY <4>1, LenProperties
      <4> QED  BY <3>1, <4>1, <4>2, <4>3
    <3>2. CASE m # 1
      <4>1. m \in 2..n /\ m - 1 \in 1..n  BY <3>2
      <4>2. Good(flatten[m - 1], m - 1)  BY <4>1, <2>5
      <4>3. flatten[m] = flatten[m - 1] \o ss[m]  BY <3>2, <2>4
      <4>4. flatten[m - 1] \in Seq(S) /\ Tiled(flatten[m - 1], ss, m - 1)  BY <4>2
      <4>5. Tiled(flatten[m], ss, m)  BY <4>1, <4>3, <4>4, <1>0, TiledByMore
      <4>6. ss[m] \in Seq(S)  BY <1>0
      <4>7. flatten[m] \in Seq(S) /\ Len(flatten[m]) = Len(flatten[m - 1]) + Len(ss[m])  BY <4>3, <4>4, <4>6, ConcatProperties
      <4>8. Len(ss[m]) \in Nat /\ Len(flatten[m - 1]) \in Nat  BY <4>4, <4>6, LenProperties
      <4>9. ss[1] \in Seq(S) /\ Len(ss[1]) \in Nat  BY <1>0, LenProperties
      <4>10. Len(flatten[m]) >= Len(ss[1])
        <5>1. Len(flatten[m - 1]) >= Len(ss[1])  BY <4>2
        <5>2. \A a, b, c \in Nat : a >= b => a + c >= b  OBVIOUS
        <5> QED  BY <4>7, <4>8, <4>9, <5>1, <5>2, Zenon
      <4> QED  BY <4>5, <4>7, <4>10
    <3> QED  BY <3>1, <3>2
  <2>6. 0..n \subseteq J  BY <1>0, <2>5, ClimbTo
  <2>7. Good(flatten[n], n)  BY <1>0, <1>2, <2>6
  <2> QED  BY <2>1, <2>7
<1> QED  BY <1>1, <1>2

\* How many elements of ids are below i.
Rank(ids, i) == Cardinality({j \in ids : j < i})

LEMMA FiniteIds ==
  ASSUME NEW m \in Nat, NEW ids \in SUBSET (1..m)
  PROVE  IsFiniteSet(ids) /\ Cardinality(ids) \in Nat
<1>1. 1 \in Int /\ m \in Int  OBVIOUS
<1>2. IsFiniteSet(1..m)  BY <1>1, FS_Interval
<1>3. IsFiniteSet(ids)  BY <1>2, FS_Subset
<1> QED  BY <1>3, FS_CardinalityType

LEMMA RankGrows ==
  ASSUME NEW m \in Nat, NEW ids \in SUBSET (1..m), NEW i \in ids, NEW k \in ids, i < k
  PROVE  Rank(ids, i) \in Nat /\ Rank(ids, k) \in Nat /\ Rank(ids, i) < Rank(ids, k)
<1> DEFINE A == {j \in ids : j < i}  B == {j \in ids : j < k}
<1>1. IsFiniteSet(ids)  BY FiniteIds
<1>2. IsFiniteSet(A) /\ IsFiniteSet(B)  BY <1>1, FS_Subset
<1>3. Cardinality(A) \in Nat /\ Cardinality(B) \in Nat  BY <1>2, FS_CardinalityType
<1>4. A \in SUBSET B /\ i \in B /\ i \notin A
  <2>1. ASSUME NEW j \in A  PROVE j \in B
    <3>1. j \in Int /\ i \in Int /\ k \in Int /\ j < i  OBVIOUS
    <3> QED  BY <3>1
  <2>2. i \in B /\ i \in Int  OBVIOUS
  <2>3. i \notin A  BY <2>2
  <2> QED  BY <2>1, <2>2, <2>3
<1>5. Cardinality(A) <= Cardinality(B) /\ (Cardinality(B) = Cardinality(A) => B = A)
  BY <1>2, <1>4, FS_Subset
<1>6. Cardinality(A) # Cardinality(B)  BY <1>4, <1>5
<1> QED  BY <1>3, <1>5, <1>6 DEF Rank

LEMMA RankBounds ==
  ASSUME NEW m \in Nat, NEW ids \in SUBSET (1..m), NEW i \in ids
  PROVE  Cardinality(ids) \in Nat /\ Rank(ids, i) \in Nat /\ Rank(ids, i) + 1 \in 1..Cardinality(ids)
<1> DEFINE A == {j \in ids : j < i}
<1>1. IsFiniteSet(ids)  BY FiniteIds
<1>2. IsFiniteSet(A) /\ A \in SUBSET ids  BY <1>1, FS_Subset
<1>3. Cardinality(A) \in Nat /\ Cardinality(ids) \in Nat  BY <1>1, <1>2, FS_CardinalityType
<1>4. i \notin A
  <2>1. i \in Int  OBVIOUS
  <2> QED  BY <2>1
<1>5. Cardinality(A) <= Cardinality(ids) /\ (Cardinality(ids) = Cardinality(A) => ids = A)
  BY <1>1, <1>2, FS_Subset
<1>6. Cardinality(A) < Cardinality(ids)  BY <1>3, <1>4, <1>5
<1> QED  BY <1>3, <1>6 DEF Rank

LEMMA SameRank ==
  ASSUME NEW m \in Nat, NEW ids \in SUBSET (1..m), NEW i \in ids, NEW k \in ids, Rank(ids, i) = Rank(ids, k)
  PROVE  i = k
<1>1. i \in Int /\ k \in Int  OBVIOUS
<1>2. ASSUME i < k  PROVE FALSE
  <2>1. Rank(ids, i) \in Nat /\ Rank(ids, i) < Rank(ids, k)  BY <1>2, RankGrows
  <2> QED  BY <2>1
<1>3. ASSUME k < i  PROVE FALSE
  <2>1. Rank(ids, i) \in Nat /\ Rank(ids, k) < Rank(ids, i)  BY <1>3, RankGrows
  <2> QED  BY <2>1
<1> QED  BY <1>1, <1>2, <1>3

\* Every number up to the size of the set is one more than the rank of an element.
LEMMA RanksCover ==
  ASSUME NEW m \in Nat, NEW ids \in SUBSET (1..m), NEW n \in 1..Cardinality(ids)
  PROVE  \E i \in ids : Rank(ids, i) = n - 1
<1> DEFINE f == [i \in ids |-> Rank(ids, i) + 1]
           R == {Rank(ids, i) + 1 : i \in ids}
<1>1. IsFiniteSet(ids)  BY FiniteIds
<1>2. Cardinality(ids) \in Nat  BY <1>1, FS_CardinalityType
<1>3. R \in SUBSET (1..Cardinality(ids))  BY RankBounds
<1>4. f \in Bijection(ids, R)
  <2>1. f \in [ids -> R]  OBVIOUS
  <2>2. \A i, k \in ids : f[i] = f[k] => i = k
    <3> TAKE i, k \in ids
    <3>1. Rank(ids, i) \in Nat /\ Rank(ids, k) \in Nat  BY RankBounds
    <3>2. f[i] = f[k] => Rank(ids, i) = Rank(ids, k)  BY <3>1
    <3> QED  BY <3>2, SameRank
  <2>3. \A y \in R : \E i \in ids : f[i] = y  OBVIOUS
  <2> HIDE DEF f, R
  <2> QED  BY <2>1, <2>2, <2>3 DEF Bijection, Injection, Surjection, IsInjective
<1>5. ExistsBijection(ids, R)  BY <1>4 DEF ExistsBijection
<1>6. Cardinality(R) = Cardinality(ids)  BY <1>1, <1>5, FS_Bijection
<1>7. IsFiniteSet(1..Cardinality(ids)) /\ Cardinality(1..Cardinality(ids)) = Cardinality(ids)
  BY <1>2, FS_Interval
<1>8. R = 1..Cardinality(ids)  BY <1>3, <1>6, <1>7, FS_Subset
<1>9. n \in R  BY <1>8
<1>10. PICK i \in ids : n = Rank(ids, i) + 1  BY <1>9
<1>11. Rank(ids, i) \in Nat  BY RankBounds
<1> QED  BY <1>10, <1>11

\* The n-th id for n up to the size of the set is an id, and each id is the n-th for some n.
LEMMA NthProperties ==
  ASSUME NEW m \in Nat, NEW ids \in SUBSET (1..m)
  PROVE  /\ Cardinality(ids) \in Nat
         /\ \A n \in 1..Cardinality(ids) : Nth(ids, n) \in ids /\ Rank(ids, Nth(ids, n)) = n - 1
         /\ \A i \in ids : \E n \in 1..Cardinality(ids) : Nth(ids, n) = i
<1>1. Cardinality(ids) \in Nat  BY FiniteIds
<1>2. ASSUME NEW n \in 1..Cardinality(ids)
      PROVE  Nth(ids, n) \in ids /\ Rank(ids, Nth(ids, n)) = n - 1
  <2>1. \E i \in ids : Rank(ids, i) = n - 1  BY RanksCover
  <2> QED  BY <2>1 DEF Nth, Rank
<1>3. ASSUME NEW i \in ids  PROVE \E n \in 1..Cardinality(ids) : Nth(ids, n) = i
  <2>1. Rank(ids, i) \in Nat /\ Rank(ids, i) + 1 \in 1..Cardinality(ids)  BY RankBounds
  <2>2. PICK n : n = Rank(ids, i) + 1  OBVIOUS
  <2>3. Nth(ids, n) \in ids /\ Rank(ids, Nth(ids, n)) = n - 1  BY <1>2, <2>1, <2>2
  <2>4. Rank(ids, Nth(ids, n)) = Rank(ids, i)  BY <2>1, <2>2, <2>3
  <2>5. Nth(ids, n) = i  BY <2>3, <2>4, SameRank
  <2> QED  BY <2>1, <2>2, <2>5
<1> QED  BY <1>1, <1>2, <1>3

LEMMA RequestOK ==
  ASSUME NEW r \in Requests
  PROVE  WellFormed(r) /\ r \in Request /\ CallsOf[r] = Calls(r) /\ AboutOf[r] = About(r)
<1>1. PICK i \in DOMAIN Scripts : r \in UNION ToSet(Scripts[i])  BY DEF Requests
<1>2. PICK p \in DOMAIN Scripts[i] : r \in Scripts[i][p]  BY <1>1 DEF ToSet
<1>3. WellFormed(r)  BY <1>1, <1>2, ScriptAssumption
<1> QED  BY <1>3 DEF WellFormed, CallsOf, AboutOf

-----------------------------------------------------------------------------
(* What a request is about, at least. *)

\* The topic of a row of the table t from u to x.
Topic(t, u, x) == IF t = "session" THEN OfTalk(u, x) ELSE Between(u, x)
\* A request is about a row, a group, an account.
RowTopic(r, t, u, x) == t \in Tables /\ u \in Users /\ x \in Ids /\ Topic(t, u, x) \in AboutOf[r]
GroupTopic(r, g)     == g \in Groups /\ OfGroup(g) \in AboutOf[r] /\ \A u \in Users : OfTalk(u, g) \in AboutOf[r]
AccountTopic(r, u)   == /\ u \in Users /\ OfTel(TelOf[u]) \in AboutOf[r]
                        /\ \A x \in Ids : OfTalk(u, x) \in AboutOf[r] /\ OfTalk(x, u) \in AboutOf[r]

RosterOps ==
  {"CreateGroup", "LeaveGroup", "DismissGroup", "DeleteGroups", "EnterGroupDirectly", "SetGroupsStatus",
   "UpdateGroupInfo", "RemoveGroupMembers", "ApplyContact", "PassContactApply", "RefuseContactApply",
   "BlackApply", "BlackContact", "CancelBlackContact", "DeleteContact"}
PairOps == RosterOps \ {"CreateGroup", "DismissGroup", "DeleteGroups"}

LEMMA AboutCases ==
  ASSUME NEW r \in Requests
  PROVE  /\ r.op \in {"OpenSession", "DeleteSession"} => AboutOf[r] = {OfTalk(r.owner, r.contact)}
         /\ r.op = "Register" => AboutOf[r] = {OfTel(TelOf[r.owner])}
         /\ r.op = "DeleteUsers" => AboutOf[r] = Account(r) \cup Talks(r) \cup Ties(r)
         /\ r.op \in UserOps \ {"DeleteUsers"} => AboutOf[r] = Account(r) \cup Talks(r)
         /\ r.op = "contact_mygroup_list_" => AboutOf[r] = {OfList(r.owner)}
         /\ r.op \in RosterOps \ PairOps => AboutOf[r] = Roster(r) \cup OwnersList(r)
         /\ r.op \in PairOps => AboutOf[r] = Pair(r) \cup Roster(r)
<1>1. AboutOf[r] = About(r)  BY RequestOK
<1>2. r.op \in {"OpenSession", "DeleteSession"} => AboutOf[r] = {OfTalk(r.owner, r.contact)}
  BY <1>1 DEF About, UserOps, Lists
<1>3. r.op = "Register" => AboutOf[r] = {OfTel(TelOf[r.owner])}
  BY <1>1 DEF About, UserOps, Lists
<1>4. r.op = "DeleteUsers" => AboutOf[r] = Account(r) \cup Talks(r) \cup Ties(r)
  BY <1>1 DEF About, UserOps, Lists
<1>5. r.op \in UserOps \ {"DeleteUsers"} => AboutOf[r] = Account(r) \cup Talks(r)
  BY <1>1 DEF About, UserOps, Lists
<1>6. r.op = "contact_mygroup_list_" => AboutOf[r] = {OfList(r.owner)}
  BY <1>1 DEF About, UserOps, Lists
<1>7. r.op \in RosterOps \ PairOps => AboutOf[r] = Roster(r) \cup OwnersList(r)
  BY <1>1 DEF About, UserOps, RosterOps, PairOps, Lists
<1>8. r.op \in PairOps => AboutOf[r] = Pair(r) \cup Roster(r)
  BY <1>1 DEF About, UserOps, RosterOps, PairOps, Lists
<1> QED  BY <1>2, <1>3, <1>4, <1>5, <1>6, <1>7, <1>8, Zenon

LEMMA AboutRoster ==
  ASSUME NEW r \in Requests, r.op \in RosterOps, NEW g \in Groups,
         g = r.owner \/ g = r.contact \/ g \in ToSet(r.uuids)
  PROVE  GroupTopic(r, g)
<1>1. g \in GroupsIn(r)  BY DEF GroupsIn
<1>2. OfGroup(g) \in Roster(r) /\ \A u \in Users : OfTalk(u, g) \in Roster(r)  BY <1>1 DEF Roster
<1>3. Roster(r) \subseteq AboutOf[r]  BY AboutCases
<1> QED  BY <1>2, <1>3 DEF GroupTopic

LEMMA AboutLists ==
  ASSUME NEW r \in Requests, r.op \in RosterOps \ PairOps, NEW g \in Groups,
         g = r.owner \/ g = r.contact \/ g \in ToSet(r.uuids)
  PROVE  OfList(OwnerOf[g]) \in AboutOf[r]
<1>1. g \in GroupsIn(r)  BY DEF GroupsIn
<1>2. OfList(OwnerOf[g]) \in OwnersList(r)  BY <1>1 DEF OwnersList
<1> QED  BY <1>2, AboutCases

LEMMA AboutPair ==
  ASSUME NEW r \in Requests, r.op \in PairOps, r.owner \in Users, r.contact \in Users
  PROVE  {OfPair(r.owner, r.contact), OfTalk(r.owner, r.contact), OfTalk(r.contact, r.owner)} \subseteq AboutOf[r]
<1>1. {OfPair(r.owner, r.contact), OfTalk(r.owner, r.contact), OfTalk(r.contact, r.owner)} = Pair(r)  BY DEF Pair
<1> QED  BY <1>1, AboutCases

LEMMA AboutTalk ==
  ASSUME NEW r \in Requests, r.op \in {"OpenSession", "DeleteSession"}
  PROVE  OfTalk(r.owner, r.contact) \in AboutOf[r]
<1>1. AboutOf[r] = {OfTalk(r.owner, r.contact)}  BY AboutCases
<1> QED  BY <1>1

LEMMA AboutOneself ==
  ASSUME NEW r \in Requests
  PROVE  /\ r.op = "Register" => OfTel(TelOf[r.owner]) \in AboutOf[r]
         /\ r.op = "contact_mygroup_list_" => OfList(r.owner) \in AboutOf[r]
<1>1. /\ r.op = "Register" => AboutOf[r] = {OfTel(TelOf[r.owner])}
      /\ r.op = "contact_mygroup_list_" => AboutOf[r] = {OfList(r.owner)}
  BY AboutCases
<1> QED  BY <1>1

LEMMA AboutAccount ==
  ASSUME NEW r \in Requests, r.op \in UserOps, NEW u \in Users, u \in Subjects(r)
  PROVE  AccountTopic(r, u)
<1>1. OfTel(TelOf[u]) \in Account(r)  BY DEF Account
<1>2. ASSUME NEW x \in Ids  PROVE OfTalk(u, x) \in Talks(r) /\ OfTalk(x, u) \in Talks(r)
  <2>1. {OfTalk(u, x), OfTalk(x, u)} \in {{OfTalk(v, y), OfTalk(y, v)} : v \in Subjects(r), y \in Ids}  OBVIOUS
  <2> DEFINE all == {{OfTalk(v, y), OfTalk(y, v)} : v \in Subjects(r), y \in Ids}
  <2>2. Talks(r) = UNION all  BY DEF Talks
  <2> HIDE DEF all
  <2>3. {OfTalk(u, x), OfTalk(x, u)} \in all  BY <2>1 DEF all
  <2> QED  BY <2>2, <2>3
<1>3. Account(r) \cup Talks(r) \subseteq AboutOf[r]  BY AboutCases
<1> QED  BY <1>1, <1>2, <1>3 DEF AccountTopic

\* Deleting an account is about all that it has a part in.
LEMMA AboutDeletion ==
  ASSUME NEW r \in Requests, r.op = "DeleteUsers", NEW u \in Users, u \in Subjects(r)
  PROVE  /\ \A v \in Users : OfPair(u, v) \in AboutOf[r]
         /\ \A g \in Groups : OfGroup(g) \in AboutOf[r]
<1>1. (\A v \in Users : OfPair(u, v) \in Ties(r)) /\ (\A g \in Groups : OfGroup(g) \in Ties(r))  BY DEF Ties
<1>2. Ties(r) \subseteq AboutOf[r]  BY AboutCases
<1> QED  BY <1>1, <1>2
-----------------------------------------------------------------------------
LEMMA CreateGroupCalls ==
  ASSUME NEW r \in Requests, r.op = "CreateGroup"
  PROVE  CallsOf[r] = CreateGroup(r.owner, r.contact) /\ r.contact \in Groups /\ r.owner = OwnerOf[r.contact]
         /\ r.owner \in Users
BY RequestOK, MembershipAssumption DEF Calls, WellFormed, Lists

LEMMA PassCalls ==
  ASSUME NEW r \in Requests, r.op = "PassContactApply"
  PROVE  CallsOf[r] = PassContactApply(r.owner, r.contact) /\ r.contact \in Users /\ r.owner \in Ids
BY RequestOK DEF Calls, WellFormed, Lists, Request
LEMMA ListCalls ==
  ASSUME NEW r \in Requests, r.op \in Lists
  PROVE  CallsOf[r] = LoadList(r.op, r.owner) /\ r.owner \in Users /\ r.op # "my_joined_group_list_ "
BY RequestOK DEF Calls, WellFormed, Lists, Request

LEMMA JoinIs ==
  ASSUME NEW S, NEW x \in Seq(S), NEW y \in Seq(S), NEW z \in Seq(S),
         Len(z) = Len(x) + Len(y),
         \A k \in 1..Len(x) : z[k] = x[k],
         \A k \in 1..Len(y) : z[Len(x) + k] = y[k]
  PROVE  x \o y = z
<1>1. Len(x) \in Nat /\ Len(y) \in Nat  BY LenProperties
<1>2. /\ x \o y \in Seq(S) /\ Len(x \o y) = Len(x) + Len(y)
      /\ \A k \in 1..(Len(x) + Len(y)) : (x \o y)[k] = IF k <= Len(x) THEN x[k] ELSE y[k - Len(x)]
  BY ConcatProperties
<1>3. ASSUME NEW k \in 1..Len(z)  PROVE (x \o y)[k] = z[k]
  <2>1. CASE k <= Len(x)  BY <1>1, <1>2, <2>1
  <2>2. CASE ~(k <= Len(x))
    <3>1. k - Len(x) \in 1..Len(y) /\ Len(x) + (k - Len(x)) = k  BY <1>1, <2>2
    <3>2. z[Len(x) + (k - Len(x))] = y[k - Len(x)]  BY <3>1
    <3> QED  BY <1>1, <1>2, <2>2, <3>1, <3>2
  <2> QED  BY <2>1, <2>2
<1>4. Len(x \o y) = Len(z)  BY <1>2
<1> QED  BY <1>2, <1>3, <1>4, SeqEqual

LEMMA Join12 ==
  ASSUME NEW a, NEW b, NEW c
  PROVE  <<a>> \o <<b, c>> = <<a, b, c>>
<1> DEFINE S == {a, b, c}
           x == <<a>>
           y == <<b, c>>
           z == <<a, b, c>>
<1>1. x \in Seq(S) /\ y \in Seq(S) /\ z \in Seq(S)  OBVIOUS
<1>2. Len(x) = 1 /\ Len(y) = 2 /\ Len(z) = 3  OBVIOUS
<1>3. \A k \in 1..1 : z[k] = x[k]  OBVIOUS
<1>4. \A k \in 1..2 : z[1 + k] = y[k]  OBVIOUS
<1> HIDE DEF S, x, y, z
<1>5. \A k \in 1..Len(x) : z[k] = x[k]  BY <1>2, <1>3
<1>6. \A k \in 1..Len(y) : z[Len(x) + k] = y[k]  BY <1>2, <1>4
<1>7. Len(z) = Len(x) + Len(y)  BY <1>2
<1>8. x \o y = z  BY <1>1, <1>5, <1>6, <1>7, JoinIs
<1> QED  BY <1>8 DEF x, y, z

LEMMA Join21 ==
  ASSUME NEW a, NEW b, NEW c
  PROVE  <<a, b>> \o <<c>> = <<a, b, c>>
<1> DEFINE S == {a, b, c}
           x == <<a, b>>
           y == <<c>>
           z == <<a, b, c>>
<1>1. x \in Seq(S) /\ y \in Seq(S) /\ z \in Seq(S)  OBVIOUS
<1>2. Len(x) = 2 /\ Len(y) = 1 /\ Len(z) = 3  OBVIOUS
<1>3. \A k \in 1..2 : z[k] = x[k]  OBVIOUS
<1>4. \A k \in 1..1 : z[2 + k] = y[k]  OBVIOUS
<1> HIDE DEF S, x, y, z
<1>5. \A k \in 1..Len(x) : z[k] = x[k]  BY <1>2, <1>3
<1>6. \A k \in 1..Len(y) : z[Len(x) + k] = y[k]  BY <1>2, <1>4
<1>7. Len(z) = Len(x) + Len(y)  BY <1>2
<1>8. x \o y = z  BY <1>1, <1>5, <1>6, <1>7, JoinIs
<1> QED  BY <1>8 DEF x, y, z

LEMMA Join31 ==
  ASSUME NEW a, NEW b, NEW c, NEW d
  PROVE  <<a, b, c>> \o <<d>> = <<a, b, c, d>>
<1> DEFINE S == {a, b, c, d}
           x == <<a, b, c>>
           y == <<d>>
           z == <<a, b, c, d>>
<1>1. x \in Seq(S) /\ y \in Seq(S) /\ z \in Seq(S)  OBVIOUS
<1>2. Len(x) = 3 /\ Len(y) = 1 /\ Len(z) = 4  OBVIOUS
<1>3. \A k \in 1..3 : z[k] = x[k]  OBVIOUS
<1>4. \A k \in 1..1 : z[3 + k] = y[k]  OBVIOUS
<1> HIDE DEF S, x, y, z
<1>5. \A k \in 1..Len(x) : z[k] = x[k]  BY <1>2, <1>3
<1>6. \A k \in 1..Len(y) : z[Len(x) + k] = y[k]  BY <1>2, <1>4
<1>7. Len(z) = Len(x) + Len(y)  BY <1>2
<1>8. x \o y = z  BY <1>1, <1>5, <1>6, <1>7, JoinIs
<1> QED  BY <1>8 DEF x, y, z

LEMMA Join15 ==
  ASSUME NEW a, NEW b, NEW c, NEW d, NEW e, NEW f
  PROVE  <<a>> \o <<b, c, d, e, f>> = <<a, b, c, d, e, f>>
<1> DEFINE S == {a, b, c, d, e, f}
           x == <<a>>
           y == <<b, c, d, e, f>>
           z == <<a, b, c, d, e, f>>
<1>1. x \in Seq(S) /\ y \in Seq(S) /\ z \in Seq(S)  OBVIOUS
<1>2. Len(x) = 1 /\ Len(y) = 5 /\ Len(z) = 6  OBVIOUS
<1>3. \A k \in 1..1 : z[k] = x[k]  OBVIOUS
<1>4. \A k \in 1..5 : z[1 + k] = y[k]  OBVIOUS
<1> HIDE DEF S, x, y, z
<1>5. \A k \in 1..Len(x) : z[k] = x[k]  BY <1>2, <1>3
<1>6. \A k \in 1..Len(y) : z[Len(x) + k] = y[k]  BY <1>2, <1>4
<1>7. Len(z) = Len(x) + Len(y)  BY <1>2
<1>8. x \o y = z  BY <1>1, <1>5, <1>6, <1>7, JoinIs
<1> QED  BY <1>8 DEF x, y, z

LEMMA Join16 ==
  ASSUME NEW a, NEW b, NEW c, NEW d, NEW e, NEW f, NEW g
  PROVE  <<a>> \o <<b, c, d, e, f, g>> = <<a, b, c, d, e, f, g>>
<1> DEFINE S == {a, b, c, d, e, f, g}
           x == <<a>>
           y == <<b, c, d, e, f, g>>
           z == <<a, b, c, d, e, f, g>>
<1>1. x \in Seq(S) /\ y \in Seq(S) /\ z \in Seq(S)  OBVIOUS
<1>2. Len(x) = 1 /\ Len(y) = 6 /\ Len(z) = 7  OBVIOUS
<1>3. \A k \in 1..1 : z[k] = x[k]  OBVIOUS
<1>4. \A k \in 1..6 : z[1 + k] = y[k]  OBVIOUS
<1> HIDE DEF S, x, y, z
<1>5. \A k \in 1..Len(x) : z[k] = x[k]  BY <1>2, <1>3
<1>6. \A k \in 1..Len(y) : z[Len(x) + k] = y[k]  BY <1>2, <1>4
<1>7. Len(z) = Len(x) + Len(y)  BY <1>2
<1>8. x \o y = z  BY <1>1, <1>5, <1>6, <1>7, JoinIs
<1> QED  BY <1>8 DEF x, y, z

LEMMA Join24 ==
  ASSUME NEW a, NEW b, NEW c, NEW d, NEW e, NEW f
  PROVE  <<a, b>> \o <<c, d, e, f>> = <<a, b, c, d, e, f>>
<1> DEFINE S == {a, b, c, d, e, f}
           x == <<a, b>>
           y == <<c, d, e, f>>
           z == <<a, b, c, d, e, f>>
<1>1. x \in Seq(S) /\ y \in Seq(S) /\ z \in Seq(S)  OBVIOUS
<1>2. Len(x) = 2 /\ Len(y) = 4 /\ Len(z) = 6  OBVIOUS
<1>3. \A k \in 1..2 : z[k] = x[k]  OBVIOUS
<1>4. \A k \in 1..4 : z[2 + k] = y[k]  OBVIOUS
<1> HIDE DEF S, x, y, z
<1>5. \A k \in 1..Len(x) : z[k] = x[k]  BY <1>2, <1>3
<1>6. \A k \in 1..Len(y) : z[Len(x) + k] = y[k]  BY <1>2, <1>4
<1>7. Len(z) = Len(x) + Len(y)  BY <1>2
<1>8. x \o y = z  BY <1>1, <1>5, <1>6, <1>7, JoinIs
<1> QED  BY <1>8 DEF x, y, z

LEMMA Join73 ==
  ASSUME NEW a, NEW b, NEW c, NEW d, NEW e, NEW f, NEW g, NEW h, NEW i, NEW j
  PROVE  <<a, b, c, d, e, f, g>> \o <<h, i, j>> = <<a, b, c, d, e, f, g, h, i, j>>
<1> DEFINE S == {a, b, c, d, e, f, g, h, i, j}
           x == <<a, b, c, d, e, f, g>>
           y == <<h, i, j>>
           z == <<a, b, c, d, e, f, g, h, i, j>>
<1>1. x \in Seq(S) /\ y \in Seq(S) /\ z \in Seq(S)  OBVIOUS
<1>2. Len(x) = 7 /\ Len(y) = 3 /\ Len(z) = 10  OBVIOUS
<1>3. \A k \in 1..7 : z[k] = x[k]  OBVIOUS
<1>4. \A k \in 1..3 : z[7 + k] = y[k]  OBVIOUS
<1> HIDE DEF S, x, y, z
<1>5. \A k \in 1..Len(x) : z[k] = x[k]  BY <1>2, <1>3
<1>6. \A k \in 1..Len(y) : z[Len(x) + k] = y[k]  BY <1>2, <1>4
<1>7. Len(z) = Len(x) + Len(y)  BY <1>2
<1>8. x \o y = z  BY <1>1, <1>5, <1>6, <1>7, JoinIs
<1> QED  BY <1>8 DEF x, y, z
-----------------------------------------------------------------------------
LEMMA CopiedAfter ==
  ASSUME NEW S, NEW q \in Seq(S), NEW t \in Seq(S), NEW u \in Seq(S), NEW p \in 1..Len(q), Copied(q, t, p)
  PROVE  Copied(u \o q, t, Len(u) + p)
<1>1. PICK b \in Nat : /\ p - b \in 1..Len(t)
                      /\ b + Len(t) <= Len(q)
                      /\ \A k \in 1..Len(t) : q[b + k] = t[k]
  BY Zenon DEF Copied
<1>2. /\ Len(q) \in Nat /\ Len(u) \in Nat /\ Len(t) \in Nat /\ Len(u \o q) = Len(u) + Len(q)
      /\ \A i \in 1..(Len(u) + Len(q)) : (u \o q)[i] = IF i <= Len(u) THEN u[i] ELSE q[i - Len(u)]
  BY LenProperties, ConcatProperties
<1>3. ASSUME NEW k \in 1..Len(t)  PROVE (u \o q)[(Len(u) + b) + k] = t[k]
  <2>1. /\ (Len(u) + b) + k \in 1..(Len(u) + Len(q)) /\ ~((Len(u) + b) + k <= Len(u))
        /\ ((Len(u) + b) + k) - Len(u) = b + k
    BY <1>1, <1>2
  <2>2. (u \o q)[(Len(u) + b) + k] = q[b + k]  BY <1>2, <2>1
  <2> QED  BY <1>1, <2>2
<1>4. /\ (Len(u) + p) - (Len(u) + b) \in 1..Len(t) /\ (Len(u) + b) + Len(t) <= Len(u \o q)
      /\ Len(u) + b \in Nat
  BY <1>1, <1>2
<1> QED  BY <1>3, <1>4, Zenon DEF Copied

\* After its first call, c is made of copies of the sequences of ss.
InBlocks(c, ss) == \A p \in 2..Len(c) : \E j \in 1..Len(ss) : Copied(c, ss[j], p)

\* A call, then blocks of calls.
LEMMA CallThenBlocks ==
  ASSUME NEW S, NEW h \in S, NEW ss \in Seq(Seq(S)), NEW c, c = <<h>> \o FlattenSeq(ss)
  PROVE  /\ c \in Seq(S) /\ Len(c) = 1 + Len(FlattenSeq(ss)) /\ Len(c) \in Nat /\ Len(c) >= 1 /\ c[1] = h
         /\ InBlocks(c, ss)
<1> DEFINE q == FlattenSeq(ss)
           u == <<h>>
<1>1. q \in Seq(S) /\ Tiled(q, ss, Len(ss))  BY FlattenTiles
<1>2. u \in Seq(S) /\ Len(u) = 1 /\ u[1] = h  OBVIOUS
<1>3. c = u \o q  OBVIOUS
<1> HIDE DEF q, u
<1>4. /\ c \in Seq(S) /\ Len(c) = 1 + Len(q) /\ Len(q) \in Nat
      /\ \A i \in 1..(Len(u) + Len(q)) : c[i] = IF i <= Len(u) THEN u[i] ELSE q[i - Len(u)]
  <2>1. /\ u \o q \in Seq(S) /\ Len(u \o q) = Len(u) + Len(q)
        /\ \A i \in 1..(Len(u) + Len(q)) : (u \o q)[i] = IF i <= Len(u) THEN u[i] ELSE q[i - Len(u)]
    BY <1>1, <1>2, ConcatProperties
  <2>2. Len(q) \in Nat  BY <1>1, LenProperties
  <2> QED  BY <1>2, <1>3, <2>1, <2>2
<1>5. c[1] = h
  <2>1. 1 \in 1..(Len(u) + Len(q)) /\ 1 <= Len(u)  BY <1>2, <1>4
  <2> QED  BY <1>2, <1>4, <2>1
<1>6. ASSUME NEW p \in 2..Len(c)  PROVE \E j \in 1..Len(ss) : Copied(c, ss[j], p)
  <2>1. p - 1 \in 1..Len(q) /\ Len(u) + (p - 1) = p  BY <1>2, <1>4
  <2>2. PICK j \in 1..Len(ss) : Copied(q, ss[j], p - 1)  BY <1>1, <2>1 DEF Tiled
  <2>3. ss[j] \in Seq(S)  BY ElementOfSeq
  <2>4. Copied(u \o q, ss[j], Len(u) + (p - 1))  BY <1>1, <1>2, <2>1, <2>2, <2>3, CopiedAfter
  <2>5. Copied(c, ss[j], p)  BY <1>3, <2>1, <2>4
  <2> QED  BY <2>5
<1>7. Len(c) \in Nat /\ Len(c) >= 1  BY <1>4
<1> QED  BY <1>4, <1>5, <1>6, <1>7 DEF q, InBlocks

\* c is q and then t, and what is copied in q, is copied in c.
Continues(c, q, t, S) ==
  /\ c \in Seq(S) /\ Len(c) = Len(q) + Len(t) /\ Len(q) \in Nat /\ Len(t) \in Nat
  /\ \A p \in 1..Len(q) : c[p] = q[p]
  /\ \A p \in 1..Len(t) : c[Len(q) + p] = t[p]
  /\ \A p \in 1..Len(q) : \A d \in Seq(S) : Copied(q, d, p) => Copied(c, d, p)

\* Blocks of calls, then other calls.
LEMMA BlocksThenCalls ==
  ASSUME NEW S, NEW t \in Seq(S), NEW q \in Seq(S), NEW c, c = q \o t
  PROVE  Continues(c, q, t, S)
<1>1. /\ c \in Seq(S) /\ Len(c) = Len(q) + Len(t) /\ Len(q) \in Nat /\ Len(t) \in Nat
      /\ \A i \in 1..(Len(q) + Len(t)) : c[i] = IF i <= Len(q) THEN q[i] ELSE t[i - Len(q)]
  BY ConcatProperties, LenProperties
<1>2. ASSUME NEW p \in 1..Len(q)  PROVE c[p] = q[p]
  <2>1. p \in 1..(Len(q) + Len(t)) /\ p <= Len(q)  BY <1>1
  <2> QED  BY <1>1, <2>1
<1>3. ASSUME NEW p \in 1..Len(t)  PROVE c[Len(q) + p] = t[p]
  <2>1. Len(q) + p \in 1..(Len(q) + Len(t)) /\ ~(Len(q) + p <= Len(q)) /\ (Len(q) + p) - Len(q) = p  BY <1>1
  <2> QED  BY <1>1, <2>1
<1>4. ASSUME NEW p \in 1..Len(q), NEW d \in Seq(S), Copied(q, d, p)  PROVE Copied(c, d, p)
  BY <1>4, CopiedBefore
<1> QED  BY <1>1, <1>2, <1>3, <1>4 DEF Continues

LEMMA IsSeq ==
  ASSUME NEW S, NEW n \in Nat, NEW t \in [1..n -> S]
  PROVE  t \in Seq(S)
OBVIOUS

LEMMA SeqMore ==
  ASSUME NEW T, NEW S, T \subseteq S, NEW t \in Seq(T)
  PROVE  t \in Seq(S)
OBVIOUS

\* A function with the domain D, to sequences.
FunctionOn(ss, D) == DOMAIN ss = D /\ ss = [i \in D |-> ss[i]] /\ \A i \in D : \E T : ss[i] \in Seq(T)

\* Sequences of anything are sequences over one set.
LEMMA OneAlphabet ==
  ASSUME NEW n \in Nat, NEW ss, FunctionOn(ss, 1..n),
         NEW X, NEW x \in Seq(X)
  PROVE  \E S : ss \in Seq(Seq(S)) /\ Len(ss) = n /\ x \in Seq(S)
<1> DEFINE S == X \cup UNION {{ss[i][k] : k \in 1..Len(ss[i])} : i \in 1..n}
<1>1. x \in Seq(S)  BY SeqMore
<1>2. ASSUME NEW i \in 1..n  PROVE ss[i] \in Seq(S)
  <2>1. PICK T : ss[i] \in Seq(T)  BY DEF FunctionOn
  <2>2. Len(ss[i]) \in Nat /\ ss[i] \in [1..Len(ss[i]) -> T]  BY <2>1, LenProperties
  <2>3. \A k \in 1..Len(ss[i]) : ss[i][k] \in S
    <3> TAKE k \in 1..Len(ss[i])
    <3>1. ss[i][k] \in {ss[i][m] : m \in 1..Len(ss[i])}  OBVIOUS
    <3> DEFINE R(j) == {ss[j][m] : m \in 1..Len(ss[j])}
    <3>2. ss[i][k] \in R(i)  BY <3>1
    <3> HIDE DEF R
    <3>3. R(i) \in {R(j) : j \in 1..n}  OBVIOUS
    <3>4. ss[i][k] \in UNION {R(j) : j \in 1..n}  BY <3>2, <3>3
    <3> QED  BY <3>4 DEF R
  <2> HIDE DEF S
  <2>4. ss[i] \in [1..Len(ss[i]) -> S]  BY <2>2, <2>3
  <2> QED  BY <2>2, <2>4, IsSeq
<1> HIDE DEF S
<1>3. ss \in Seq(Seq(S)) /\ Len(ss) = n
  <2>1. ss \in [1..n -> Seq(S)] /\ DOMAIN ss = 1..n  BY <1>2 DEF FunctionOn
  <2> QED  BY <2>1
<1> QED  BY <1>1, <1>3
-----------------------------------------------------------------------------
\* What a request on users does to one of them.
UserBlock(op, u) ==
  CASE op = "AbleUsers"    -> << SaveUser(u, "able", 0) >>
    [] op = "SetAdmin"     -> << SaveUser(u, "same", 0) >>
    [] op = "DisableUsers" -> << SaveUser(u, "disable", 2), FindEither("session", u),
                                 EachFound("session", "hide") >>
    [] op = "DeleteUsers"  -> << SaveUser(u, "delete", 6),
                                 FindEither("session", u), EachFound("session", "hide"),
                                 FindEither("contact", u), EachFound("contact", "hide"),
                                 FindEither("apply", u), EachFound("apply", "hide") >>

LEMMA UserBlockSeq ==
  ASSUME NEW op \in UserOps \ {"UpdateUserInfo"}, NEW u
  PROVE  \E T : UserBlock(op, u) \in Seq(T)
<1>1. CASE op = "AbleUsers"
  <2>1. PICK a : UserBlock(op, u) = << a >>  BY <1>1 DEF UserBlock
  <2>2. << a >> \in Seq({a})  OBVIOUS
  <2> QED  BY <2>1, <2>2
<1>2. CASE op = "SetAdmin"
  <2>1. PICK a : UserBlock(op, u) = << a >>  BY <1>2 DEF UserBlock
  <2>2. << a >> \in Seq({a})  OBVIOUS
  <2> QED  BY <2>1, <2>2
<1>3. CASE op = "DisableUsers"
  <2>1. PICK a, b, c : UserBlock(op, u) = << a, b, c >>  BY <1>3 DEF UserBlock
  <2>2. << a, b, c >> \in Seq({a, b, c})  OBVIOUS
  <2> QED  BY <2>1, <2>2
<1>4. CASE op = "DeleteUsers"
  <2>1. PICK a, b, c, d, e, f, g : UserBlock(op, u) = << a, b, c, d, e, f, g >>  BY <1>4 DEF UserBlock
  <2>2. << a, b, c, d, e, f, g >> \in Seq({a, b, c, d, e, f, g})  OBVIOUS
  <2> QED  BY <2>1, <2>2
<1> QED  BY <1>1, <1>2, <1>3, <1>4 DEF UserOps

\* What ForEachUser does to one user.
LEMMA UserBlockIs ==
  ASSUME NEW u \in Users
  PROVE  /\ << SaveUser(u, "able", Len([v \in Users |-> <<>>][u])) >> \o [v \in Users |-> <<>>][u]
              = UserBlock("AbleUsers", u)
         /\ << SaveUser(u, "same", Len([v \in Users |-> <<>>][u])) >> \o [v \in Users |-> <<>>][u]
              = UserBlock("SetAdmin", u)
         /\ << SaveUser(u, "disable", Len([v \in Users |-> HideSessions(v)][u])) >>
              \o [v \in Users |-> HideSessions(v)][u] = UserBlock("DisableUsers", u)
         /\ << SaveUser(u, "delete", Len([v \in Users |-> HideAll(v)][u])) >>
              \o [v \in Users |-> HideAll(v)][u] = UserBlock("DeleteUsers", u)
<1>1. [v \in Users |-> <<>>][u] = <<>> /\ Len(<<>>) = 0  OBVIOUS
<1>2. \A a : <<a>> \o <<>> = <<a>>  OBVIOUS
<1>3. [v \in Users |-> HideSessions(v)][u] = << FindEither("session", u), EachFound("session", "hide") >>
  BY DEF HideSessions
<1>4. [v \in Users |-> HideAll(v)][u] =
        << FindEither("session", u), EachFound("session", "hide"),
           FindEither("contact", u), EachFound("contact", "hide"),
           FindEither("apply", u), EachFound("apply", "hide") >>
  <2>1. HideAll(u) = << FindEither("session", u), EachFound("session", "hide"),
                        FindEither("contact", u), EachFound("contact", "hide"),
                        FindEither("apply", u), EachFound("apply", "hide") >>
    <3>1. /\ HideSessions(u) = << FindEither("session", u), EachFound("session", "hide") >>
          /\ HideAll(u) = HideSessions(u) \o << FindEither("contact", u), EachFound("contact", "hide"),
                                               FindEither("apply", u), EachFound("apply", "hide") >>
      BY Zenon DEF HideAll, HideSessions
    <3> DEFINE a == FindEither("session", u)
               b == EachFound("session", "hide")
               c == FindEither("contact", u)
               d == EachFound("contact", "hide")
               e == FindEither("apply", u)
               f == EachFound("apply", "hide")
    <3>2. HideAll(u) = << a, b >> \o << c, d, e, f >>  BY <3>1, Zenon
    <3> HIDE DEF a, b, c, d, e, f
    <3>3. HideAll(u) = << a, b, c, d, e, f >>  BY <3>2, Join24
    <3> QED  BY <3>3, Zenon DEF a, b, c, d, e, f
  <2>2. [v \in Users |-> HideAll(v)][u] = HideAll(u)  OBVIOUS
  <2> QED  BY <2>1, <2>2
<1>5. \A a, b : Len(<<a, b>>) = 2  OBVIOUS
<1>6. \A a, b, c, d, e, f : Len(<<a, b, c, d, e, f>>) = 6  OBVIOUS
<1>7. /\ << SaveUser(u, "able", 0) >> = UserBlock("AbleUsers", u)
      /\ << SaveUser(u, "same", 0) >> = UserBlock("SetAdmin", u)
      /\ << SaveUser(u, "disable", 2), FindEither("session", u), EachFound("session", "hide") >>
           = UserBlock("DisableUsers", u)
      /\ << SaveUser(u, "delete", 6), FindEither("session", u), EachFound("session", "hide"),
            FindEither("contact", u), EachFound("contact", "hide"),
            FindEither("apply", u), EachFound("apply", "hide") >> = UserBlock("DeleteUsers", u)
  BY DEF UserBlock
<1>8. << SaveUser(u, "able", Len([v \in Users |-> <<>>][u])) >> \o [v \in Users |-> <<>>][u]
        = UserBlock("AbleUsers", u)
  BY <1>1, <1>2, <1>7, Zenon
<1>9. << SaveUser(u, "same", Len([v \in Users |-> <<>>][u])) >> \o [v \in Users |-> <<>>][u]
        = UserBlock("SetAdmin", u)
  BY <1>1, <1>2, <1>7, Zenon
<1>10. << SaveUser(u, "disable", Len([v \in Users |-> HideSessions(v)][u])) >>
         \o [v \in Users |-> HideSessions(v)][u] = UserBlock("DisableUsers", u)
  BY <1>3, <1>5, <1>7, Join12, Zenon
<1>11. << SaveUser(u, "delete", Len([v \in Users |-> HideAll(v)][u])) >>
         \o [v \in Users |-> HideAll(v)][u] = UserBlock("DeleteUsers", u)
  <2> DEFINE z == SaveUser(u, "delete", 6)
             a == FindEither("session", u)
             b == EachFound("session", "hide")
             c == FindEither("contact", u)
             d == EachFound("contact", "hide")
             e == FindEither("apply", u)
             f == EachFound("apply", "hide")
  <2> HIDE DEF z, a, b, c, d, e, f
  <2>1. << z >> \o << a, b, c, d, e, f >> = << z, a, b, c, d, e, f >>  BY Join16
  <2>2. [v \in Users |-> HideAll(v)][u] = << a, b, c, d, e, f >>  BY <1>4, Zenon DEF a, b, c, d, e, f
  <2>3. Len(<< a, b, c, d, e, f >>) = 6  BY <1>6, Zenon
  <2>4. SaveUser(u, "delete", Len([v \in Users |-> HideAll(v)][u])) = z  BY <2>2, <2>3, Zenon DEF z
  <2>5. << z, a, b, c, d, e, f >> = UserBlock("DeleteUsers", u)  BY <1>7, Zenon DEF z, a, b, c, d, e, f
  <2> QED  BY <2>1, <2>2, <2>4, <2>5, Zenon
<1> QED  BY <1>8, <1>9, <1>10, <1>11, Zenon

\* A call and then the blocks of several ids, made by a function.
LEMMA BlocksOfIds ==
  ASSUME NEW U, NEW us \in Seq(U), NEW ss, FunctionOn(ss, DOMAIN us),
         NEW h, NEW c, c = <<h>> \o FlattenSeq(ss)
  PROVE  /\ Len(c) \in Nat /\ Len(c) >= 1 /\ c[1] = h
         /\ InBlocks(c, ss)
         /\ Len(ss) = Len(us)
<1>1. Len(us) \in Nat /\ DOMAIN us = 1..Len(us)  BY LenProperties
<1>2. <<h>> \in Seq({h})  OBVIOUS
<1>3. PICK S : ss \in Seq(Seq(S)) /\ Len(ss) = Len(us) /\ <<h>> \in Seq(S)
  <2>1. FunctionOn(ss, 1..Len(us))  BY <1>1
  <2>2. \A X : \A x \in Seq(X) : \E S : ss \in Seq(Seq(S)) /\ Len(ss) = Len(us) /\ x \in Seq(S)
    BY <1>1, <2>1, OneAlphabet
  <2> QED  BY <1>2, <2>2
<1>4. h \in S
  <2>1. <<h>>[1] = h /\ 1 \in 1..Len(<<h>>)  OBVIOUS
  <2> QED  BY <1>3, <2>1, ElementOfSeq
<1>5. /\ Len(c) \in Nat /\ Len(c) >= 1 /\ c[1] = h
      /\ InBlocks(c, ss)
  BY <1>3, <1>4, CallThenBlocks
<1> QED  BY <1>1, <1>3, <1>5

LEMMA UserArguments ==
  ASSUME NEW r \in Requests, r.op \in UserOps
  PROVE  /\ r.op = "UpdateUserInfo" => r.owner \in Users /\ Subjects(r) = {r.owner}
         /\ r.op # "UpdateUserInfo" =>
              /\ r.uuids \in Seq(Users) /\ Subjects(r) = ToSet(r.uuids) /\ Len(r.uuids) \in Nat
              /\ \A i \in DOMAIN r.uuids : r.uuids[i] \in Subjects(r) /\ r.uuids[i] \in Users
         /\ Subjects(r) \subseteq Users
<1>1. r.op = "UpdateUserInfo" => r.owner \in Users  BY RequestOK DEF WellFormed, UserOps, Lists
<1>2. r.op # "UpdateUserInfo" => r.uuids \in Seq(Users)  BY RequestOK DEF WellFormed, UserOps, Lists
<1>3. r.op # "UpdateUserInfo" => Len(r.uuids) \in Nat /\ DOMAIN r.uuids = 1..Len(r.uuids)
          /\ \A i \in DOMAIN r.uuids : r.uuids[i] \in Users
  BY <1>2, LenProperties, ElementOfSeq
<1> QED  BY <1>1, <1>2, <1>3 DEF Subjects, ToSet

\* The blocks of the users of a request.
Blocks(ss, r) == ss = [i \in DOMAIN r.uuids |-> UserBlock(r.op, r.uuids[i])]

UserList(r) ==
  /\ Len(CallsOf[r]) \in Nat /\ Len(CallsOf[r]) >= 1
  /\ CallsOf[r][1] = FindUsers(r.uuids)
  /\ \A p \in 2..Len(CallsOf[r]) : \E u \in Subjects(r) : Copied(CallsOf[r], UserBlock(r.op, u), p)

Told(r, how, then) ==
  /\ CallsOf[r] = ForEachUser(r.uuids, how, then)
  /\ \A u \in Users : << SaveUser(u, how, Len(then[u])) >> \o then[u] = UserBlock(r.op, u)

LEMMA UserCalls ==
  ASSUME NEW r \in Requests, r.op \in UserOps
  PROVE  /\ Len(CallsOf[r]) \in Nat /\ Len(CallsOf[r]) >= 1
         /\ r.op = "UpdateUserInfo" => CallsOf[r] = UpdateUserInfo(r.owner)
         /\ r.op # "UpdateUserInfo" =>
              /\ \/ CallsOf[r][1] = FindUsers(r.uuids)
                 \/ r.op = "SetAdmin" /\ CallsOf[r][1] = FindUsers(<<>>) /\ Len(CallsOf[r]) = 1
              /\ \A p \in 2..Len(CallsOf[r]) : \E u \in Subjects(r) : Copied(CallsOf[r], UserBlock(r.op, u), p)
<1>0. CallsOf[r] = Calls(r)  BY RequestOK
<1>1. CASE r.op = "UpdateUserInfo"
  <2>1. CallsOf[r] = UpdateUserInfo(r.owner)  BY <1>0, <1>1 DEF Calls, Lists
  <2>2. Len(CallsOf[r]) = 2  BY <2>1 DEF UpdateUserInfo
  <2> QED  BY <1>1, <2>1, <2>2
<1>2. ASSUME NEW ss, r.op \in UserOps \ {"UpdateUserInfo"}, Blocks(ss, r),
             CallsOf[r] = << FindUsers(r.uuids) >> \o FlattenSeq(ss)
      PROVE  UserList(r)
  <2>1. \A i \in DOMAIN r.uuids : ss[i] = UserBlock(r.op, r.uuids[i])  BY <1>2 DEF Blocks
  <2>2. FunctionOn(ss, DOMAIN r.uuids)
    <3>1. DOMAIN ss = DOMAIN r.uuids /\ ss = [i \in DOMAIN r.uuids |-> ss[i]]  BY <1>2 DEF Blocks
    <3>2. \A i \in DOMAIN r.uuids : \E T : ss[i] \in Seq(T)  BY <1>2, <2>1, UserBlockSeq
    <3> QED  BY <3>1, <3>2 DEF FunctionOn
  <2>3. r.uuids \in Seq(Users) /\ \A i \in DOMAIN r.uuids : r.uuids[i] \in Subjects(r)  BY <1>2, UserArguments
  <2>4. /\ Len(CallsOf[r]) \in Nat /\ Len(CallsOf[r]) >= 1 /\ CallsOf[r][1] = FindUsers(r.uuids)
        /\ InBlocks(CallsOf[r], ss) /\ Len(ss) = Len(r.uuids)
    <3> DEFINE us == r.uuids  c == CallsOf[r]  h == FindUsers(r.uuids)
    <3>1. us \in Seq(Users) /\ FunctionOn(ss, DOMAIN us)  BY <2>2, <2>3
    <3>3. c = <<h>> \o FlattenSeq(ss)  BY <1>2
    <3> HIDE DEF us, c, h
    <3>4. Len(c) \in Nat /\ Len(c) >= 1 /\ c[1] = h /\ InBlocks(c, ss) /\ Len(ss) = Len(us)
      BY <3>1, <3>3, BlocksOfIds
    <3> QED  BY <3>4 DEF us, c, h
  <2>5. DOMAIN r.uuids = 1..Len(r.uuids)  BY <2>3
  <2> QED  BY <2>1, <2>3, <2>4, <2>5 DEF InBlocks, UserList
<1>3. ASSUME NEW how, NEW then, r.op \in UserOps \ {"UpdateUserInfo"}, Told(r, how, then)
      PROVE  UserList(r)
  <2>1. \A i \in DOMAIN r.uuids : r.uuids[i] \in Users  BY <1>3, UserArguments
  <2> DEFINE ss == [i \in DOMAIN r.uuids |-> UserBlock(r.op, r.uuids[i])]
             is == [i \in DOMAIN r.uuids |-> << SaveUser(r.uuids[i], how, Len(then[r.uuids[i]])) >> \o then[r.uuids[i]]]
  <2>2. is = ss  BY <1>3, <2>1 DEF Told
  <2>3. CallsOf[r] = << FindUsers(r.uuids) >> \o FlattenSeq(is)  BY <1>3, Zenon DEF ForEachUser, Told
  <2>4. Blocks(ss, r)  BY DEF Blocks
  <2> HIDE DEF ss, is
  <2>5. CallsOf[r] = << FindUsers(r.uuids) >> \o FlattenSeq(ss)  BY <2>2, <2>3
  <2> QED  BY <1>2, <1>3, <2>4, <2>5
<1>4. CASE r.op = "AbleUsers"
  <2>1. CallsOf[r] = ForEachUser(r.uuids, "able", [u \in Users |-> <<>>])  BY <1>0, <1>4 DEF Calls, Lists, AbleUsers
  <2>2. r.op \in UserOps \ {"UpdateUserInfo"}  BY <1>4 DEF UserOps
  <2>3. \A u \in Users : << SaveUser(u, "able", Len([v \in Users |-> <<>>][u])) >> \o [v \in Users |-> <<>>][u]
              = UserBlock(r.op, u)
    BY <1>4, UserBlockIs, Zenon
  <2> DEFINE then == [v \in Users |-> <<>>]
             how == "able"
  <2>4. Told(r, how, then)  BY <2>1, <2>3, Zenon DEF Told
  <2> HIDE DEF then, how
  <2>5. UserList(r)  BY <1>3, <2>2, <2>4
  <2> QED  BY <2>2, <2>5 DEF UserList
<1>5. CASE r.op = "DisableUsers"
  <2>1. CallsOf[r] = ForEachUser(r.uuids, "disable", [u \in Users |-> HideSessions(u)])
    BY <1>0, <1>5 DEF Calls, Lists, DisableUsers
  <2>2. r.op \in UserOps \ {"UpdateUserInfo"}  BY <1>5 DEF UserOps
  <2>3. \A u \in Users : << SaveUser(u, "disable", Len([v \in Users |-> HideSessions(v)][u])) >>
           \o [v \in Users |-> HideSessions(v)][u] = UserBlock(r.op, u)
    BY <1>5, UserBlockIs, Zenon
  <2> DEFINE then == [v \in Users |-> HideSessions(v)]
             how == "disable"
  <2>4. Told(r, how, then)  BY <2>1, <2>3, Zenon DEF Told
  <2> HIDE DEF then, how
  <2>5. UserList(r)  BY <1>3, <2>2, <2>4
  <2> QED  BY <2>2, <2>5 DEF UserList
<1>6. CASE r.op = "DeleteUsers"
  <2>1. CallsOf[r] = ForEachUser(r.uuids, "delete", [u \in Users |-> HideAll(u)])
    BY <1>0, <1>6 DEF Calls, Lists, DeleteUsers
  <2>2. r.op \in UserOps \ {"UpdateUserInfo"}  BY <1>6 DEF UserOps
  <2>3. \A u \in Users : << SaveUser(u, "delete", Len([v \in Users |-> HideAll(v)][u])) >>
           \o [v \in Users |-> HideAll(v)][u] = UserBlock(r.op, u)
    BY <1>6, UserBlockIs, Zenon
  <2> DEFINE then == [v \in Users |-> HideAll(v)]
             how == "delete"
  <2>4. Told(r, how, then)  BY <2>1, <2>3, Zenon DEF Told
  <2> HIDE DEF then, how
  <2>5. UserList(r)  BY <1>3, <2>2, <2>4
  <2> QED  BY <2>2, <2>5 DEF UserList
<1>7. CASE r.op = "SetAdmin" /\ Len(r.uuids) = 1
  <2>1. CallsOf[r] = ForEachUser(r.uuids, "same", [u \in Users |-> <<>>])
    BY <1>0, <1>7 DEF Calls, Lists, SetAdmin
  <2>2. r.op \in UserOps \ {"UpdateUserInfo"}  BY <1>7 DEF UserOps
  <2>3. \A u \in Users : << SaveUser(u, "same", Len([v \in Users |-> <<>>][u])) >> \o [v \in Users |-> <<>>][u]
              = UserBlock(r.op, u)
    BY <1>7, UserBlockIs, Zenon
  <2> DEFINE then == [v \in Users |-> <<>>]
             how == "same"
  <2>4. Told(r, how, then)  BY <2>1, <2>3, Zenon DEF Told
  <2> HIDE DEF then, how
  <2>5. UserList(r)  BY <1>3, <2>2, <2>4
  <2> QED  BY <2>2, <2>5 DEF UserList
<1>8. CASE r.op = "SetAdmin" /\ Len(r.uuids) # 1
  <2>1. CallsOf[r] = << FindUsers(<<>>) >>  BY <1>0, <1>8 DEF Calls, Lists, SetAdmin
  <2>2. Len(CallsOf[r]) = 1 /\ CallsOf[r][1] = FindUsers(<<>>)  BY <2>1
  <2>3. 2..Len(CallsOf[r]) = {}  BY <2>2
  <2> QED  BY <1>8, <2>2, <2>3
<1> QED  BY <1>1, <1>4, <1>5, <1>6, <1>7, <1>8 DEF UserOps

\* c is n calls in copies of the sequences of ss, and then t.
Blocked(c, ss, n, t) ==
  /\ n \in Nat /\ Len(c) = n + Len(t) /\ Len(t) \in Nat
  /\ \A p \in 1..n : \E j \in 1..Len(ss) : Copied(c, ss[j], p)
  /\ \A p \in 1..Len(t) : c[n + p] = t[p]

LEMMA BlocksOfIdsThen ==
  ASSUME NEW U, NEW us \in Seq(U), NEW ss, FunctionOn(ss, DOMAIN us),
         NEW X, NEW t \in Seq(X), NEW c, c = FlattenSeq(ss) \o t
  PROVE  /\ Blocked(c, ss, Len(FlattenSeq(ss)), t) /\ Len(ss) = Len(us)
         /\ Len(ss) # 0 => Len(FlattenSeq(ss)) >= Len(ss[1])
<1>1. Len(us) \in Nat /\ DOMAIN us = 1..Len(us)  BY LenProperties
<1>2. FunctionOn(ss, 1..Len(us))  BY <1>1
<1>3. PICK S : ss \in Seq(Seq(S)) /\ Len(ss) = Len(us) /\ t \in Seq(S)  BY <1>1, <1>2, OneAlphabet
<1> DEFINE q == FlattenSeq(ss)
<1>4. q \in Seq(S) /\ Tiled(q, ss, Len(ss)) /\ (Len(ss) # 0 => Len(q) >= Len(ss[1]))  BY <1>3, FlattenTiles
<1>5. c = q \o t  OBVIOUS
<1> HIDE DEF q
<1>6. /\ Len(c) = Len(q) + Len(t) /\ Len(q) \in Nat /\ Len(t) \in Nat
      /\ \A p \in 1..Len(t) : c[Len(q) + p] = t[p]
      /\ \A p \in 1..Len(q) : \A d \in Seq(S) : Copied(q, d, p) => Copied(c, d, p)
  <2>1. Continues(c, q, t, S)  BY <1>3, <1>4, <1>5, BlocksThenCalls
  <2> QED  BY <2>1 DEF Continues
<1>7. ASSUME NEW p \in 1..Len(q)  PROVE \E j \in 1..Len(ss) : Copied(c, ss[j], p)
  <2>1. PICK j \in 1..Len(ss) : Copied(q, ss[j], p)  BY <1>4 DEF Tiled
  <2>2. ss[j] \in Seq(S)  BY <1>3, ElementOfSeq
  <2> QED  BY <1>6, <2>1, <2>2
<1> QED  BY <1>3, <1>4, <1>6, <1>7 DEF Blocked, q

\* c is h, calls in copies of the sequences of ss up to the n-th, and then t.
Headed(c, h, ss, n, t) ==
  /\ n \in Nat /\ n >= 1 /\ Len(c) = n + Len(t) /\ Len(t) \in Nat /\ c[1] = h
  /\ \A p \in 2..n : \E j \in 1..Len(ss) : Copied(c, ss[j], p)
  /\ \A p \in 1..Len(t) : c[n + p] = t[p]

LEMMA CallBlocksOfIdsThen ==
  ASSUME NEW U, NEW us \in Seq(U), NEW ss, FunctionOn(ss, DOMAIN us),
         NEW X, NEW t \in Seq(X), NEW h, NEW c, c = << h >> \o FlattenSeq(ss) \o t
  PROVE  Len(ss) = Len(us) /\ \E n : Headed(c, h, ss, n, t)
<1>1. Len(us) \in Nat /\ DOMAIN us = 1..Len(us)  BY LenProperties
<1>2. FunctionOn(ss, 1..Len(us))  BY <1>1
<1>3. PICK S : ss \in Seq(Seq(S)) /\ Len(ss) = Len(us) /\ t \in Seq(S)  BY <1>1, <1>2, OneAlphabet
<1> DEFINE T == S \cup {h}
<1>4. T = S \cup {h} /\ h \in T /\ S \subseteq T  OBVIOUS
<1> HIDE DEF T
<1>5. t \in Seq(T)  BY <1>3, <1>4, SeqMore
<1>6. ss \in Seq(Seq(T))
  <2>1. Seq(S) \subseteq Seq(T)  BY <1>4, SeqMore
  <2> QED  BY <1>3, <2>1, SeqMore
<1> DEFINE q == << h >> \o FlattenSeq(ss)
<1>7. q = << h >> \o FlattenSeq(ss) /\ c = q \o t  OBVIOUS
<1> HIDE DEF q
<1>8. q \in Seq(T) /\ Len(q) \in Nat /\ Len(q) >= 1 /\ q[1] = h /\ InBlocks(q, ss)
  BY <1>4, <1>6, <1>7, CallThenBlocks
<1>9. /\ Len(c) = Len(q) + Len(t) /\ Len(t) \in Nat
      /\ \A p \in 1..Len(q) : c[p] = q[p]
      /\ \A p \in 1..Len(t) : c[Len(q) + p] = t[p]
      /\ \A p \in 1..Len(q) : \A d \in Seq(T) : Copied(q, d, p) => Copied(c, d, p)
  <2>1. Continues(c, q, t, T)  BY <1>5, <1>7, <1>8, BlocksThenCalls
  <2> QED  BY <2>1 DEF Continues
<1>10. ASSUME NEW p \in 2..Len(q)  PROVE \E j \in 1..Len(ss) : Copied(c, ss[j], p)
  <2>1. PICK j \in 1..Len(ss) : Copied(q, ss[j], p)  BY <1>8 DEF InBlocks
  <2>2. ss[j] \in Seq(T)  BY <1>6, ElementOfSeq
  <2>3. p \in 1..Len(q)  BY <1>8
  <2> QED  BY <1>9, <2>1, <2>2, <2>3
<1>11. c[1] = h  BY <1>8, <1>9
<1>12. Headed(c, h, ss, Len(q), t)  BY <1>8, <1>9, <1>10, <1>11 DEF Headed
<1> QED  BY <1>3, <1>12
-----------------------------------------------------------------------------
DeleteGroupsList(r, n) ==
  /\ n \in Nat /\ Len(CallsOf[r]) = n + 2
  /\ \A p \in 1..n : \E g \in ToSet(r.uuids) \cap Groups : Copied(CallsOf[r], HideGroup(g), p)
  /\ CallsOf[r][n + 1] = ForgetAll("contact_mygroup_list_")
  /\ CallsOf[r][n + 2] = ForgetAll("group_session_list_")

LEMMA IdsIn ==
  ASSUME NEW U, NEW us \in Seq(U)
  PROVE  /\ Len(us) \in Nat /\ DOMAIN us = 1..Len(us)
         /\ \A i \in 1..Len(us) : us[i] \in ToSet(us) \cap U
<1>1. Len(us) \in Nat /\ DOMAIN us = 1..Len(us)  BY LenProperties
<1>2. \A i \in 1..Len(us) : us[i] \in U  BY ElementOfSeq
<1> QED  BY <1>1, <1>2 DEF ToSet

LEMMA HideGroupSeq ==
  ASSUME NEW g
  PROVE  \E T : HideGroup(g) \in Seq(T)
<1>1. PICK a, b, c, d, e, f, k : HideGroup(g) = << a, b, c, d, e, f, k >>  BY DEF HideGroup
<1>2. << a, b, c, d, e, f, k >> \in Seq({a, b, c, d, e, f, k})  OBVIOUS
<1> QED  BY <1>1, <1>2

LEMMA DeleteGroupsCalls ==
  ASSUME NEW r \in Requests, r.op = "DeleteGroups"
  PROVE  r.uuids \in Seq(Groups) /\ \E n : DeleteGroupsList(r, n)
<1>1. CallsOf[r] = DeleteGroups(r.uuids)  BY RequestOK DEF Calls, Lists
<1>2. r.uuids \in Seq(Groups)  BY RequestOK DEF WellFormed, Lists
<1> DEFINE us == r.uuids
           ss == [i \in DOMAIN us |-> HideGroup(us[i])]
           t == << ForgetAll("contact_mygroup_list_"), ForgetAll("group_session_list_") >>
           c == CallsOf[r]
<1>3. c = FlattenSeq(ss) \o t  BY <1>1 DEF DeleteGroups
<1>4. FunctionOn(ss, DOMAIN us)
  <2>1. \A i \in DOMAIN us : \E T : ss[i] \in Seq(T)  BY HideGroupSeq
  <2>2. DOMAIN ss = DOMAIN us /\ ss = [i \in DOMAIN us |-> ss[i]]  OBVIOUS
  <2> HIDE DEF ss
  <2> QED  BY <2>1, <2>2 DEF FunctionOn
<1>5. \A i \in DOMAIN us : ss[i] = HideGroup(us[i])  OBVIOUS
<1>6. /\ t \in Seq({ForgetAll("contact_mygroup_list_"), ForgetAll("group_session_list_")})
      /\ Len(t) = 2
      /\ t[1] = ForgetAll("contact_mygroup_list_") /\ t[2] = ForgetAll("group_session_list_")
  OBVIOUS
<1>7. us \in Seq(Groups)  BY <1>2
<1> HIDE DEF us, ss, t, c
<1> DEFINE n == Len(FlattenSeq(ss))
<1>8. Blocked(c, ss, n, t) /\ Len(ss) = Len(us)  BY <1>3, <1>4, <1>6, <1>7, BlocksOfIdsThen
<1> HIDE DEF n
<1>9. \A i \in 1..Len(us) : us[i] \in ToSet(us) \cap Groups /\ ss[i] = HideGroup(us[i])  BY <1>5, <1>7, IdsIn
<1>10. \A p \in 1..n : \E g \in ToSet(us) \cap Groups : Copied(c, HideGroup(g), p)
  <2> TAKE p \in 1..n
  <2>1. PICK j \in 1..Len(us) : Copied(c, ss[j], p)  BY <1>8 DEF Blocked
  <2> QED  BY <1>9, <2>1
<1>11. n \in Nat /\ Len(c) = n + 2 /\ c[n + 1] = t[1] /\ c[n + 2] = t[2]  BY <1>6, <1>8 DEF Blocked
<1>12. DeleteGroupsList(r, n)  BY <1>6, <1>10, <1>11 DEF DeleteGroupsList, c, us
<1> QED  BY <1>2, <1>12
-----------------------------------------------------------------------------
StatusBlock(g, st) ==
  IF st = "DISABLE" THEN << UpdateGroup(g, st), Find("session", Users, g), EachFound("session", "hide") >>
                    ELSE << UpdateGroup(g, st) >>

LEMMA StatusBlockSeq ==
  ASSUME NEW g, NEW st
  PROVE  (\E T : StatusBlock(g, st) \in Seq(T)) /\ Len(StatusBlock(g, st)) \in Nat /\ Len(StatusBlock(g, st)) >= 1
<1>1. CASE st = "DISABLE"
  <2>1. PICK a, b, c : StatusBlock(g, st) = << a, b, c >>  BY <1>1 DEF StatusBlock
  <2>2. << a, b, c >> \in Seq({a, b, c}) /\ Len(<< a, b, c >>) = 3  OBVIOUS
  <2>3. StatusBlock(g, st) \in Seq({a, b, c}) /\ Len(StatusBlock(g, st)) = 3  BY <2>1, <2>2
  <2> QED  BY <2>3
<1>2. CASE st # "DISABLE"
  <2>1. PICK a : StatusBlock(g, st) = << a >>  BY <1>2 DEF StatusBlock
  <2>2. << a >> \in Seq({a}) /\ Len(<< a >>) = 1  OBVIOUS
  <2>3. StatusBlock(g, st) \in Seq({a}) /\ Len(StatusBlock(g, st)) = 1  BY <2>1, <2>2
  <2> QED  BY <2>3
<1> QED  BY <1>1, <1>2

SetGroupsList(r) ==
  /\ Len(CallsOf[r]) \in Nat /\ Len(CallsOf[r]) >= 1
  /\ \A p \in 1..Len(CallsOf[r]) :
       \E g \in ToSet(r.uuids) \cap Groups : Copied(CallsOf[r], StatusBlock(g, r.status), p)

LEMMA SetGroupsStatusCalls ==
  ASSUME NEW r \in Requests, r.op = "SetGroupsStatus"
  PROVE  r.uuids \in Seq(Groups) /\ r.status \in GroupSts /\ SetGroupsList(r)
<1>1. CallsOf[r] = SetGroupsStatus(r.uuids, r.status)  BY RequestOK DEF Calls, Lists
<1>2. r.uuids \in Seq(Groups) /\ r.uuids # <<>>  BY RequestOK DEF WellFormed, Lists
<1>3. r.status \in GroupSts  BY RequestOK DEF Request
<1> DEFINE us == r.uuids
           st == r.status
           ss == [i \in DOMAIN us |-> StatusBlock(us[i], st)]
           c == CallsOf[r]
<1>4. \A g : << UpdateGroup(g, st) >> \o
                (IF st = "DISABLE" THEN << Find("session", Users, g), EachFound("session", "hide") >> ELSE <<>>)
              = StatusBlock(g, st)
  <2> TAKE g
  <2>1. CASE st = "DISABLE"  BY <2>1, Join12 DEF StatusBlock
  <2>2. CASE st # "DISABLE"
    <3>1. \A a : <<a>> \o <<>> = <<a>>  OBVIOUS
    <3> QED  BY <2>2, <3>1 DEF StatusBlock
  <2> QED  BY <2>1, <2>2
<1>5. c = FlattenSeq(ss)
  <2>1. [i \in DOMAIN us |-> << UpdateGroup(us[i], st) >> \o
           IF st = "DISABLE" THEN << Find("session", Users, us[i]), EachFound("session", "hide") >> ELSE <<>>] = ss
    BY <1>4
  <2> QED  BY <1>1, <2>1, Zenon DEF SetGroupsStatus
<1>6. FunctionOn(ss, DOMAIN us)
  <2>1. \A i \in DOMAIN us : \E T : ss[i] \in Seq(T)  BY StatusBlockSeq
  <2>2. DOMAIN ss = DOMAIN us /\ ss = [i \in DOMAIN us |-> ss[i]]  OBVIOUS
  <2> HIDE DEF ss
  <2> QED  BY <2>1, <2>2 DEF FunctionOn
<1>7. \A i \in DOMAIN us : ss[i] = StatusBlock(us[i], st)  OBVIOUS
<1>8. us \in Seq(Groups) /\ us # <<>>  BY <1>2
<1> HIDE DEF us, ss, c, st
<1>9. Len(us) \in Nat /\ Len(us) # 0 /\ DOMAIN us = 1..Len(us)  BY <1>8, LenProperties
<1>10. \A i \in 1..Len(us) : us[i] \in ToSet(us) \cap Groups /\ ss[i] = StatusBlock(us[i], st)
  BY <1>7, <1>8, <1>9, IdsIn
<1>11. PICK S : ss \in Seq(Seq(S)) /\ Len(ss) = Len(us)
  <2>1. FunctionOn(ss, 1..Len(us))  BY <1>6, <1>9
  <2>2. <<>> \in Seq({})  OBVIOUS
  <2> QED  BY <1>9, <2>1, <2>2, OneAlphabet
<1>12. c \in Seq(S) /\ Tiled(c, ss, Len(us)) /\ Len(c) >= Len(ss[1])  BY <1>5, <1>9, <1>11, FlattenTiles
<1>13. Len(c) \in Nat /\ Len(c) >= 1
  <2>1. 1 \in 1..Len(us)  BY <1>9
  <2>2. Len(ss[1]) \in Nat /\ Len(ss[1]) >= 1  BY <1>10, <2>1, StatusBlockSeq
  <2> QED  BY <1>12, <2>2, LenProperties
<1>14. \A p \in 1..Len(c) : \E g \in ToSet(us) \cap Groups : Copied(c, StatusBlock(g, st), p)
  <2> TAKE p \in 1..Len(c)
  <2>1. PICK j \in 1..Len(us) : Copied(c, ss[j], p)  BY <1>12 DEF Tiled
  <2> QED  BY <1>10, <2>1
<1>15. SetGroupsList(r)  BY <1>13, <1>14 DEF SetGroupsList, c, us, st
<1> QED  BY <1>2, <1>3, <1>15

StrikeBlock(g, u) ==
  << Strike(u), Hide("session", u, g), Hide("contact", u, g), Hide("apply", u, g) >>

\* The members named before the owner are struck; without the owner, the row is written.
RemoveList(r, n) ==
  /\ n \in Nat /\ n >= 1
  /\ CallsOf[r][1] = FirstGroup(r.contact, GroupSts)
  /\ \A p \in 2..n : \E u \in ToSet(r.uuids) \cap Users : Copied(CallsOf[r], StrikeBlock(r.contact, u), p)
  /\ \/ Len(CallsOf[r]) = n
     \/ /\ Len(CallsOf[r]) = n + 3
        /\ CallsOf[r][n + 1] = SaveGroup("same", r.owner)
        /\ CallsOf[r][n + 2] = ForgetAll("group_session_list_")
        /\ CallsOf[r][n + 3] = ForgetAll("my_joined_group_list_")

LEMMA PrefixIds ==
  ASSUME NEW U, NEW us \in Seq(U), NEW m \in Int, m <= Len(us)
  PROVE  /\ SubSeq(us, 1, m) \in Seq(U)
         /\ ToSet(SubSeq(us, 1, m)) \subseteq ToSet(us)
<1>0. Len(us) \in Nat /\ DOMAIN us = 1..Len(us)  BY LenProperties
<1>1. CASE m < 1
  <2>1. SubSeq(us, 1, m) = <<>>  BY <1>1, SubSeqProperties
  <2> QED  BY <2>1 DEF ToSet
<1>2. CASE m >= 1
  <2>1. /\ SubSeq(us, 1, m) \in Seq(U) /\ Len(SubSeq(us, 1, m)) = m
        /\ \A i \in 1..m : SubSeq(us, 1, m)[i] = us[1 + i - 1]
    BY <1>0, <1>2, SubSeqProperties
  <2>2. DOMAIN SubSeq(us, 1, m) = 1..m  BY <2>1, LenProperties
  <2>3. \A i \in 1..m : SubSeq(us, 1, m)[i] = us[i] /\ i \in DOMAIN us
    <3> TAKE i \in 1..m
    <3>1. 1 + i - 1 = i /\ i \in 1..Len(us)  BY <1>0, <1>2
    <3> QED  BY <1>0, <2>1, <3>1
  <2> DEFINE v == SubSeq(us, 1, m)
  <2>4. ToSet(v) = {v[i] : i \in 1..m}  BY <2>2 DEF ToSet
  <2> HIDE DEF v
  <2>5. \A i \in 1..m : v[i] \in ToSet(us)  BY <2>3 DEF v, ToSet
  <2>6. ToSet(v) \subseteq ToSet(us)  BY <2>4, <2>5
  <2> QED  BY <2>1, <2>6 DEF v
<1> QED  BY <1>0, <1>1, <1>2

LEMMA RemoveCalls ==
  ASSUME NEW r \in Requests, r.op = "RemoveGroupMembers"
  PROVE  r.contact \in Groups /\ r.owner \in Users /\ r.uuids \in Seq(Users) /\ \E n : RemoveList(r, n)
<1> DEFINE upTo == SelectInSeq(r.uuids, LAMBDA u : u = r.owner)
           us == IF upTo = 0 THEN r.uuids ELSE SubSeq(r.uuids, 1, upTo - 1)
           ss == [i \in DOMAIN us |-> StrikeBlock(r.contact, us[i])]
           saved == << SaveGroup("same", r.owner), ForgetAll("group_session_list_"),
                       ForgetAll("my_joined_group_list_") >>
           t == IF upTo # 0 THEN <<>> ELSE saved
           h == FirstGroup(r.contact, GroupSts)
           c == CallsOf[r]
<1>1. c = RemoveGroupMembers(r.owner, r.contact, r.uuids)  BY RequestOK DEF Calls, Lists
<1>2. r.contact \in Groups /\ r.owner \in Users /\ r.uuids \in Seq(Users)  BY RequestOK DEF WellFormed, Lists
<1>3. c = << h >> \o FlattenSeq(ss) \o t  BY <1>1, Zenon DEF RemoveGroupMembers, StrikeBlock
<1>4. upTo \in Int /\ upTo <= Len(r.uuids)
  <2> DEFINE I == {i \in 1..Len(r.uuids) : r.uuids[i] = r.owner}
  <2>0. Len(r.uuids) \in Nat  BY <1>2, LenProperties
  <2>1. upTo = IF I # {} THEN Min(I) ELSE 0  BY DEF SelectInSeq
  <2>2. CASE I = {}  BY <2>0, <2>1, <2>2
  <2>3. CASE I # {}
    <3>1. I \in SUBSET Nat  BY <2>0
    <3>2. \E x \in I : \A y \in I : x =< y  BY <2>3, <3>1, LeastExists
    <3>3. Min(I) \in I  BY <3>2 DEF Min
    <3>4. Min(I) \in 1..Len(r.uuids)  BY <3>3
    <3> HIDE DEF I, upTo
    <3> QED  BY <2>0, <2>1, <2>3, <3>4
  <2> QED  BY <2>2, <2>3
<1> HIDE DEF upTo
<1>5. us \in Seq(Users) /\ ToSet(us) \subseteq ToSet(r.uuids)
  <2>1. CASE upTo = 0  BY <1>2, <2>1
  <2>2. CASE upTo # 0
    <3>1. upTo - 1 \in Int /\ upTo - 1 <= Len(r.uuids)
      <4>1. Len(r.uuids) \in Nat  BY <1>2, LenProperties
      <4> QED  BY <1>4, <4>1
    <3> QED  BY <1>2, <2>2, <3>1, PrefixIds
  <2> QED  BY <2>1, <2>2
<1> HIDE DEF us
<1>6. FunctionOn(ss, DOMAIN us)
  <2>1. \A i \in DOMAIN us : \E T : ss[i] \in Seq(T)
    <3> TAKE i \in DOMAIN us
    <3>1. PICK a, b, d, e : ss[i] = << a, b, d, e >>  BY DEF StrikeBlock
    <3>2. << a, b, d, e >> \in Seq({a, b, d, e})  OBVIOUS
    <3> QED  BY <3>1, <3>2
  <2>2. DOMAIN ss = DOMAIN us /\ ss = [i \in DOMAIN us |-> ss[i]]  OBVIOUS
  <2> HIDE DEF ss
  <2> QED  BY <2>1, <2>2 DEF FunctionOn
<1>7. \A i \in DOMAIN us : ss[i] = StrikeBlock(r.contact, us[i])  OBVIOUS
<1> HIDE DEF ss, h, c
<1>8. /\ \E X : t \in Seq(X)
      /\ Len(t) = 0 \/ (t = saved /\ Len(t) = 3)
      /\ saved[1] = SaveGroup("same", r.owner) /\ saved[2] = ForgetAll("group_session_list_")
      /\ saved[3] = ForgetAll("my_joined_group_list_")
  <2>1. CASE upTo # 0
    <3>1. t = <<>> /\ <<>> \in Seq({}) /\ Len(<<>>) = 0  BY <2>1
    <3> HIDE DEF t
    <3> QED  BY <3>1
  <2>2. CASE upTo = 0
    <3>1. saved \in Seq({saved[1], saved[2], saved[3]}) /\ Len(saved) = 3  OBVIOUS
    <3>2. t = saved  BY <2>2
    <3> HIDE DEF t
    <3> QED  BY <3>1, <3>2
  <2> QED  BY <2>1, <2>2
<1> HIDE DEF t, saved
<1>9. PICK X : t \in Seq(X)  BY <1>8
<1>10. Len(ss) = Len(us) /\ \E n : Headed(c, h, ss, n, t)  BY <1>3, <1>5, <1>6, <1>9, CallBlocksOfIdsThen
<1> PICK n : Headed(c, h, ss, n, t)  BY <1>10
<1>15. /\ n \in Nat /\ n >= 1 /\ Len(c) = n + Len(t) /\ Len(t) \in Nat /\ c[1] = h
       /\ \A p \in 2..n : \E j \in 1..Len(ss) : Copied(c, ss[j], p)
       /\ \A p \in 1..Len(t) : c[n + p] = t[p]
  BY DEF Headed
<1>11. \A i \in 1..Len(us) : us[i] \in ToSet(us) \cap Users /\ ss[i] = StrikeBlock(r.contact, us[i])
  BY <1>5, <1>7, IdsIn
<1>12. \A p \in 2..n : \E u \in ToSet(r.uuids) \cap Users : Copied(c, StrikeBlock(r.contact, u), p)
  <2> TAKE p \in 2..n
  <2>1. PICK j \in 1..Len(us) : Copied(c, ss[j], p)  BY <1>10, <1>15
  <2> QED  BY <1>5, <1>11, <2>1
<1>13. \/ Len(c) = n
       \/ /\ Len(c) = n + 3
          /\ c[n + 1] = SaveGroup("same", r.owner)
          /\ c[n + 2] = ForgetAll("group_session_list_")
          /\ c[n + 3] = ForgetAll("my_joined_group_list_")
  <2>1. CASE Len(t) = 0  BY <1>15, <2>1
  <2>2. CASE t = saved /\ Len(t) = 3  BY <1>8, <1>15, <2>2
  <2> QED  BY <1>8, <2>1, <2>2
<1>14. RemoveList(r, n)  BY <1>15, <1>12, <1>13 DEF RemoveList, h, c
<1> QED  BY <1>2, <1>14

LEMMA RegisterCalls ==
  ASSUME NEW r \in Requests, r.op = "Register"
  PROVE  CallsOf[r] = Register(r.owner) /\ r.owner \in Users
BY RequestOK DEF Calls, WellFormed, Lists

LEMMA LeaveGroupCalls ==
  ASSUME NEW r \in Requests, r.op = "LeaveGroup"
  PROVE  CallsOf[r] = LeaveGroup(r.owner, r.contact) /\ r.owner \in Users /\ r.contact \in Groups
BY RequestOK DEF Calls, WellFormed, Lists

LEMMA DismissGroupCalls ==
  ASSUME NEW r \in Requests, r.op = "DismissGroup"
  PROVE  /\ r.contact \in Groups /\ r.owner = OwnerOf[r.contact] /\ r.owner \in Users
         /\ CallsOf[r] =
              << UpdateGroup(r.contact, "deleted_at"),
                 Find("session", Users, r.contact), EachFound("session", "hide"),
                 Find("contact", Users, r.contact), EachFound("contact", "hide"),
                 Find("apply", Users, r.contact), EachFound("apply", "hide"),
                 Forget("contact_mygroup_list_", r.owner), Forget("group_session_list_", r.owner),
                 ForgetAll("my_joined_group_list_") >>
<1>1. CallsOf[r] = DismissGroup(r.owner, r.contact) /\ r.contact \in Groups /\ r.owner = OwnerOf[r.contact]
  BY RequestOK DEF Calls, WellFormed, Lists
<1>2. r.owner \in Users  BY <1>1, MembershipAssumption
<1> DEFINE a == UpdateGroup(r.contact, "deleted_at")
           b == Find("session", Users, r.contact)
           c == EachFound("session", "hide")
           d == Find("contact", Users, r.contact)
           e == EachFound("contact", "hide")
           f == Find("apply", Users, r.contact)
           g == EachFound("apply", "hide")
           h == Forget("contact_mygroup_list_", r.owner)
           i == Forget("group_session_list_", r.owner)
           j == ForgetAll("my_joined_group_list_")
<1>3. CallsOf[r] = << a, b, c, d, e, f, g >> \o << h, i, j >>  BY <1>1, Zenon DEF DismissGroup, HideGroup
<1> HIDE DEF a, b, c, d, e, f, g, h, i, j
<1>4. CallsOf[r] = << a, b, c, d, e, f, g, h, i, j >>  BY <1>3, Join73
<1>5. CallsOf[r] =
        << UpdateGroup(r.contact, "deleted_at"),
           Find("session", Users, r.contact), EachFound("session", "hide"),
           Find("contact", Users, r.contact), EachFound("contact", "hide"),
           Find("apply", Users, r.contact), EachFound("apply", "hide"),
           Forget("contact_mygroup_list_", r.owner), Forget("group_session_list_", r.owner),
           ForgetAll("my_joined_group_list_") >>
  BY <1>4, Zenon DEF a, b, c, d, e, f, g, h, i, j
<1> QED  BY <1>1, <1>2, <1>5

LEMMA EnterGroupCalls ==
  ASSUME NEW r \in Requests, r.op = "EnterGroupDirectly"
  PROVE  CallsOf[r] = EnterGroupDirectly(r.owner, r.contact) /\ r.owner \in Groups /\ r.contact \in Users
BY RequestOK DEF Calls, WellFormed, Lists

LEMMA UpdateGroupInfoCalls ==
  ASSUME NEW r \in Requests, r.op = "UpdateGroupInfo"
  PROVE  CallsOf[r] = UpdateGroupInfo(r.contact) /\ r.contact \in Groups
BY RequestOK DEF Calls, WellFormed, Lists

LEMMA ApplyContactCalls ==
  ASSUME NEW r \in Requests, r.op = "ApplyContact"
  PROVE  /\ CallsOf[r] = ApplyContact(r.owner, r.contact)
         /\ r.owner \in Users /\ r.contact \in Users \cup Groups
<1>1. CallsOf[r] = ApplyContact(r.owner, r.contact) /\ r.owner \in Users
  BY RequestOK DEF Calls, WellFormed, Lists
<1>2. r.contact \in Users \cup Groups  BY RequestOK DEF Request, Ids
<1> QED  BY <1>1, <1>2

\* The application, then what becomes of it.
PassToUser(o, c) ==
  << First("apply", c, o, ApplySts), FindUser(c, {"NORMAL"}), Save("apply", {"AGREE"}),
     Insert("contact", o, c, "NORMAL"), Insert("contact", c, o, "NORMAL"),
     Forget("contact_user_list_", o) >>

PassToGroup(o, c) ==
  << First("apply", c, o, ApplySts), FindGroup(o, {"NORMAL"}), Save("apply", {"AGREE"}),
     Insert("contact", c, o, "NORMAL"), SaveGroup("pass", c),
     Forget("my_joined_group_list_", o) >>

LEMMA PassApplyCalls ==
  ASSUME NEW r \in Requests, r.op = "PassContactApply"
  PROVE  /\ r.contact \in Users /\ r.owner \in Users \cup Groups
         /\ r.owner \in Users => CallsOf[r] = PassToUser(r.owner, r.contact)
         /\ r.owner \notin Users => CallsOf[r] = PassToGroup(r.owner, r.contact)
<1>1. CallsOf[r] = PassContactApply(r.owner, r.contact) /\ r.contact \in Users
  BY RequestOK DEF Calls, WellFormed, Lists
<1>2. r.owner \in Users \cup Groups  BY RequestOK DEF Request, Ids
<1>3. r.owner \in Users => CallsOf[r] = PassToUser(r.owner, r.contact)
  BY <1>1, Join15 DEF PassContactApply, PassToUser
<1>4. r.owner \notin Users => CallsOf[r] = PassToGroup(r.owner, r.contact)
  BY <1>1, Join15 DEF PassContactApply, PassToGroup
<1> QED  BY <1>1, <1>2, <1>3, <1>4

LEMMA RefuseApplyCalls ==
  ASSUME NEW r \in Requests, r.op = "RefuseContactApply"
  PROVE  CallsOf[r] = RefuseContactApply(r.owner, r.contact) /\ r.contact \in Users /\ r.owner \in Users \cup Groups
<1>1. CallsOf[r] = RefuseContactApply(r.owner, r.contact) /\ r.contact \in Users
  BY RequestOK DEF Calls, WellFormed, Lists
<1>2. r.owner \in Users \cup Groups  BY RequestOK DEF Request, Ids
<1> QED  BY <1>1, <1>2

LEMMA BlackApplyCalls ==
  ASSUME NEW r \in Requests, r.op = "BlackApply"
  PROVE  CallsOf[r] = BlackApply(r.owner, r.contact) /\ r.contact \in Users /\ r.owner \in Users \cup Groups
<1>1. CallsOf[r] = BlackApply(r.owner, r.contact) /\ r.contact \in Users
  BY RequestOK DEF Calls, WellFormed, Lists
<1>2. r.owner \in Users \cup Groups  BY RequestOK DEF Request, Ids
<1> QED  BY <1>1, <1>2

LEMMA ContactCalls ==
  ASSUME NEW r \in Requests, r.op \in {"BlackContact", "CancelBlackContact", "DeleteContact"}
  PROVE  /\ r.op = "BlackContact" => CallsOf[r] = BlackContact(r.owner, r.contact)
         /\ r.op = "CancelBlackContact" => CallsOf[r] = CancelBlackContact(r.owner, r.contact)
         /\ r.op = "DeleteContact" => CallsOf[r] = DeleteContact(r.owner, r.contact)
         /\ r.owner \in Users /\ r.contact \in Users
<1>1. r.owner \in Users /\ r.contact \in Users  BY RequestOK DEF WellFormed, Lists
<1>2. CallsOf[r] = Calls(r)  BY RequestOK
<1> QED  BY <1>1, <1>2 DEF Calls, Lists

LEMMA OpenSessionCalls ==
  ASSUME NEW r \in Requests, r.op = "OpenSession"
  PROVE  /\ r.owner \in Users /\ r.contact \in Users \cup Groups
         /\ CallsOf[r] =
              << IfNone("session", r.owner, r.contact), FirstUser(r.owner, UserSts),
                 IF r.contact \in Users THEN FirstUser(r.contact, {"NORMAL"}) ELSE FirstGroup(r.contact, {"NORMAL"}),
                 Insert("session", r.owner, r.contact, "OPEN"),
                 Forget("group_session_list_", r.owner), Forget("session_list_", r.owner) >>
<1>1. CallsOf[r] = OpenSession(r.owner, r.contact) /\ r.owner \in Users
  BY RequestOK DEF Calls, WellFormed, Lists
<1>2. r.contact \in Users \cup Groups  BY RequestOK DEF Request, Ids
<1> DEFINE a == IfNone("session", r.owner, r.contact)
           b == FirstUser(r.owner, UserSts)
           c == IF r.contact \in Users THEN FirstUser(r.contact, {"NORMAL"}) ELSE FirstGroup(r.contact, {"NORMAL"})
           d == Insert("session", r.owner, r.contact, "OPEN")
           e == Forget("group_session_list_", r.owner)
           f == Forget("session_list_", r.owner)
<1>3. CallsOf[r] = << a >> \o << b, c, d, e, f >>  BY <1>1, Zenon DEF OpenSession, CreateSession
<1> HIDE DEF a, b, c, d, e, f
<1>4. CallsOf[r] = << a, b, c, d, e, f >>  BY <1>3, Join15
<1> QED  BY <1>1, <1>2, <1>4 DEF a, b, c, d, e, f

LEMMA DeleteSessionCalls ==
  ASSUME NEW r \in Requests, r.op = "DeleteSession"
  PROVE  CallsOf[r] = DeleteSession(r.owner, r.contact) /\ r.owner \in Users /\ r.contact \in Users \cup Groups
<1>1. CallsOf[r] = DeleteSession(r.owner, r.contact) /\ r.owner \in Users
  BY RequestOK DEF Calls, WellFormed, Lists
<1>2. r.contact \in Users \cup Groups  BY RequestOK DEF Request, Ids
<1> QED  BY <1>1, <1>2

LEMMA ListHandlerCalls ==
  ASSUME NEW r \in Requests, r.op \in Lists
  PROVE  /\ r.owner \in Users /\ r.op # "my_joined_group_list_ "
         /\ r.op = "my_joined_group_list_" =>
              CallsOf[r] = << Get(r.op, r.owner), Query(r.op, r.owner), EachGroup, SetEx(r.op, r.owner) >>
         /\ r.op = "contact_user_list_" =>
              CallsOf[r] = << Get(r.op, r.owner), Query(r.op, r.owner), EachUser, SetEx(r.op, r.owner) >>
         /\ r.op \notin {"my_joined_group_list_", "contact_user_list_"} =>
              CallsOf[r] = << Get(r.op, r.owner), Query(r.op, r.owner), SetEx(r.op, r.owner) >>
<1>1. CallsOf[r] = LoadList(r.op, r.owner) /\ r.owner \in Users /\ r.op # "my_joined_group_list_ "
  BY ListCalls
<1> DEFINE a == Get(r.op, r.owner)
           b == Query(r.op, r.owner)
           d == SetEx(r.op, r.owner)
           e == EachGroup
           f == EachUser
<1>2. /\ r.op = "my_joined_group_list_" => CallsOf[r] = << a, b >> \o << e >> \o << d >>
      /\ r.op = "contact_user_list_" => CallsOf[r] = << a, b >> \o << f >> \o << d >>
      /\ r.op \notin {"my_joined_group_list_", "contact_user_list_"} => CallsOf[r] = << a, b >> \o <<>> \o << d >>
  BY <1>1 DEF LoadList
<1> HIDE DEF a, b, d, e, f
<1>3. << a, b >> \o <<>> = << a, b >>  OBVIOUS
<1>4. /\ << a, b >> \o << e >> \o << d >> = << a, b, e, d >>
      /\ << a, b >> \o << f >> \o << d >> = << a, b, f, d >>
      /\ << a, b >> \o <<>> \o << d >> = << a, b, d >>
  <2>1. << a, b >> \o << e >> \o << d >> = << a, b, e, d >>
    <3>1. << a, b >> \o << e >> = << a, b, e >>  BY Join21
    <3>2. << a, b, e >> \o << d >> = << a, b, e, d >>  BY Join31
    <3> QED  BY <3>1, <3>2, Zenon
  <2>2. << a, b >> \o << f >> \o << d >> = << a, b, f, d >>
    <3>1. << a, b >> \o << f >> = << a, b, f >>  BY Join21
    <3>2. << a, b, f >> \o << d >> = << a, b, f, d >>  BY Join31
    <3> QED  BY <3>1, <3>2, Zenon
  <2>3. << a, b >> \o <<>> \o << d >> = << a, b, d >>  BY <1>3, Join21
  <2> QED  BY <2>1, <2>2, <2>3
<1> QED  BY <1>1, <1>2, <1>4 DEF a, b, d, e, f

LEMMA GroupRows ==
  ASSUME NEW r \in Requests, NEW g, GroupTopic(r, g), NEW u \in Users, NEW t \in Tables
  PROVE  RowTopic(r, t, u, g)
<1>1. g \notin Users /\ g \in Ids  BY MembershipAssumption DEF GroupTopic, Ids
<1>2. CASE t = "session"  BY <1>1, <1>2 DEF RowTopic, Topic, GroupTopic
<1>3. CASE t # "session"  BY <1>1, <1>3 DEF RowTopic, Topic, GroupTopic, Between
<1> QED  BY <1>2, <1>3

LEMMA PairRows ==
  ASSUME NEW r \in Requests, r.op \in PairOps, r.owner \in Users, r.contact \in Users, NEW t \in Tables
  PROVE  RowTopic(r, t, r.owner, r.contact) /\ RowTopic(r, t, r.contact, r.owner)
<1>1. /\ OfPair(r.owner, r.contact) \in AboutOf[r]
      /\ OfTalk(r.owner, r.contact) \in AboutOf[r] /\ OfTalk(r.contact, r.owner) \in AboutOf[r]
  BY AboutPair
<1>2. OfPair(r.owner, r.contact) = OfPair(r.contact, r.owner)
  <2>1. {r.owner, r.contact} = {r.contact, r.owner}  OBVIOUS
  <2> QED  BY <2>1 DEF OfPair
<1>3. r.owner \in Ids /\ r.contact \in Ids  BY DEF Ids
<1>4. CASE t = "session"  BY <1>1, <1>3, <1>4 DEF RowTopic, Topic
<1>5. CASE t # "session"  BY <1>1, <1>2, <1>3, <1>5 DEF RowTopic, Topic, Between
<1> QED  BY <1>4, <1>5

LEMMA TalkRows ==
  ASSUME NEW r \in Requests, r.op \in {"OpenSession", "DeleteSession"},
         r.owner \in Users, r.contact \in Users \cup Groups
  PROVE  RowTopic(r, "session", r.owner, r.contact)
BY AboutTalk DEF RowTopic, Topic, Tables, Ids

\* The rows of t with u on one side.
EitherTopic(r, t, u) ==
  /\ u \in Users
  /\ \A x \in Ids : RowTopic(r, t, u, x)
  /\ \A v \in Users : RowTopic(r, t, v, u)

LEMMA AccountRows ==
  ASSUME NEW r \in Requests, r.op \in UserOps, NEW u \in Subjects(r), u \in Users
  PROVE  EitherTopic(r, "session", u)
<1>1. AccountTopic(r, u)  BY AboutAccount
<1>2. u \in Ids /\ Users \subseteq Ids  BY DEF Ids
<1> QED  BY <1>1, <1>2 DEF EitherTopic, RowTopic, Topic, Tables, AccountTopic

LEMMA DeletionRows ==
  ASSUME NEW r \in Requests, r.op = "DeleteUsers", NEW u \in Subjects(r), u \in Users, NEW t \in Tables
  PROVE  EitherTopic(r, t, u)
<1>0. r.op \in UserOps  BY DEF UserOps
<1>1. CASE t = "session"  BY <1>0, <1>1, AccountRows
<1>2. CASE t # "session"
  <2>1. /\ \A v \in Users : OfPair(u, v) \in AboutOf[r]
        /\ \A g \in Groups : OfGroup(g) \in AboutOf[r]
    BY AboutDeletion
  <2>2. \A v \in Users : OfPair(v, u) = OfPair(u, v)
    <3> TAKE v \in Users
    <3>1. {v, u} = {u, v}  OBVIOUS
    <3> QED  BY <3>1 DEF OfPair
  <2>3. \A x \in Ids : RowTopic(r, t, u, x)
    <3> TAKE x \in Ids
    <3>1. CASE x \in Users  BY <2>1, <1>2, <3>1 DEF RowTopic, Topic, Between, Ids
    <3>2. CASE x \notin Users
      <4>1. x \in Groups  BY <3>2 DEF Ids
      <4> QED  BY <2>1, <1>2, <3>2, <4>1 DEF RowTopic, Topic, Between, Ids
    <3> QED  BY <3>1, <3>2
  <2>4. \A v \in Users : RowTopic(r, t, v, u)
    <3> TAKE v \in Users
    <3>1. Between(v, u) = OfPair(u, v)  BY <2>2 DEF Between
    <3>2. u \in Ids  BY DEF Ids
    <3> QED  BY <2>1, <1>2, <3>1, <3>2 DEF RowTopic, Topic
  <2> QED  BY <2>3, <2>4 DEF EitherTopic
<1> QED  BY <1>1, <1>2
-----------------------------------------------------------------------------
NewStatus(st) == st = {} \/ \E x \in RowSts : st = {x}

\* What each call is about, and whose call it is.
RowCall(r, c) ==
  /\ c.do \in {"First", "FirstOr", "IfNone", "Insert", "Update"} => RowTopic(r, c.table, c.user, c.to)
  /\ c.do = "First" => r.op \in {"PassContactApply", "RefuseContactApply", "BlackApply", "CancelBlackContact"}
  /\ c.do = "FirstOr" => r.op = "ApplyContact"
  /\ c.do = "IfNone" => r.op = "OpenSession"
  /\ c.do = "Insert" =>
       /\ c.status \in RowSts
       /\ c.table = "session" => r.op = "OpenSession"
       /\ c.table = "apply" => r.op = "ApplyContact"
       /\ c.table = "contact" => r.op \in {"CreateGroup", "EnterGroupDirectly", "PassContactApply"}
  /\ c.do = "Save" =>
       /\ c.table \in Tables /\ NewStatus(c.status)
       /\ r.op \in {"ApplyContact", "PassContactApply", "RefuseContactApply", "BlackApply", "CancelBlackContact"}
       /\ c.table = IF r.op = "CancelBlackContact" THEN "contact" ELSE "apply"
  /\ c.do = "Update" =>
       /\ NewStatus(c.status) /\ c.live \in BOOLEAN
       /\ r.op \in {"LeaveGroup", "RemoveGroupMembers", "BlackContact", "DeleteContact"}
       /\ c.live => r.op = "BlackContact" /\ c.table = "contact"
       /\ c.table # "contact" => c.status = {}
  /\ c.do \in {"Find", "FindEither", "EachFound"} => c.table \in Tables
  /\ c.do = "Find" =>
       /\ \A u \in c.from : RowTopic(r, c.table, u, c.to)
       /\ r.op \in {"DismissGroup", "DeleteGroups", "SetGroupsStatus", "UpdateGroupInfo", "DeleteSession"}
  /\ c.do = "FindEither" => EitherTopic(r, c.table, c.who) /\ r.op \in {"DisableUsers", "DeleteUsers"}
  /\ c.do = "EachFound" =>
       /\ r.op \in {"DismissGroup", "DeleteGroups", "SetGroupsStatus", "UpdateGroupInfo", "DeleteSession",
                    "DisableUsers", "DeleteUsers"}
       /\ c.how \in {"hide", "save"}
       /\ c.how = "save" => r.op = "UpdateGroupInfo" /\ c.table = "session"

UserCall(r, c) ==
  /\ c.do \in {"FirstUser", "FindUser"} => c.who \in Users
  /\ c.do = "FirstUser" => r.op \in {"UpdateUserInfo", "ApplyContact", "OpenSession"}
  /\ c.do = "FindUser" => r.op = "PassContactApply"
  /\ c.do = "FindUsers" => r.op \in UserOps /\ ToSet(c.uuids) \subseteq Subjects(r)
  /\ c.do = "IfNoTelephone" => r.op = "Register" /\ c.tel = TelOf[r.owner]
  /\ c.do = "InsertUser" => r.op = "Register" /\ c.who = r.owner /\ r.owner \in Users
  /\ c.do = "SaveUser" =>
       /\ r.op \in UserOps /\ c.who \in Subjects(r) /\ c.who \in Users /\ c.rest \in Nat
       /\ c.how = CASE r.op = "AbleUsers" -> "able" [] r.op = "DisableUsers" -> "disable"
                    [] r.op = "DeleteUsers" -> "delete" [] r.op \in {"UpdateUserInfo", "SetAdmin"} -> "same"

GroupCall(r, c) ==
  /\ c.do = "InsertGroup" => r.op = "CreateGroup" /\ c.group = r.contact /\ GroupTopic(r, c.group)
  /\ c.do \in {"FirstGroup", "FindGroup"} => c.group \in Groups /\ (r.op = "OpenSession" \/ GroupTopic(r, c.group))
  /\ c.do = "FirstGroup" => r.op \in {"LeaveGroup", "EnterGroupDirectly", "UpdateGroupInfo", "RemoveGroupMembers",
                                      "ApplyContact", "OpenSession"}
  /\ c.do = "FindGroup" => r.op = "PassContactApply"
  /\ c.do = "Strike" => r.op = "RemoveGroupMembers" /\ c.who \in Users
  /\ c.do = "SaveGroup" =>
       /\ r.op \in {"LeaveGroup", "EnterGroupDirectly", "UpdateGroupInfo", "RemoveGroupMembers", "PassContactApply"}
       /\ c.who \in Users
       /\ c.how = CASE r.op = "LeaveGroup" -> "leave" [] r.op = "EnterGroupDirectly" -> "enter"
                    [] r.op = "PassContactApply" -> "pass"
                    [] r.op \in {"UpdateGroupInfo", "RemoveGroupMembers"} -> "same"
  /\ c.do = "UpdateGroup" =>
       /\ GroupTopic(r, c.group)
       /\ \/ c.field = "deleted_at" /\ r.op \in {"DismissGroup", "DeleteGroups"}
          \/ c.field \in GroupSts /\ r.op = "SetGroupsStatus"

ListCall(r, c) ==
  /\ c.do \in {"Get", "Query", "SetEx"} => r.op \in Lists /\ c.list = r.op /\ c.of = r.owner /\ r.owner \in Users
  /\ c.do \in {"EachGroup", "EachUser"} => r.op \in Lists \ {"contact_mygroup_list_"}
  /\ c.do = "Forget" => r.op \notin Lists

Dos == {"First", "FirstOr", "IfNone", "Insert", "Save", "Update", "Find", "FindEither", "EachFound",
        "FirstUser", "FindUser", "FindUsers", "IfNoTelephone", "InsertUser", "SaveUser",
        "InsertGroup", "FirstGroup", "FindGroup", "Strike", "SaveGroup", "UpdateGroup",
        "Get", "Query", "EachGroup", "EachUser", "SetEx", "Forget"}

Fits(r, c) == c.do \in Dos /\ RowCall(r, c) /\ UserCall(r, c) /\ GroupCall(r, c) /\ ListCall(r, c)

\* Each call of a request fits.
AllFit(r) ==
  /\ Len(CallsOf[r]) \in Nat /\ Len(CallsOf[r]) >= 1
  /\ \A p \in 1..Len(CallsOf[r]) : Fits(r, CallsOf[r][p])

(* One lemma for each call. *)
LEMMA FirstFits ==
  ASSUME NEW r, NEW t, NEW u, NEW x, NEW among, RowTopic(r, t, u, x),
         r.op \in {"PassContactApply", "RefuseContactApply", "BlackApply", "CancelBlackContact"}
  PROVE  Fits(r, First(t, u, x, among))
BY DEF Fits, RowCall, UserCall, GroupCall, ListCall, Dos, First

LEMMA FirstOrFits ==
  ASSUME NEW r, NEW t, NEW u, NEW x, NEW among, RowTopic(r, t, u, x), r.op = "ApplyContact"
  PROVE  Fits(r, FirstOr(t, u, x, among))
BY DEF Fits, RowCall, UserCall, GroupCall, ListCall, Dos, FirstOr

LEMMA IfNoneFits ==
  ASSUME NEW r, NEW t, NEW u, NEW x, RowTopic(r, t, u, x), r.op = "OpenSession"
  PROVE  Fits(r, IfNone(t, u, x))
BY DEF Fits, RowCall, UserCall, GroupCall, ListCall, Dos, IfNone

LEMMA InsertFits ==
  ASSUME NEW r, NEW t, NEW u, NEW x, NEW st \in RowSts, RowTopic(r, t, u, x),
         t = "session" => r.op = "OpenSession",
         t = "apply" => r.op = "ApplyContact",
         t = "contact" => r.op \in {"CreateGroup", "EnterGroupDirectly", "PassContactApply"}
  PROVE  Fits(r, Insert(t, u, x, st))
BY DEF Fits, RowCall, UserCall, GroupCall, ListCall, Dos, Insert

LEMMA SaveFits ==
  ASSUME NEW r, NEW t \in Tables, NEW st, NewStatus(st),
         r.op \in {"ApplyContact", "PassContactApply", "RefuseContactApply", "BlackApply", "CancelBlackContact"},
         t = IF r.op = "CancelBlackContact" THEN "contact" ELSE "apply"
  PROVE  Fits(r, Save(t, st))
BY DEF Fits, RowCall, UserCall, GroupCall, ListCall, Dos, Save

LEMMA UpdateFits ==
  ASSUME NEW r, NEW t, NEW u, NEW x, NEW st \in RowSts, RowTopic(r, t, u, x),
         r.op = "BlackContact", t = "contact"
  PROVE  Fits(r, Update(t, u, x, st))
<1>1. NewStatus({st})  BY DEF NewStatus
<1> QED  BY <1>1 DEF Fits, RowCall, UserCall, GroupCall, ListCall, Dos, Update

LEMMA DeleteFits ==
  ASSUME NEW r, NEW t, NEW u, NEW x, NEW st, NewStatus(st), RowTopic(r, t, u, x), t # "contact" => st = {},
         r.op \in {"LeaveGroup", "RemoveGroupMembers", "BlackContact", "DeleteContact"}
  PROVE  Fits(r, Delete(t, u, x, st))
BY DEF Fits, RowCall, UserCall, GroupCall, ListCall, Dos, Delete

LEMMA HideFits ==
  ASSUME NEW r, NEW t, NEW u, NEW x, RowTopic(r, t, u, x),
         r.op \in {"LeaveGroup", "RemoveGroupMembers", "BlackContact", "DeleteContact"}
  PROVE  Fits(r, Hide(t, u, x))
<1>1. NewStatus({})  BY DEF NewStatus
<1> QED  BY <1>1, DeleteFits DEF Hide

LEMMA FindFits ==
  ASSUME NEW r, NEW t \in Tables, NEW from, NEW x, \A u \in from : RowTopic(r, t, u, x),
         r.op \in {"DismissGroup", "DeleteGroups", "SetGroupsStatus", "UpdateGroupInfo", "DeleteSession"}
  PROVE  Fits(r, Find(t, from, x))
BY DEF Fits, RowCall, UserCall, GroupCall, ListCall, Dos, Find

LEMMA FindEitherFits ==
  ASSUME NEW r, NEW t \in Tables, NEW u, EitherTopic(r, t, u), r.op \in {"DisableUsers", "DeleteUsers"}
  PROVE  Fits(r, FindEither(t, u))
BY DEF Fits, RowCall, UserCall, GroupCall, ListCall, Dos, FindEither

LEMMA EachFoundFits ==
  ASSUME NEW r, NEW t \in Tables, NEW how \in {"hide", "save"},
         r.op \in {"DismissGroup", "DeleteGroups", "SetGroupsStatus", "UpdateGroupInfo", "DeleteSession",
                   "DisableUsers", "DeleteUsers"},
         how = "save" => r.op = "UpdateGroupInfo" /\ t = "session"
  PROVE  Fits(r, EachFound(t, how))
BY DEF Fits, RowCall, UserCall, GroupCall, ListCall, Dos, EachFound

LEMMA FirstUserFits ==
  ASSUME NEW r, NEW u \in Users, NEW among, r.op \in {"UpdateUserInfo", "ApplyContact", "OpenSession"}
  PROVE  Fits(r, FirstUser(u, among))
BY DEF Fits, RowCall, UserCall, GroupCall, ListCall, Dos, FirstUser

LEMMA FindUserFits ==
  ASSUME NEW r, NEW u \in Users, NEW among, r.op = "PassContactApply"
  PROVE  Fits(r, FindUser(u, among))
BY DEF Fits, RowCall, UserCall, GroupCall, ListCall, Dos, FindUser

LEMMA FindUsersFits ==
  ASSUME NEW r, NEW us, r.op \in UserOps, ToSet(us) \subseteq Subjects(r)
  PROVE  Fits(r, FindUsers(us))
BY DEF Fits, RowCall, UserCall, GroupCall, ListCall, Dos, FindUsers

LEMMA RegisterFits ==
  ASSUME NEW r \in Requests, r.op = "Register", r.owner \in Users
  PROVE  Fits(r, IfNoTelephone(TelOf[r.owner])) /\ Fits(r, InsertUser(r.owner))
BY DEF Fits, RowCall, UserCall, GroupCall, ListCall, Dos, IfNoTelephone, InsertUser

LEMMA SaveUserFits ==
  ASSUME NEW r, NEW u \in Users, u \in Subjects(r), NEW how, NEW n \in Nat, r.op \in UserOps,
         how = CASE r.op = "AbleUsers" -> "able" [] r.op = "DisableUsers" -> "disable"
                 [] r.op = "DeleteUsers" -> "delete" [] r.op \in {"UpdateUserInfo", "SetAdmin"} -> "same"
  PROVE  Fits(r, SaveUser(u, how, n))
BY DEF Fits, RowCall, UserCall, GroupCall, ListCall, Dos, SaveUser

LEMMA InsertGroupFits ==
  ASSUME NEW r, r.op = "CreateGroup", GroupTopic(r, r.contact)
  PROVE  Fits(r, InsertGroup(r.contact))
BY DEF Fits, RowCall, UserCall, GroupCall, ListCall, Dos, InsertGroup

LEMMA FirstGroupFits ==
  ASSUME NEW r, NEW g \in Groups, NEW among, r.op = "OpenSession" \/ GroupTopic(r, g),
         r.op \in {"LeaveGroup", "EnterGroupDirectly", "UpdateGroupInfo", "RemoveGroupMembers",
                   "ApplyContact", "OpenSession"}
  PROVE  Fits(r, FirstGroup(g, among))
BY DEF Fits, RowCall, UserCall, GroupCall, ListCall, Dos, FirstGroup

LEMMA FindGroupFits ==
  ASSUME NEW r, NEW g, NEW among, GroupTopic(r, g), r.op = "PassContactApply"
  PROVE  Fits(r, FindGroup(g, among))
<1>1. g \in Groups  BY DEF GroupTopic
<1> QED  BY <1>1 DEF Fits, RowCall, UserCall, GroupCall, ListCall, Dos, FindGroup

LEMMA StrikeFits ==
  ASSUME NEW r, NEW u \in Users, r.op = "RemoveGroupMembers"
  PROVE  Fits(r, Strike(u))
BY DEF Fits, RowCall, UserCall, GroupCall, ListCall, Dos, Strike

LEMMA SaveGroupFits ==
  ASSUME NEW r, NEW how, NEW u \in Users,
         r.op \in {"LeaveGroup", "EnterGroupDirectly", "UpdateGroupInfo", "RemoveGroupMembers", "PassContactApply"},
         how = CASE r.op = "LeaveGroup" -> "leave" [] r.op = "EnterGroupDirectly" -> "enter"
                 [] r.op = "PassContactApply" -> "pass"
                 [] r.op \in {"UpdateGroupInfo", "RemoveGroupMembers"} -> "same"
  PROVE  Fits(r, SaveGroup(how, u))
BY DEF Fits, RowCall, UserCall, GroupCall, ListCall, Dos, SaveGroup

LEMMA UpdateGroupFits ==
  ASSUME NEW r, NEW g, NEW field, GroupTopic(r, g),
         \/ field = "deleted_at" /\ r.op \in {"DismissGroup", "DeleteGroups"}
         \/ field \in GroupSts /\ r.op = "SetGroupsStatus"
  PROVE  Fits(r, UpdateGroup(g, field))
BY DEF Fits, RowCall, UserCall, GroupCall, ListCall, Dos, UpdateGroup

LEMMA ListFits ==
  ASSUME NEW r, r.op \in Lists, r.owner \in Users
  PROVE  /\ Fits(r, Get(r.op, r.owner)) /\ Fits(r, Query(r.op, r.owner)) /\ Fits(r, SetEx(r.op, r.owner))
         /\ r.op # "contact_mygroup_list_" => Fits(r, EachGroup) /\ Fits(r, EachUser)
BY DEF Fits, RowCall, UserCall, GroupCall, ListCall, Dos, Get, Query, SetEx, EachGroup, EachUser

LEMMA ForgetFits ==
  ASSUME NEW r, r.op \notin Lists, NEW list
  PROVE  (\A u : Fits(r, Forget(list, u))) /\ Fits(r, ForgetAll(list))
BY DEF Fits, RowCall, UserCall, GroupCall, ListCall, Dos, Forget, ForgetAll

LEMMA TablesAre == "session" \in Tables /\ "contact" \in Tables /\ "apply" \in Tables
BY DEF Tables

LEMMA StatusesAre ==
  /\ "NORMAL" \in RowSts /\ "PENDING" \in RowSts /\ "OPEN" \in RowSts /\ "BLACK" \in RowSts /\ "BE_BLACK" \in RowSts
  /\ NewStatus({}) /\ NewStatus({"AGREE"}) /\ NewStatus({"REFUSE"}) /\ NewStatus({"BLACK"}) /\ NewStatus({"PENDING"})
  /\ NewStatus({"NORMAL"}) /\ NewStatus({"QUIT_GROUP"}) /\ NewStatus({"DELETE"}) /\ NewStatus({"BE_DELETE"})
BY DEF NewStatus, RowSts, ContactSts, ApplySts

\* A group that a request names, and its rows.
LEMMA GroupNamed ==
  ASSUME NEW r \in Requests, r.op \in RosterOps, NEW g \in Groups,
         g = r.owner \/ g = r.contact \/ g \in ToSet(r.uuids)
  PROVE  GroupTopic(r, g) /\ \A u \in Users : \A t \in Tables : RowTopic(r, t, u, g)
<1>1. GroupTopic(r, g)  BY AboutRoster
<1> QED  BY <1>1, GroupRows

LEMMA RegisterAllFit ==
  ASSUME NEW r \in Requests, r.op = "Register"
  PROVE  AllFit(r)
<1>1. CallsOf[r] = << IfNoTelephone(TelOf[r.owner]), InsertUser(r.owner) >> /\ r.owner \in Users
  BY RegisterCalls DEF Register
<1>2. Fits(r, IfNoTelephone(TelOf[r.owner])) /\ Fits(r, InsertUser(r.owner))  BY <1>1, RegisterFits
<1> QED  BY <1>1, <1>2 DEF AllFit

LEMMA UpdateUserAllFit ==
  ASSUME NEW r \in Requests, r.op = "UpdateUserInfo"
  PROVE  AllFit(r)
<1>0. r.op \in UserOps  BY DEF UserOps
<1>1. CallsOf[r] = << FirstUser(r.owner, UserSts), SaveUser(r.owner, "same", 0) >>
  BY <1>0, UserCalls DEF UpdateUserInfo
<1>2. r.owner \in Users /\ Subjects(r) = {r.owner}  BY <1>0, UserArguments
<1>3. Fits(r, FirstUser(r.owner, UserSts)) /\ Fits(r, SaveUser(r.owner, "same", 0))
  BY <1>0, <1>2, FirstUserFits, SaveUserFits
<1> QED  BY <1>1, <1>3 DEF AllFit

LEMMA CreateAllFit ==
  ASSUME NEW r \in Requests, r.op = "CreateGroup"
  PROVE  AllFit(r)
<1>1. /\ CallsOf[r] = << InsertGroup(r.contact), Insert("contact", r.owner, r.contact, "NORMAL"),
                         Forget("contact_mygroup_list_", r.owner) >>
      /\ r.contact \in Groups /\ r.owner \in Users
  BY CreateGroupCalls DEF CreateGroup
<1>2. r.op \in RosterOps /\ r.op \notin Lists  BY DEF RosterOps, Lists
<1>3. GroupTopic(r, r.contact) /\ RowTopic(r, "contact", r.owner, r.contact)
  BY <1>1, <1>2, GroupNamed, TablesAre
<1>4. Fits(r, InsertGroup(r.contact))  BY <1>3, InsertGroupFits
<1>5. Fits(r, Insert("contact", r.owner, r.contact, "NORMAL"))  BY <1>3, InsertFits, StatusesAre
<1>6. Fits(r, Forget("contact_mygroup_list_", r.owner))  BY <1>2, ForgetFits
<1> QED  BY <1>1, <1>4, <1>5, <1>6 DEF AllFit

LEMMA LeaveAllFit ==
  ASSUME NEW r \in Requests, r.op = "LeaveGroup"
  PROVE  AllFit(r)
<1>1. /\ CallsOf[r] = << FirstGroup(r.contact, GroupSts), SaveGroup("leave", r.owner),
                         Hide("session", r.owner, r.contact),
                         Delete("contact", r.owner, r.contact, {"QUIT_GROUP"}),
                         Hide("apply", r.owner, r.contact),
                         Forget("group_session_list_", r.owner), Forget("my_joined_group_list_ ", r.owner) >>
      /\ r.owner \in Users /\ r.contact \in Groups
  BY LeaveGroupCalls DEF LeaveGroup
<1>2. r.op \in RosterOps /\ r.op \notin Lists  BY DEF RosterOps, Lists
<1>3. GroupTopic(r, r.contact) /\ \A t \in Tables : RowTopic(r, t, r.owner, r.contact)
  BY <1>1, <1>2, GroupNamed
<1>4. Fits(r, FirstGroup(r.contact, GroupSts))  BY <1>1, <1>3, FirstGroupFits
<1>5. Fits(r, SaveGroup("leave", r.owner))  BY <1>1, SaveGroupFits
<1>6. Fits(r, Hide("session", r.owner, r.contact)) /\ Fits(r, Hide("apply", r.owner, r.contact))
  BY <1>3, TablesAre, HideFits
<1>7. Fits(r, Delete("contact", r.owner, r.contact, {"QUIT_GROUP"}))  BY <1>3, TablesAre, StatusesAre, DeleteFits
<1>8. Fits(r, Forget("group_session_list_", r.owner)) /\ Fits(r, Forget("my_joined_group_list_ ", r.owner))
  BY <1>2, ForgetFits
<1> DEFINE c == r.contact
           first == FirstGroup(c, GroupSts)
           save == SaveGroup("leave", r.owner)
           hide(t) == Hide(t, r.owner, c)
           delete == Delete("contact", r.owner, c, {"QUIT_GROUP"})
           f1 == Forget("group_session_list_", r.owner)
           f2 == Forget("my_joined_group_list_ ", r.owner)
<1>9. CallsOf[r] = << first, save, hide("session"), delete, hide("apply"), f1, f2 >>  BY <1>1
<1>10. Fits(r, first) /\ Fits(r, save) /\ Fits(r, hide("session")) /\ Fits(r, delete) /\ Fits(r, hide("apply"))
       /\ Fits(r, f1) /\ Fits(r, f2)
  BY <1>4, <1>5, <1>6, <1>7, <1>8
<1> HIDE DEF first, save, hide, delete, f1, f2
<1> QED  BY <1>9, <1>10 DEF AllFit

\* The calls that take a group away.
LEMMA HideGroupFits ==
  ASSUME NEW r, r.op \in {"DismissGroup", "DeleteGroups"}, NEW g, GroupTopic(r, g),
         \A u \in Users : \A t \in Tables : RowTopic(r, t, u, g)
  PROVE  /\ Fits(r, UpdateGroup(g, "deleted_at"))
         /\ \A t \in Tables : Fits(r, Find(t, Users, g)) /\ Fits(r, EachFound(t, "hide"))
<1>1. Fits(r, UpdateGroup(g, "deleted_at"))  BY UpdateGroupFits
<1>2. ASSUME NEW t \in Tables  PROVE Fits(r, Find(t, Users, g)) /\ Fits(r, EachFound(t, "hide"))
  <2>1. \A u \in Users : RowTopic(r, t, u, g)  OBVIOUS
  <2>2. Fits(r, Find(t, Users, g))  BY <2>1, FindFits
  <2>3. Fits(r, EachFound(t, "hide"))  BY EachFoundFits
  <2> QED  BY <2>2, <2>3
<1> QED  BY <1>1, <1>2, Zenon

LEMMA DismissAllFit ==
  ASSUME NEW r \in Requests, r.op = "DismissGroup"
  PROVE  AllFit(r)
<1>1. /\ r.contact \in Groups /\ r.owner \in Users
      /\ CallsOf[r] =
           << UpdateGroup(r.contact, "deleted_at"),
              Find("session", Users, r.contact), EachFound("session", "hide"),
              Find("contact", Users, r.contact), EachFound("contact", "hide"),
              Find("apply", Users, r.contact), EachFound("apply", "hide"),
              Forget("contact_mygroup_list_", r.owner), Forget("group_session_list_", r.owner),
              ForgetAll("my_joined_group_list_") >>
  BY DismissGroupCalls
<1>2. r.op \in RosterOps /\ r.op \notin Lists  BY DEF RosterOps, Lists
<1>3. GroupTopic(r, r.contact) /\ \A u \in Users : \A t \in Tables : RowTopic(r, t, u, r.contact)
  BY <1>1, <1>2, GroupNamed
<1>4. /\ Fits(r, UpdateGroup(r.contact, "deleted_at"))
      /\ \A t \in Tables : Fits(r, Find(t, Users, r.contact)) /\ Fits(r, EachFound(t, "hide"))
  BY <1>3, HideGroupFits
<1>5. /\ Fits(r, Forget("contact_mygroup_list_", r.owner)) /\ Fits(r, Forget("group_session_list_", r.owner))
      /\ Fits(r, ForgetAll("my_joined_group_list_"))
  BY <1>2, ForgetFits
<1> QED  BY <1>1, <1>4, <1>5, TablesAre DEF AllFit

LEMMA EnterAllFit ==
  ASSUME NEW r \in Requests, r.op = "EnterGroupDirectly"
  PROVE  AllFit(r)
<1>1. /\ CallsOf[r] = << FirstGroup(r.owner, GroupSts), SaveGroup("enter", r.contact),
                         Insert("contact", r.contact, r.owner, "NORMAL"),
                         Forget("group_session_list_", r.owner), Forget("my_joined_group_list_", r.owner) >>
      /\ r.owner \in Groups /\ r.contact \in Users
  BY EnterGroupCalls DEF EnterGroupDirectly
<1>2. r.op \in RosterOps /\ r.op \notin Lists  BY DEF RosterOps, Lists
<1>3. GroupTopic(r, r.owner) /\ \A t \in Tables : RowTopic(r, t, r.contact, r.owner)
  BY <1>1, <1>2, GroupNamed
<1>4. Fits(r, FirstGroup(r.owner, GroupSts))  BY <1>1, <1>3, FirstGroupFits
<1>5. Fits(r, SaveGroup("enter", r.contact))  BY <1>1, SaveGroupFits
<1>6. Fits(r, Insert("contact", r.contact, r.owner, "NORMAL"))  BY <1>3, InsertFits, StatusesAre, TablesAre
<1>7. Fits(r, Forget("group_session_list_", r.owner)) /\ Fits(r, Forget("my_joined_group_list_", r.owner))
  BY <1>2, ForgetFits
<1> QED  BY <1>1, <1>4, <1>5, <1>6, <1>7 DEF AllFit

LEMMA UpdateGroupInfoAllFit ==
  ASSUME NEW r \in Requests, r.op = "UpdateGroupInfo"
  PROVE  AllFit(r)
<1>1. /\ CallsOf[r] = << FirstGroup(r.contact, GroupSts), SaveGroup("same", OwnerOf[r.contact]),
                         Find("session", Users, r.contact), EachFound("session", "save") >>
      /\ r.contact \in Groups /\ OwnerOf[r.contact] \in Users
  BY UpdateGroupInfoCalls, MembershipAssumption DEF UpdateGroupInfo
<1>2. r.op \in RosterOps  BY DEF RosterOps
<1>3. GroupTopic(r, r.contact) /\ \A u \in Users : RowTopic(r, "session", u, r.contact)
  BY <1>1, <1>2, GroupNamed, TablesAre
<1>4. Fits(r, FirstGroup(r.contact, GroupSts))  BY <1>1, <1>3, FirstGroupFits
<1>5. Fits(r, SaveGroup("same", OwnerOf[r.contact]))  BY <1>1, SaveGroupFits
<1>6. Fits(r, Find("session", Users, r.contact))  BY <1>3, FindFits, TablesAre
<1>7. Fits(r, EachFound("session", "save"))  BY EachFoundFits, TablesAre
<1> QED  BY <1>1, <1>4, <1>5, <1>6, <1>7 DEF AllFit

LEMMA ApplyAllFit ==
  ASSUME NEW r \in Requests, r.op = "ApplyContact"
  PROVE  AllFit(r)
<1>0. r.owner \in Users /\ r.contact \in Users \cup Groups /\ CallsOf[r] = ApplyContact(r.owner, r.contact)
  BY ApplyContactCalls
<1>2. r.op \in RosterOps /\ r.op \in PairOps /\ r.op \notin Lists  BY DEF RosterOps, PairOps, Lists
<1>3. RowTopic(r, "apply", r.owner, r.contact)
  <2>1. CASE r.contact \in Users  BY <1>0, <1>2, <2>1, PairRows, TablesAre
  <2>2. CASE r.contact \in Groups  BY <1>0, <1>2, <2>2, GroupNamed, TablesAre
  <2> QED  BY <1>0, <2>1, <2>2
<1>4. \A among : Fits(r, FirstOr("apply", r.owner, r.contact, among))  BY <1>3, FirstOrFits
<1>5. Fits(r, Insert("apply", r.owner, r.contact, "PENDING"))  BY <1>3, InsertFits, StatusesAre
<1>6. Fits(r, Save("apply", {"PENDING"})) /\ Fits(r, Save("apply", {}))  BY SaveFits, StatusesAre, TablesAre
<1>7. CASE r.contact \in Users
  <2>1. CallsOf[r] = << FirstUser(r.contact, {"NORMAL"}), FirstOr("apply", r.owner, r.contact, ApplySts \ {"BLACK"}),
                        Insert("apply", r.owner, r.contact, "PENDING"), Save("apply", {"PENDING"}) >>
    BY <1>0, <1>7 DEF ApplyContact
  <2>2. Fits(r, FirstUser(r.contact, {"NORMAL"}))  BY <1>7, FirstUserFits
  <2> QED  BY <2>1, <2>2, <1>4, <1>5, <1>6 DEF AllFit
<1>8. CASE r.contact \notin Users
  <2>1. CallsOf[r] = << FirstGroup(r.contact, {"NORMAL"}), FirstOr("apply", r.owner, r.contact, ApplySts),
                        Insert("apply", r.owner, r.contact, "PENDING"), Save("apply", {}) >>
    BY <1>0, <1>8 DEF ApplyContact
  <2>2. r.contact \in Groups /\ GroupTopic(r, r.contact)  BY <1>0, <1>2, <1>8, GroupNamed
  <2>3. Fits(r, FirstGroup(r.contact, {"NORMAL"}))  BY <2>2, FirstGroupFits
  <2> QED  BY <2>1, <2>3, <1>4, <1>5, <1>6 DEF AllFit
<1> QED  BY <1>7, <1>8

\* The application a request answers.
LEMMA AnswerTopic ==
  ASSUME NEW r \in Requests, r.op \in {"PassContactApply", "RefuseContactApply", "BlackApply"},
         r.contact \in Users, r.owner \in Users \cup Groups
  PROVE  /\ \A t \in Tables : RowTopic(r, t, r.contact, r.owner)
         /\ r.owner \in Users => \A t \in Tables : RowTopic(r, t, r.owner, r.contact)
         /\ r.owner \in Groups => GroupTopic(r, r.owner)
<1>1. r.op \in RosterOps /\ r.op \in PairOps  BY DEF RosterOps, PairOps
<1>2. CASE r.owner \in Users  
  <2>1. r.owner \notin Groups  BY <1>2, MembershipAssumption
  <2> QED  BY <1>1, <1>2, <2>1, PairRows
<1>3. CASE r.owner \in Groups
  <2>1. r.owner \notin Users  BY <1>3, MembershipAssumption
  <2> QED  BY <1>1, <1>3, <2>1, GroupNamed
<1> QED  BY <1>2, <1>3

LEMMA PassAllFit ==
  ASSUME NEW r \in Requests, r.op = "PassContactApply"
  PROVE  AllFit(r)
<1>0. /\ r.contact \in Users /\ r.owner \in Users \cup Groups
      /\ r.owner \in Users => CallsOf[r] = PassToUser(r.owner, r.contact)
      /\ r.owner \notin Users => CallsOf[r] = PassToGroup(r.owner, r.contact)
  BY PassApplyCalls
<1>2. r.op \notin Lists  BY DEF Lists
<1>3. /\ \A t \in Tables : RowTopic(r, t, r.contact, r.owner)
      /\ r.owner \in Users => \A t \in Tables : RowTopic(r, t, r.owner, r.contact)
      /\ r.owner \in Groups => GroupTopic(r, r.owner)
  BY <1>0, AnswerTopic
<1>4. Fits(r, First("apply", r.contact, r.owner, ApplySts))  BY <1>3, FirstFits, TablesAre
<1>5. Fits(r, Save("apply", {"AGREE"}))  BY SaveFits, StatusesAre, TablesAre
<1>6. Fits(r, Insert("contact", r.contact, r.owner, "NORMAL"))  BY <1>3, InsertFits, StatusesAre, TablesAre
<1>7. \A list : Fits(r, Forget(list, r.owner))  BY <1>2, ForgetFits
<1>8. CASE r.owner \in Users
  <2>1. CallsOf[r] = << First("apply", r.contact, r.owner, ApplySts), FindUser(r.contact, {"NORMAL"}),
                        Save("apply", {"AGREE"}),
                        Insert("contact", r.owner, r.contact, "NORMAL"), Insert("contact", r.contact, r.owner, "NORMAL"),
                        Forget("contact_user_list_", r.owner) >>
    BY <1>0, <1>8 DEF PassToUser
  <2>2. Fits(r, FindUser(r.contact, {"NORMAL"}))  BY <1>0, FindUserFits
  <2>3. Fits(r, Insert("contact", r.owner, r.contact, "NORMAL"))
    BY <1>3, <1>8, InsertFits, StatusesAre, TablesAre
  <2> QED  BY <2>1, <2>2, <2>3, <1>4, <1>5, <1>6, <1>7 DEF AllFit
<1>9. CASE r.owner \notin Users
  <2>1. CallsOf[r] = << First("apply", r.contact, r.owner, ApplySts), FindGroup(r.owner, {"NORMAL"}),
                        Save("apply", {"AGREE"}),
                        Insert("contact", r.contact, r.owner, "NORMAL"), SaveGroup("pass", r.contact),
                        Forget("my_joined_group_list_", r.owner) >>
    BY <1>0, <1>9 DEF PassToGroup
  <2>2. GroupTopic(r, r.owner)  BY <1>0, <1>3, <1>9
  <2>3. Fits(r, FindGroup(r.owner, {"NORMAL"}))  BY <2>2, FindGroupFits
  <2>4. Fits(r, SaveGroup("pass", r.contact))  BY <1>0, SaveGroupFits
  <2> QED  BY <2>1, <2>3, <2>4, <1>4, <1>5, <1>6, <1>7 DEF AllFit
<1> QED  BY <1>8, <1>9

LEMMA AnswerAllFit ==
  ASSUME NEW r \in Requests, r.op \in {"RefuseContactApply", "BlackApply"}
  PROVE  AllFit(r)
<1>1. r.contact \in Users /\ r.owner \in Users \cup Groups  BY RefuseApplyCalls, BlackApplyCalls
<1>2. RowTopic(r, "apply", r.contact, r.owner)  BY <1>1, AnswerTopic, TablesAre
<1>3. Fits(r, First("apply", r.contact, r.owner, ApplySts))  BY <1>2, FirstFits
<1>4. Fits(r, Save("apply", {"REFUSE"})) /\ Fits(r, Save("apply", {"BLACK"}))
  <2>1. \A st : NewStatus(st) => Fits(r, Save("apply", st))  BY SaveFits, TablesAre
  <2> QED  BY <2>1, StatusesAre
<1>5. CASE r.op = "RefuseContactApply"
  <2>1. CallsOf[r] = << First("apply", r.contact, r.owner, ApplySts), Save("apply", {"REFUSE"}) >>
    BY <1>5, RefuseApplyCalls DEF RefuseContactApply
  <2> QED  BY <2>1, <1>3, <1>4 DEF AllFit
<1>6. CASE r.op = "BlackApply"
  <2>1. CallsOf[r] = << First("apply", r.contact, r.owner, ApplySts), Save("apply", {"BLACK"}) >>
    BY <1>6, BlackApplyCalls DEF BlackApply
  <2> QED  BY <2>1, <1>3, <1>4 DEF AllFit
<1> QED  BY <1>5, <1>6

LEMMA ContactAllFit ==
  ASSUME NEW r \in Requests, r.op \in {"BlackContact", "CancelBlackContact", "DeleteContact"}
  PROVE  AllFit(r)
<1>1. /\ r.op = "BlackContact" => CallsOf[r] = BlackContact(r.owner, r.contact)
      /\ r.op = "CancelBlackContact" => CallsOf[r] = CancelBlackContact(r.owner, r.contact)
      /\ r.op = "DeleteContact" => CallsOf[r] = DeleteContact(r.owner, r.contact)
      /\ r.owner \in Users /\ r.contact \in Users
  BY ContactCalls
<1>2. r.op \in PairOps /\ r.op \notin Lists  BY DEF RosterOps, PairOps, Lists
<1>3. \A t \in Tables : RowTopic(r, t, r.owner, r.contact) /\ RowTopic(r, t, r.contact, r.owner)
  BY <1>1, <1>2, PairRows
<1>4. CASE r.op = "BlackContact"
  <2>1. CallsOf[r] = << Update("contact", r.owner, r.contact, "BLACK"), Update("contact", r.contact, r.owner, "BE_BLACK"),
                        Hide("session", r.owner, r.contact) >>
    BY <1>1, <1>4 DEF BlackContact
  <2>2. /\ Fits(r, Update("contact", r.owner, r.contact, "BLACK"))
        /\ Fits(r, Update("contact", r.contact, r.owner, "BE_BLACK"))
    BY <1>3, <1>4, UpdateFits, StatusesAre, TablesAre
  <2>3. Fits(r, Hide("session", r.owner, r.contact))  BY <1>3, <1>4, HideFits, TablesAre
  <2> QED  BY <2>1, <2>2, <2>3 DEF AllFit
<1>5. CASE r.op = "CancelBlackContact"
  <2>1. CallsOf[r] = << First("contact", r.owner, r.contact, {"BLACK"}), First("contact", r.contact, r.owner, {"BE_BLACK"}),
                        Save("contact", {"NORMAL"}), Save("contact", {"NORMAL"}) >>
    BY <1>1, <1>5 DEF CancelBlackContact
  <2>2. /\ Fits(r, First("contact", r.owner, r.contact, {"BLACK"}))
        /\ Fits(r, First("contact", r.contact, r.owner, {"BE_BLACK"}))
    BY <1>3, <1>5, FirstFits, TablesAre
  <2>3. Fits(r, Save("contact", {"NORMAL"}))  BY <1>5, SaveFits, StatusesAre, TablesAre
  <2> QED  BY <2>1, <2>2, <2>3 DEF AllFit
<1>6. CASE r.op = "DeleteContact"
  <2>1. CallsOf[r] = << Delete("contact", r.owner, r.contact, {"DELETE"}),
                        Delete("contact", r.contact, r.owner, {"BE_DELETE"}),
                        Hide("session", r.owner, r.contact), Hide("session", r.contact, r.owner),
                        Hide("apply", r.contact, r.owner), Hide("apply", r.owner, r.contact),
                        Forget("contact_user_list_", r.owner) >>
    BY <1>1, <1>6 DEF DeleteContact
  <2>2. /\ Fits(r, Delete("contact", r.owner, r.contact, {"DELETE"}))
        /\ Fits(r, Delete("contact", r.contact, r.owner, {"BE_DELETE"}))
    BY <1>3, <1>6, DeleteFits, StatusesAre, TablesAre
  <2>3. /\ Fits(r, Hide("session", r.owner, r.contact)) /\ Fits(r, Hide("session", r.contact, r.owner))
        /\ Fits(r, Hide("apply", r.owner, r.contact)) /\ Fits(r, Hide("apply", r.contact, r.owner))
    BY <1>3, <1>6, HideFits, TablesAre
  <2>4. Fits(r, Forget("contact_user_list_", r.owner))  BY <1>2, ForgetFits
  <2> QED  BY <2>1, <2>2, <2>3, <2>4 DEF AllFit
<1> QED  BY <1>4, <1>5, <1>6

LEMMA SessionAllFit ==
  ASSUME NEW r \in Requests, r.op \in {"OpenSession", "DeleteSession"}
  PROVE  AllFit(r)
<1>1. r.owner \in Users /\ r.contact \in Users \cup Groups  BY OpenSessionCalls, DeleteSessionCalls
<1>2. r.op \notin Lists  BY DEF Lists
<1>3. RowTopic(r, "session", r.owner, r.contact)  BY <1>1, TalkRows
<1>4. \A list : Fits(r, Forget(list, r.owner))  BY <1>2, ForgetFits
<1>5. CASE r.op = "OpenSession"
  <2> DEFINE called == IF r.contact \in Users THEN FirstUser(r.contact, {"NORMAL"}) ELSE FirstGroup(r.contact, {"NORMAL"})
  <2>1. CallsOf[r] =
              << IfNone("session", r.owner, r.contact), FirstUser(r.owner, UserSts), called,
                 Insert("session", r.owner, r.contact, "OPEN"),
                 Forget("group_session_list_", r.owner), Forget("session_list_", r.owner) >>
    BY <1>5, OpenSessionCalls
  <2>2. Fits(r, IfNone("session", r.owner, r.contact))  BY <1>3, <1>5, IfNoneFits
  <2>3. Fits(r, FirstUser(r.owner, UserSts))  BY <1>1, <1>5, FirstUserFits
  <2>4. Fits(r, called)
    <3>1. r.contact \in Users => Fits(r, FirstUser(r.contact, {"NORMAL"}))  BY <1>5, FirstUserFits
    <3>2. r.contact \in Groups => Fits(r, FirstGroup(r.contact, {"NORMAL"}))  BY <1>5, FirstGroupFits
    <3> QED  BY <1>1, <3>1, <3>2
  <2>5. Fits(r, Insert("session", r.owner, r.contact, "OPEN"))  BY <1>3, <1>5, InsertFits, StatusesAre
  <2> HIDE DEF called
  <2> QED  BY <2>1, <2>2, <2>3, <2>4, <2>5, <1>4 DEF AllFit
<1>6. CASE r.op = "DeleteSession"
  <2>1. CallsOf[r] = << Find("session", {r.owner}, r.contact), EachFound("session", "hide"),
                        Forget("group_session_list_", r.owner), Forget("session_list_", r.owner) >>
    BY <1>6, DeleteSessionCalls DEF DeleteSession
  <2>2. \A u \in {r.owner} : RowTopic(r, "session", u, r.contact)  BY <1>3
  <2>3. Fits(r, Find("session", {r.owner}, r.contact))  BY <1>6, <2>2, FindFits, TablesAre
  <2>4. Fits(r, EachFound("session", "hide"))  BY <1>6, EachFoundFits, TablesAre
  <2> QED  BY <2>1, <2>3, <2>4, <1>4 DEF AllFit
<1> QED  BY <1>5, <1>6

LEMMA ThreeFit ==
  ASSUME NEW r, NEW a, NEW b, NEW c, CallsOf[r] = << a, b, c >>, Fits(r, a), Fits(r, b), Fits(r, c)
  PROVE  AllFit(r)
BY DEF AllFit

LEMMA FourFit ==
  ASSUME NEW r, NEW a, NEW b, NEW c, NEW d, CallsOf[r] = << a, b, c, d >>,
         Fits(r, a), Fits(r, b), Fits(r, c), Fits(r, d)
  PROVE  AllFit(r)
BY DEF AllFit

LEMMA ListAllFit ==
  ASSUME NEW r \in Requests, r.op \in Lists
  PROVE  AllFit(r)
<1>1. /\ r.owner \in Users /\ r.op # "my_joined_group_list_ "
      /\ r.op = "my_joined_group_list_" =>
              CallsOf[r] = << Get(r.op, r.owner), Query(r.op, r.owner), EachGroup, SetEx(r.op, r.owner) >>
      /\ r.op = "contact_user_list_" =>
              CallsOf[r] = << Get(r.op, r.owner), Query(r.op, r.owner), EachUser, SetEx(r.op, r.owner) >>
      /\ r.op \notin {"my_joined_group_list_", "contact_user_list_"} =>
              CallsOf[r] = << Get(r.op, r.owner), Query(r.op, r.owner), SetEx(r.op, r.owner) >>
  BY ListHandlerCalls
<1>2. /\ Fits(r, Get(r.op, r.owner)) /\ Fits(r, Query(r.op, r.owner)) /\ Fits(r, SetEx(r.op, r.owner))
      /\ r.op # "contact_mygroup_list_" => Fits(r, EachGroup) /\ Fits(r, EachUser)
  BY <1>1, ListFits
<1> DEFINE get == Get(r.op, r.owner)
           query == Query(r.op, r.owner)
           set == SetEx(r.op, r.owner)
           group == EachGroup
           user == EachUser
           short == r.op \notin {"my_joined_group_list_", "contact_user_list_"}
<1>3. /\ r.op = "my_joined_group_list_" => CallsOf[r] = << get, query, group, set >>
      /\ r.op = "contact_user_list_" => CallsOf[r] = << get, query, user, set >>
      /\ short => CallsOf[r] = << get, query, set >>
  BY <1>1
<1>4. /\ Fits(r, get) /\ Fits(r, query) /\ Fits(r, set)
      /\ r.op # "contact_mygroup_list_" => Fits(r, group) /\ Fits(r, user)
  BY <1>2
<1>5. r.op = "my_joined_group_list_" \/ r.op = "contact_user_list_" \/ short  OBVIOUS
<1> HIDE DEF get, query, set, group, user
<1>6. CASE r.op = "my_joined_group_list_"
  <2>1. CallsOf[r] = << get, query, group, set >>  BY <1>3, <1>6
  <2>2. Fits(r, group)  BY <1>4, <1>6
  <2> QED  BY <1>4, <2>1, <2>2, FourFit
<1>7. CASE r.op = "contact_user_list_"
  <2>1. CallsOf[r] = << get, query, user, set >>  BY <1>3, <1>7
  <2>2. Fits(r, user)  BY <1>4, <1>7
  <2> QED  BY <1>4, <2>1, <2>2, FourFit
<1>8. CASE short
  <2>1. CallsOf[r] = << get, query, set >>  BY <1>3, <1>8
  <2> QED  BY <1>4, <2>1, ThreeFit
<1> QED  BY <1>5, <1>6, <1>7, <1>8

LEMMA CopiedCall ==
  ASSUME NEW q, NEW t, Len(t) \in Nat, NEW p \in Int, Copied(q, t, p)
  PROVE  \E k \in 1..Len(t) : q[p] = t[k]
<1>1. PICK b \in Nat : /\ p - b \in 1..Len(t)
                      /\ b + Len(t) <= Len(q)
                      /\ \A k \in 1..Len(t) : q[b + k] = t[k]
  BY Zenon DEF Copied
<1>2. b + (p - b) = p  OBVIOUS
<1>3. q[b + (p - b)] = t[p - b]  BY <1>1
<1>4. q[p] = t[p - b]  BY <1>2, <1>3
<1> QED  BY <1>1, <1>4

\* What the calls of a block fit, the copies fit.
BlockFits(r, t) == Len(t) \in Nat /\ \A k \in 1..Len(t) : Fits(r, t[k])

LEMMA CopiedFits ==
  ASSUME NEW r, NEW t, BlockFits(r, t), NEW p \in Int, Copied(CallsOf[r], t, p)
  PROVE  Fits(r, CallsOf[r][p])
<1>1. \E k \in 1..Len(t) : CallsOf[r][p] = t[k]  BY CopiedCall DEF BlockFits
<1> QED  BY <1>1 DEF BlockFits

LEMMA OneBlock ==
  ASSUME NEW r, NEW a, Fits(r, a)
  PROVE  BlockFits(r, << a >>)
BY DEF BlockFits

LEMMA ThreeBlock ==
  ASSUME NEW r, NEW a, NEW b, NEW c, Fits(r, a), Fits(r, b), Fits(r, c)
  PROVE  BlockFits(r, << a, b, c >>)
BY DEF BlockFits

LEMMA FourBlock ==
  ASSUME NEW r, NEW a, NEW b, NEW c, NEW d, Fits(r, a), Fits(r, b), Fits(r, c), Fits(r, d)
  PROVE  BlockFits(r, << a, b, c, d >>)
BY DEF BlockFits

LEMMA SevenBlock ==
  ASSUME NEW r, NEW a, NEW b, NEW c, NEW d, NEW e, NEW f, NEW g,
         Fits(r, a), Fits(r, b), Fits(r, c), Fits(r, d), Fits(r, e), Fits(r, f), Fits(r, g)
  PROVE  BlockFits(r, << a, b, c, d, e, f, g >>)
BY DEF BlockFits

LEMMA UserBlockFits ==
  ASSUME NEW r \in Requests, r.op \in UserOps \ {"UpdateUserInfo"}, NEW u \in Subjects(r), u \in Users
  PROVE  BlockFits(r, UserBlock(r.op, u))
<1>0. r.op \in UserOps  OBVIOUS
<1>1. CASE r.op = "AbleUsers"
  <2>1. Fits(r, SaveUser(u, "able", 0))  BY <1>1, <1>0, SaveUserFits
  <2>2. UserBlock(r.op, u) = << SaveUser(u, "able", 0) >>  BY <1>1 DEF UserBlock
  <2> QED  BY <2>1, <2>2, OneBlock
<1>2. CASE r.op = "SetAdmin"
  <2>1. Fits(r, SaveUser(u, "same", 0))  BY <1>2, <1>0, SaveUserFits
  <2>2. UserBlock(r.op, u) = << SaveUser(u, "same", 0) >>  BY <1>2 DEF UserBlock
  <2> QED  BY <2>1, <2>2, OneBlock
<1>3. CASE r.op = "DisableUsers"
  <2>1. Fits(r, SaveUser(u, "disable", 2))  BY <1>3, <1>0, SaveUserFits
  <2>2. UserBlock(r.op, u) = << SaveUser(u, "disable", 2), FindEither("session", u), EachFound("session", "hide") >>
    BY <1>3 DEF UserBlock
  <2>3. EitherTopic(r, "session", u)  BY <1>0, AccountRows
  <2>4. Fits(r, FindEither("session", u))  BY <1>3, <2>3, FindEitherFits, TablesAre
  <2>5. Fits(r, EachFound("session", "hide"))  BY <1>3, EachFoundFits, TablesAre
  <2> QED  BY <2>1, <2>2, <2>4, <2>5, ThreeBlock
<1>4. CASE r.op = "DeleteUsers"
  <2> DEFINE find(t) == FindEither(t, u)
             each(t) == EachFound(t, "hide")
             save == SaveUser(u, "delete", 6)
  <2>1. Fits(r, save)  BY <1>4, <1>0, SaveUserFits
  <2>2. UserBlock(r.op, u) = << save, find("session"), each("session"), find("contact"), each("contact"),
                                find("apply"), each("apply") >>
    BY <1>4 DEF UserBlock
  <2>3. ASSUME NEW t \in Tables  PROVE Fits(r, find(t)) /\ Fits(r, each(t))
    <3>1. EitherTopic(r, t, u)  BY <1>4, DeletionRows
    <3>2. Fits(r, FindEither(t, u))  BY <1>4, <3>1, FindEitherFits
    <3>3. Fits(r, EachFound(t, "hide"))  BY <1>4, EachFoundFits
    <3> QED  BY <3>2, <3>3
  <2> HIDE DEF find, each, save
  <2>4. /\ Fits(r, find("session")) /\ Fits(r, each("session")) /\ Fits(r, find("contact")) /\ Fits(r, each("contact"))
        /\ Fits(r, find("apply")) /\ Fits(r, each("apply"))
    BY <2>3, TablesAre
  <2> QED  BY <2>1, <2>2, <2>4, SevenBlock
<1> QED  BY <1>1, <1>2, <1>3, <1>4 DEF UserOps

LEMMA UsersAllFit ==
  ASSUME NEW r \in Requests, r.op \in UserOps \ {"UpdateUserInfo"}
  PROVE  AllFit(r)
<1>0. r.op \in UserOps /\ r.op # "UpdateUserInfo"  OBVIOUS
<1>1. /\ Len(CallsOf[r]) \in Nat /\ Len(CallsOf[r]) >= 1
      /\ CallsOf[r][1] = FindUsers(r.uuids) \/ CallsOf[r][1] = FindUsers(<<>>)
      /\ \A p \in 2..Len(CallsOf[r]) : \E u \in Subjects(r) : Copied(CallsOf[r], UserBlock(r.op, u), p)
  BY <1>0, UserCalls
<1>2. Subjects(r) \subseteq Users /\ Subjects(r) = ToSet(r.uuids)  BY <1>0, UserArguments
<1>3. Fits(r, CallsOf[r][1])
  <2>1. ToSet(<<>>) \subseteq Subjects(r)  BY DEF ToSet
  <2>2. ToSet(r.uuids) \subseteq Subjects(r)  BY <1>2
  <2>3. Fits(r, FindUsers(r.uuids)) /\ Fits(r, FindUsers(<<>>))  BY <1>0, <2>1, <2>2, FindUsersFits
  <2> QED  BY <1>1, <2>3
<1>4. ASSUME NEW p \in 2..Len(CallsOf[r])  PROVE Fits(r, CallsOf[r][p])
  <2>1. PICK u \in Subjects(r) : Copied(CallsOf[r], UserBlock(r.op, u), p)  BY <1>1
  <2>2. BlockFits(r, UserBlock(r.op, u))  BY <1>2, UserBlockFits
  <2>3. p \in Int  BY <1>1
  <2> QED  BY <2>1, <2>2, <2>3, CopiedFits
<1>5. ASSUME NEW p \in 1..Len(CallsOf[r])  PROVE Fits(r, CallsOf[r][p])
  <2>1. p = 1 \/ p \in 2..Len(CallsOf[r])  BY <1>1
  <2> QED  BY <1>3, <1>4, <2>1
<1> QED  BY <1>1, <1>5 DEF AllFit

LEMMA GroupBlockFits ==
  ASSUME NEW r \in Requests, NEW g \in ToSet(r.uuids) \cap Groups
  PROVE  /\ r.op = "DeleteGroups" => BlockFits(r, HideGroup(g))
         /\ r.op = "SetGroupsStatus" => BlockFits(r, StatusBlock(g, r.status))
<1>1. ASSUME r.op \in RosterOps  PROVE GroupTopic(r, g) /\ \A u \in Users : \A t \in Tables : RowTopic(r, t, u, g)
  <2>1. g \in Groups /\ g \in ToSet(r.uuids)  OBVIOUS
  <2> QED  BY <1>1, <2>1, GroupNamed
<1>2. ASSUME r.op = "DeleteGroups"  PROVE BlockFits(r, HideGroup(g))
  <2>1. r.op \in RosterOps /\ r.op \in {"DismissGroup", "DeleteGroups"}  BY <1>2 DEF RosterOps
  <2> DEFINE find(t) == Find(t, Users, g)
             each(t) == EachFound(t, "hide")
             update == UpdateGroup(g, "deleted_at")
  <2>2. HideGroup(g) = << update, find("session"), each("session"), find("contact"), each("contact"),
                          find("apply"), each("apply") >>
    BY DEF HideGroup
  <2>3. Fits(r, update) /\ \A t \in Tables : Fits(r, find(t)) /\ Fits(r, each(t))
    BY <1>1, <2>1, HideGroupFits
  <2> HIDE DEF find, each, update
  <2>4. /\ Fits(r, find("session")) /\ Fits(r, each("session")) /\ Fits(r, find("contact")) /\ Fits(r, each("contact"))
        /\ Fits(r, find("apply")) /\ Fits(r, each("apply"))
    BY <2>3, TablesAre
  <2> QED  BY <2>2, <2>3, <2>4, SevenBlock
<1>3. ASSUME r.op = "SetGroupsStatus"  PROVE BlockFits(r, StatusBlock(g, r.status))
  <2>0. r.op \in RosterOps  BY <1>3 DEF RosterOps
  <2>1. r.status \in GroupSts  BY RequestOK DEF Request
  <2>2. GroupTopic(r, g) /\ \A u \in Users : RowTopic(r, "session", u, g)  BY <1>1, <2>0, TablesAre
  <2>3. Fits(r, UpdateGroup(g, r.status))  BY <1>3, <2>1, <2>2, UpdateGroupFits
  <2>4. Fits(r, Find("session", Users, g))  BY <1>3, <2>2, FindFits, TablesAre
  <2>5. Fits(r, EachFound("session", "hide"))  BY <1>3, EachFoundFits, TablesAre
  <2>6. CASE r.status = "DISABLE"
    <3>1. StatusBlock(g, r.status) = << UpdateGroup(g, r.status), Find("session", Users, g), EachFound("session", "hide") >>
      BY <2>6 DEF StatusBlock
    <3> QED  BY <3>1, <2>3, <2>4, <2>5, ThreeBlock
  <2>7. CASE r.status # "DISABLE"
    <3>1. StatusBlock(g, r.status) = << UpdateGroup(g, r.status) >>
      BY <2>7 DEF StatusBlock
    <3> QED  BY <3>1, <2>3, OneBlock
  <2> QED  BY <2>6, <2>7
<1> QED  BY <1>2, <1>3

LEMMA SetGroupsAllFit ==
  ASSUME NEW r \in Requests, r.op = "SetGroupsStatus"
  PROVE  AllFit(r)
<1>1. SetGroupsList(r)  BY SetGroupsStatusCalls
<1>2. Len(CallsOf[r]) \in Nat /\ Len(CallsOf[r]) >= 1  BY <1>1 DEF SetGroupsList
<1>3. ASSUME NEW p \in 1..Len(CallsOf[r])  PROVE Fits(r, CallsOf[r][p])
  <2>1. PICK g \in ToSet(r.uuids) \cap Groups : Copied(CallsOf[r], StatusBlock(g, r.status), p)
    BY <1>1 DEF SetGroupsList
  <2>2. BlockFits(r, StatusBlock(g, r.status))  BY GroupBlockFits
  <2>3. p \in Int  BY <1>2
  <2> QED  BY <2>1, <2>2, <2>3, CopiedFits
<1> QED  BY <1>2, <1>3 DEF AllFit

LEMMA DeleteGroupsAllFit ==
  ASSUME NEW r \in Requests, r.op = "DeleteGroups"
  PROVE  AllFit(r)
<1>1. PICK n : DeleteGroupsList(r, n)  BY DeleteGroupsCalls
<1>2. n \in Nat /\ Len(CallsOf[r]) = n + 2  BY <1>1 DEF DeleteGroupsList
<1>3. ASSUME NEW p \in 1..n  PROVE Fits(r, CallsOf[r][p])
  <2>1. PICK g \in ToSet(r.uuids) \cap Groups : Copied(CallsOf[r], HideGroup(g), p)
    BY <1>1 DEF DeleteGroupsList
  <2>2. BlockFits(r, HideGroup(g))  BY GroupBlockFits
  <2>3. p \in Int  BY <1>2
  <2> QED  BY <2>1, <2>2, <2>3, CopiedFits
<1>4. Fits(r, CallsOf[r][n + 1]) /\ Fits(r, CallsOf[r][n + 2])
  <2>1. r.op \notin Lists  BY DEF Lists
  <2> QED  BY <1>1, <2>1, ForgetFits DEF DeleteGroupsList
<1>5. ASSUME NEW p \in 1..Len(CallsOf[r])  PROVE Fits(r, CallsOf[r][p])
  <2>1. p \in 1..n \/ p = n + 1 \/ p = n + 2  BY <1>2
  <2> QED  BY <1>3, <1>4, <2>1
<1> QED  BY <1>2, <1>5 DEF AllFit

LEMMA RemoveAllFit ==
  ASSUME NEW r \in Requests, r.op = "RemoveGroupMembers"
  PROVE  AllFit(r)
<1>1. PICK n : RemoveList(r, n)  BY RemoveCalls
<1>2. r.contact \in Groups /\ r.owner \in Users  BY RemoveCalls
<1>3. r.op \in RosterOps /\ r.op \notin Lists  BY DEF RosterOps, Lists
<1>4. GroupTopic(r, r.contact) /\ \A u \in Users : \A t \in Tables : RowTopic(r, t, u, r.contact)
  BY <1>2, <1>3, GroupNamed
<1>5. n \in Nat /\ n >= 1 /\ (Len(CallsOf[r]) = n \/ Len(CallsOf[r]) = n + 3)  BY <1>1 DEF RemoveList
<1>6. Fits(r, CallsOf[r][1])
  <2>1. CallsOf[r][1] = FirstGroup(r.contact, GroupSts)  BY <1>1 DEF RemoveList
  <2> QED  BY <2>1, <1>2, <1>4, FirstGroupFits
<1>7. ASSUME NEW p \in 2..n  PROVE Fits(r, CallsOf[r][p])
  <2>1. PICK u \in ToSet(r.uuids) \cap Users : Copied(CallsOf[r], StrikeBlock(r.contact, u), p)
    BY <1>1 DEF RemoveList
  <2>2. Fits(r, Strike(u))  BY StrikeFits
  <2>3. \A t \in Tables : RowTopic(r, t, u, r.contact)  BY <1>4
  <2>4. \A t \in Tables : Fits(r, Hide(t, u, r.contact))  BY <2>3, HideFits
  <2>5. StrikeBlock(r.contact, u) = << Strike(u), Hide("session", u, r.contact), Hide("contact", u, r.contact),
                                       Hide("apply", u, r.contact) >>
    BY DEF StrikeBlock
  <2>6. BlockFits(r, StrikeBlock(r.contact, u))  BY <2>2, <2>4, <2>5, FourBlock, TablesAre
  <2>7. p \in Int  BY <1>5
  <2> QED  BY <2>1, <2>6, <2>7, CopiedFits
<1>8. Len(CallsOf[r]) = n + 3 => Fits(r, CallsOf[r][n + 1]) /\ Fits(r, CallsOf[r][n + 2]) /\ Fits(r, CallsOf[r][n + 3])
  <2>1. Len(CallsOf[r]) = n + 3 =>
          /\ CallsOf[r][n + 1] = SaveGroup("same", r.owner)
          /\ CallsOf[r][n + 2] = ForgetAll("group_session_list_")
          /\ CallsOf[r][n + 3] = ForgetAll("my_joined_group_list_")
    BY <1>1, <1>5 DEF RemoveList
  <2>2. Fits(r, SaveGroup("same", r.owner))  BY <1>2, SaveGroupFits
  <2>3. Fits(r, ForgetAll("group_session_list_")) /\ Fits(r, ForgetAll("my_joined_group_list_"))  BY <1>3, ForgetFits
  <2> QED  BY <2>1, <2>2, <2>3
<1>9. ASSUME NEW p \in 1..Len(CallsOf[r])  PROVE Fits(r, CallsOf[r][p])
  <2>1. p = 1 \/ p \in 2..n \/ (Len(CallsOf[r]) = n + 3 /\ (p = n + 1 \/ p = n + 2 \/ p = n + 3))  BY <1>5
  <2> QED  BY <1>6, <1>7, <1>8, <2>1
<1>10. Len(CallsOf[r]) \in Nat /\ Len(CallsOf[r]) >= 1  BY <1>5
<1> QED  BY <1>9, <1>10 DEF AllFit
-----------------------------------------------------------------------------
\* Every call of every request is one of those the services make.
LEMMA EveryCallFits ==
  ASSUME NEW r \in Requests
  PROVE  AllFit(r)
<1>1. \/ r.op \in {"Register", "UpdateUserInfo"}
      \/ r.op \in Lists
      \/ r.op \in UserOps \ {"UpdateUserInfo"}
      \/ r.op \in {"DeleteGroups", "SetGroupsStatus", "CreateGroup", "DismissGroup", "LeaveGroup", "UpdateGroupInfo",
                   "RemoveGroupMembers", "EnterGroupDirectly", "ApplyContact", "OpenSession", "DeleteSession",
                   "PassContactApply", "RefuseContactApply", "BlackApply", "BlackContact", "CancelBlackContact",
                   "DeleteContact"}
  BY RequestOK DEF WellFormed, UserOps
<1>2. CASE r.op \in {"Register", "UpdateUserInfo"}  BY <1>2, RegisterAllFit, UpdateUserAllFit
<1>3. CASE r.op \in Lists  BY <1>3, ListAllFit
<1>4. CASE r.op \in UserOps \ {"UpdateUserInfo"}  BY <1>4, UsersAllFit
<1>5. CASE r.op \in {"DeleteGroups", "SetGroupsStatus", "CreateGroup", "DismissGroup", "LeaveGroup", "UpdateGroupInfo"}
  BY <1>5, DeleteGroupsAllFit, SetGroupsAllFit, CreateAllFit, DismissAllFit, LeaveAllFit, UpdateGroupInfoAllFit
<1>6. CASE r.op \in {"RemoveGroupMembers", "EnterGroupDirectly", "ApplyContact", "OpenSession", "DeleteSession"}
  BY <1>6, RemoveAllFit, EnterAllFit, ApplyAllFit, SessionAllFit
<1>7. CASE r.op \in {"PassContactApply", "RefuseContactApply", "BlackApply", "BlackContact", "CancelBlackContact",
                     "DeleteContact"}
  BY <1>7, PassAllFit, AnswerAllFit, ContactAllFit
<1> QED  BY <1>1, <1>2, <1>3, <1>4, <1>5, <1>6, <1>7

\* The rows that a handler works through are those of the call before.
Looks(a, b) == a.do \in {"Find", "FindEither"} /\ a.table = b.table
Ordered(t) ==
  /\ Len(t) \in Nat
  /\ \A k \in 1..Len(t) : t[k].do = "EachFound" => k >= 2 /\ Looks(t[k - 1], t[k])
Plain(c) == c.do # "EachFound"

LEMMA CopiedOrdered ==
  ASSUME NEW q, NEW t, Ordered(t), NEW p \in Int, Copied(q, t, p), q[p].do = "EachFound"
  PROVE  p >= 2 /\ Looks(q[p - 1], q[p])
<1>0. Len(t) \in Nat  BY DEF Ordered
<1>1. PICK b \in Nat : /\ p - b \in 1..Len(t)
                      /\ b + Len(t) <= Len(q)
                      /\ \A k \in 1..Len(t) : q[b + k] = t[k]
  BY Zenon DEF Copied
<1> DEFINE k == p - b
<1>2. k \in 1..Len(t) /\ k \in Int /\ b + k = p /\ b + (k - 1) = p - 1  BY <1>1
<1> HIDE DEF k
<1>3. q[p] = t[k]  BY <1>1, <1>2
<1>4. k >= 2 /\ Looks(t[k - 1], t[k])  BY <1>2, <1>3 DEF Ordered
<1>5. k - 1 \in 1..Len(t)  BY <1>0, <1>2, <1>4
<1>6. q[p - 1] = t[k - 1]  BY <1>1, <1>2, <1>5
<1>7. p >= 2  BY <1>1, <1>2, <1>4
<1> QED  BY <1>3, <1>4, <1>6, <1>7

LEMMA PlainOrdered ==
  ASSUME NEW t, Len(t) \in Nat, \A k \in 1..Len(t) : Plain(t[k])
  PROVE  Ordered(t)
BY DEF Ordered, Plain

LEMMA OneOrdered ==
  ASSUME NEW a, Plain(a)
  PROVE  Ordered(<< a >>)
BY DEF Ordered, Plain

LEMMA ThreeOrdered ==
  ASSUME NEW a, NEW b, NEW c, Plain(a), Plain(b), Looks(b, c)
  PROVE  Ordered(<< a, b, c >>)
BY DEF Ordered, Plain

LEMMA FourOrdered ==
  ASSUME NEW a, NEW b, NEW c, NEW d, Plain(a), Looks(a, b), Plain(c), Plain(d)
  PROVE  Ordered(<< a, b, c, d >>)
BY DEF Ordered, Plain

LEMMA LastOrdered ==
  ASSUME NEW a, NEW b, NEW c, NEW d, Plain(a), Plain(b), Plain(c), Looks(c, d)
  PROVE  Ordered(<< a, b, c, d >>)
BY DEF Ordered, Plain

LEMMA SevenOrdered ==
  ASSUME NEW a, NEW b, NEW c, NEW d, NEW e, NEW f, NEW g,
         Plain(a), Plain(b), Looks(b, c), Plain(d), Looks(d, e), Plain(f), Looks(f, g)
  PROVE  Ordered(<< a, b, c, d, e, f, g >>)
BY DEF Ordered, Plain

LEMMA TenOrdered ==
  ASSUME NEW a, NEW b, NEW c, NEW d, NEW e, NEW f, NEW g, NEW h, NEW i, NEW j,
         Plain(a), Plain(b), Looks(b, c), Plain(d), Looks(d, e), Plain(f), Looks(f, g), Plain(h), Plain(i), Plain(j)
  PROVE  Ordered(<< a, b, c, d, e, f, g, h, i, j >>)
BY DEF Ordered, Plain

LEMMA FindsLook ==
  /\ \A t, u, x, how : Looks(Find(t, u, x), EachFound(t, how)) /\ Plain(Find(t, u, x))
  /\ \A t, u, how : Looks(FindEither(t, u), EachFound(t, how)) /\ Plain(FindEither(t, u))
  /\ \A u, how, n : Plain(SaveUser(u, how, n))
  /\ \A g, field : Plain(UpdateGroup(g, field)) /\ Plain(FirstGroup(g, field)) /\ Plain(SaveGroup(g, field))
  /\ \A list, u : Plain(Forget(list, u)) /\ Plain(ForgetAll(list))
BY DEF Looks, Plain, Find, FindEither, EachFound, SaveUser, UpdateGroup, FirstGroup, SaveGroup, Forget, ForgetAll

LEMMA BlocksOrdered ==
  ASSUME NEW g
  PROVE  /\ Ordered(HideGroup(g)) /\ \A st : Ordered(StatusBlock(g, st))
         /\ Ordered(UserBlock("DisableUsers", g)) /\ Ordered(UserBlock("DeleteUsers", g))
<1>1. Ordered(HideGroup(g))
  <2> DEFINE a == UpdateGroup(g, "deleted_at")
             b(t) == Find(t, Users, g)
             c(t) == EachFound(t, "hide")
  <2>1. HideGroup(g) = << a, b("session"), c("session"), b("contact"), c("contact"), b("apply"), c("apply") >>
    BY DEF HideGroup
  <2>2. Plain(a) /\ \A t : Plain(b(t)) /\ Looks(b(t), c(t))  BY FindsLook
  <2> HIDE DEF a, b, c
  <2> QED  BY <2>1, <2>2, SevenOrdered
<1>2. ASSUME NEW st  PROVE Ordered(StatusBlock(g, st))
  <2> DEFINE a == UpdateGroup(g, st)
             b == Find("session", Users, g)
             c == EachFound("session", "hide")
  <2>1. StatusBlock(g, st) = << a, b, c >> \/ StatusBlock(g, st) = << a >>  BY DEF StatusBlock
  <2>2. Plain(a) /\ Plain(b) /\ Looks(b, c)  BY FindsLook
  <2> HIDE DEF a, b, c
  <2> QED  BY <2>1, <2>2, OneOrdered, ThreeOrdered
<1>3. Ordered(UserBlock("DisableUsers", g))
  <2> DEFINE a == SaveUser(g, "disable", 2)
             b == FindEither("session", g)
             c == EachFound("session", "hide")
  <2>1. UserBlock("DisableUsers", g) = << a, b, c >>  BY DEF UserBlock
  <2>2. Plain(a) /\ Plain(b) /\ Looks(b, c)  BY FindsLook
  <2> HIDE DEF a, b, c
  <2> QED  BY <2>1, <2>2, ThreeOrdered
<1>4. Ordered(UserBlock("DeleteUsers", g))
  <2> DEFINE a == SaveUser(g, "delete", 6)
             b(t) == FindEither(t, g)
             c(t) == EachFound(t, "hide")
  <2>1. UserBlock("DeleteUsers", g)
          = << a, b("session"), c("session"), b("contact"), c("contact"), b("apply"), c("apply") >>
    BY DEF UserBlock
  <2>2. Plain(a) /\ \A t : Plain(b(t)) /\ Looks(b(t), c(t))  BY FindsLook
  <2> HIDE DEF a, b, c
  <2> QED  BY <2>1, <2>2, SevenOrdered
<1> QED  BY <1>1, <1>2, <1>3, <1>4

LEMMA EveryListOrdered ==
  ASSUME NEW r \in Requests
  PROVE  Ordered(CallsOf[r])
<1>0. AllFit(r) /\ Len(CallsOf[r]) \in Nat  BY EveryCallFits DEF AllFit
<1> DEFINE finders == {"DismissGroup", "DeleteGroups", "SetGroupsStatus", "UpdateGroupInfo", "DeleteSession",
                       "DisableUsers", "DeleteUsers"}
<1>1. CASE r.op \notin finders
  <2>1. \A p \in 1..Len(CallsOf[r]) : Plain(CallsOf[r][p])  BY <1>0, <1>1 DEF AllFit, Fits, RowCall, Plain
  <2> QED  BY <1>0, <2>1, PlainOrdered
<1>2. CASE r.op = "DismissGroup"
  <2> DEFINE a == UpdateGroup(r.contact, "deleted_at")
             b(t) == Find(t, Users, r.contact)
             c(t) == EachFound(t, "hide")
             h == Forget("contact_mygroup_list_", r.owner)
             i == Forget("group_session_list_", r.owner)
             j == ForgetAll("my_joined_group_list_")
  <2>1. CallsOf[r] = << a, b("session"), c("session"), b("contact"), c("contact"), b("apply"), c("apply"), h, i, j >>
    BY <1>2, DismissGroupCalls
  <2>2. Plain(a) /\ Plain(h) /\ Plain(i) /\ Plain(j) /\ \A t : Plain(b(t)) /\ Looks(b(t), c(t))  BY FindsLook
  <2> HIDE DEF a, b, c, h, i, j
  <2> QED  BY <2>1, <2>2, TenOrdered
<1>3. CASE r.op = "UpdateGroupInfo"
  <2> DEFINE a == FirstGroup(r.contact, GroupSts)
             b == SaveGroup("same", OwnerOf[r.contact])
             c == Find("session", Users, r.contact)
             d == EachFound("session", "save")
  <2>1. CallsOf[r] = << a, b, c, d >>  BY <1>3, UpdateGroupInfoCalls DEF UpdateGroupInfo
  <2>2. Plain(a) /\ Plain(b) /\ Plain(c) /\ Looks(c, d)  BY FindsLook
  <2> HIDE DEF a, b, c, d
  <2> QED  BY <2>1, <2>2, LastOrdered
<1>4. CASE r.op = "DeleteSession"
  <2> DEFINE a == Find("session", {r.owner}, r.contact)
             b == EachFound("session", "hide")
             c == Forget("group_session_list_", r.owner)
             d == Forget("session_list_", r.owner)
  <2>1. CallsOf[r] = << a, b, c, d >>  BY <1>4, DeleteSessionCalls DEF DeleteSession
  <2>2. Plain(a) /\ Plain(c) /\ Plain(d) /\ Looks(a, b)  BY FindsLook
  <2> HIDE DEF a, b, c, d
  <2> QED  BY <2>1, <2>2, FourOrdered
<1>5. CASE r.op \in {"DisableUsers", "DeleteUsers"}
  <2>1. r.op \in UserOps /\ r.op # "UpdateUserInfo"  BY <1>5 DEF UserOps
  <2>2. /\ CallsOf[r][1] = FindUsers(r.uuids) \/ r.op = "SetAdmin"
        /\ \A p \in 2..Len(CallsOf[r]) : \E u \in Subjects(r) : Copied(CallsOf[r], UserBlock(r.op, u), p)
    BY <2>1, UserCalls
  <2>3. CallsOf[r][1].do # "EachFound"  BY <1>5, <2>2 DEF FindUsers
  <2>4. ASSUME NEW p \in 1..Len(CallsOf[r]), CallsOf[r][p].do = "EachFound"
        PROVE  p >= 2 /\ Looks(CallsOf[r][p - 1], CallsOf[r][p])
    <3>1. p \in 2..Len(CallsOf[r]) /\ p \in Int  BY <1>0, <2>3, <2>4
    <3>2. PICK u \in Subjects(r) : Copied(CallsOf[r], UserBlock(r.op, u), p)  BY <2>2, <3>1
    <3>3. Ordered(UserBlock(r.op, u))  BY <1>5, BlocksOrdered
    <3> QED  BY <2>4, <3>1, <3>2, <3>3, CopiedOrdered
  <2> QED  BY <1>0, <2>4 DEF Ordered
<1>6. CASE r.op = "SetGroupsStatus"
  <2>1. SetGroupsList(r)  BY <1>6, SetGroupsStatusCalls
  <2>2. ASSUME NEW p \in 1..Len(CallsOf[r]), CallsOf[r][p].do = "EachFound"
        PROVE  p >= 2 /\ Looks(CallsOf[r][p - 1], CallsOf[r][p])
    <3>1. p \in Int  BY <1>0
    <3>2. PICK g : Copied(CallsOf[r], StatusBlock(g, r.status), p)  BY <2>1 DEF SetGroupsList
    <3>3. Ordered(StatusBlock(g, r.status))  BY BlocksOrdered
    <3> QED  BY <2>2, <3>1, <3>2, <3>3, CopiedOrdered
  <2> QED  BY <1>0, <2>2 DEF Ordered
<1>7. CASE r.op = "DeleteGroups"
  <2>1. PICK n : DeleteGroupsList(r, n)  BY <1>7, DeleteGroupsCalls
  <2>2. n \in Nat /\ Len(CallsOf[r]) = n + 2  BY <2>1 DEF DeleteGroupsList
  <2>3. Plain(CallsOf[r][n + 1]) /\ Plain(CallsOf[r][n + 2])  BY <2>1, FindsLook DEF DeleteGroupsList
  <2>4. ASSUME NEW p \in 1..Len(CallsOf[r]), CallsOf[r][p].do = "EachFound"
        PROVE  p >= 2 /\ Looks(CallsOf[r][p - 1], CallsOf[r][p])
    <3>1. p \in 1..n /\ p \in Int  
      <4>1. p # n + 1 /\ p # n + 2  BY <2>3, <2>4 DEF Plain
      <4> QED  BY <2>2, <4>1
    <3>2. PICK g : Copied(CallsOf[r], HideGroup(g), p)  BY <2>1, <3>1 DEF DeleteGroupsList
    <3>3. Ordered(HideGroup(g))  BY BlocksOrdered
    <3> QED  BY <2>4, <3>1, <3>2, <3>3, CopiedOrdered
  <2> QED  BY <1>0, <2>4 DEF Ordered
<1> QED  BY <1>1, <1>2, <1>3, <1>4, <1>5, <1>6, <1>7

\* Skipping the rest of a user does not lead to rows that were never looked for.
LEMMA SkippedUser ==
  ASSUME NEW r \in Requests, NEW p \in 1..Len(CallsOf[r]), CallsOf[r][p].do = "SaveUser",
         NEW q, q = p + CallsOf[r][p].rest + 1
  PROVE  q \in Nat /\ q > p /\ (q <= Len(CallsOf[r]) => CallsOf[r][q].do # "EachFound")
<1>0. AllFit(r) /\ Len(CallsOf[r]) \in Nat /\ Ordered(CallsOf[r])  BY EveryCallFits, EveryListOrdered DEF AllFit
<1>1. Fits(r, CallsOf[r][p])  BY <1>0 DEF AllFit
<1>2. r.op \in UserOps /\ CallsOf[r][p].rest \in Nat  BY <1>1 DEF Fits, UserCall
<1>3. q \in Nat /\ q > p  BY <1>0, <1>2
<1>4. CASE r.op \notin {"DisableUsers", "DeleteUsers"}
  <2> SUFFICES ASSUME q <= Len(CallsOf[r])  PROVE CallsOf[r][q].do # "EachFound"
    BY <1>3
  <2>1. q \in 1..Len(CallsOf[r])  BY <1>0, <1>3
  <2>2. Fits(r, CallsOf[r][q])  BY <1>0, <2>1 DEF AllFit
  <2> QED  BY <1>2, <1>4, <2>2 DEF Fits, RowCall, UserOps
<1>5. CASE r.op \in {"DisableUsers", "DeleteUsers"}
  <2>1. r.op # "UpdateUserInfo" /\ r.op # "SetAdmin"  BY <1>5
  <2>2. /\ CallsOf[r][1] = FindUsers(r.uuids)
        /\ \A k \in 2..Len(CallsOf[r]) : \E u \in Subjects(r) : Copied(CallsOf[r], UserBlock(r.op, u), k)
    BY <1>2, <2>1, UserCalls
  <2>3. p \in 2..Len(CallsOf[r]) /\ p \in Int
    <3>1. p # 1  BY <2>2 DEF FindUsers
    <3> QED  BY <1>0, <3>1
  <2>4. PICK u \in Subjects(r) : Copied(CallsOf[r], UserBlock(r.op, u), p)  BY <2>2, <2>3
  <2> DEFINE t == UserBlock(r.op, u)
             c == CallsOf[r]
  <2>5. PICK b \in Nat : p - b \in 1..Len(t) /\ b + Len(t) <= Len(c) /\ \A k \in 1..Len(t) : c[b + k] = t[k]
    BY <2>4, Zenon DEF Copied
  <2>6. /\ Len(t) = 3 \/ Len(t) = 7
        /\ t[1].do = "SaveUser" /\ t[1].rest = Len(t) - 1
        /\ \A k \in 2..Len(t) : t[k].do # "SaveUser"
        /\ t[Len(t)].do = "EachFound"
    <3>1. CASE r.op = "DisableUsers"
      <4>1. t = << SaveUser(u, "disable", 2), FindEither("session", u), EachFound("session", "hide") >>
        BY <3>1 DEF UserBlock
      <4> HIDE DEF t
      <4> QED  BY <4>1 DEF SaveUser, FindEither, EachFound
    <3>2. CASE r.op = "DeleteUsers"
      <4>1. t = << SaveUser(u, "delete", 6),
                   FindEither("session", u), EachFound("session", "hide"),
                   FindEither("contact", u), EachFound("contact", "hide"),
                   FindEither("apply", u), EachFound("apply", "hide") >>
        BY <3>2 DEF UserBlock
      <4> HIDE DEF t
      <4> QED  BY <4>1 DEF SaveUser, FindEither, EachFound
    <3> QED  BY <1>5, <3>1, <3>2
  <2> HIDE DEF t, c
  <2>7. p - b = 1
    <3> DEFINE k == p - b
    <3>1. b + k = p /\ k \in 1..Len(t)  BY <2>3, <2>5
    <3> HIDE DEF k
    <3>2. c[p] = t[k]  BY <2>5, <3>1
    <3>3. t[k].do = "SaveUser"  BY <3>2 DEF c
    <3>4. k = 1  BY <2>6, <3>1, <3>3
    <3> QED  BY <3>4 DEF k
  <2>8. c[p] = t[1] /\ c[q - 1] = t[Len(t)]
    <3>1. b + 1 = p /\ 1 \in 1..Len(t) /\ Len(t) \in 1..Len(t)  BY <2>3, <2>6, <2>7
    <3>2. c[p] = t[1]  BY <2>5, <3>1
    <3>3. c[p].rest = Len(t) - 1  BY <2>6, <3>2
    <3>4. q = (p + (Len(t) - 1)) + 1  BY <3>3 DEF c
    <3>6. q - 1 = b + Len(t)
      <4>1. Len(t) \in Int /\ p \in Int /\ b \in Int /\ b + 1 = p  BY <2>3, <2>5, <2>6, <3>1
      <4> QED  BY <3>4, <4>1
    <3>5. c[q - 1] = t[Len(t)]  BY <2>5, <3>1, <3>6
    <3> QED  BY <3>2, <3>5
  <2>9. c[q - 1].do = "EachFound"  BY <2>6, <2>8
  <2>10. ASSUME q <= Len(c), c[q].do = "EachFound"  PROVE FALSE
    <3>1. q \in 1..Len(c)  BY <1>0, <1>3, <2>10 DEF c
    <3>2. Looks(c[q - 1], c[q])  BY <1>0, <2>10, <3>1 DEF Ordered, c
    <3> QED  BY <2>9, <3>2 DEF Looks
  <2> QED  BY <1>3, <2>10 DEF c
<1> QED  BY <1>4, <1>5

\* The array that RemoveGroupMembers works on: the names other than u stay in it.
Struck(x, members, u) ==
  /\ DOMAIN x = {"array", "len", "ok"}
  /\ x.array \in [1..Len(members) -> Users]
  /\ x.len \in 0..Len(members)
  /\ x.ok \in BOOLEAN
  /\ \A v \in Users \ {u} : Contains(members, v) => \E k \in 1..x.len : x.array[k] = v

LEMMA StrikeAtOnce ==
  ASSUME NEW members \in Seq(Users), NEW u, NEW x, Struck(x, members, u), NEW i \in 1..Len(members)
  PROVE  Struck(StrikeAt(x, u, i), members, u)
<1>0. Len(members) \in Nat  BY LenProperties
<1>1. CASE ~x.ok \/ x.array[i] # u  BY <1>1 DEF StrikeAt
<1>2. CASE ~(~x.ok \/ x.array[i] # u) /\ i > x.len
  <2>1. StrikeAt(x, u, i) = [x EXCEPT !.ok = FALSE]  BY <1>2 DEF StrikeAt
  <2> QED  BY <2>1 DEF Struck
<1>3. CASE ~(~x.ok \/ x.array[i] # u) /\ ~(i > x.len)
  <2> DEFINE a == [k \in DOMAIN x.array |-> IF k \in i..(x.len - 1) THEN x.array[k + 1] ELSE x.array[k]]
             y == StrikeAt(x, u, i)
  <2>1. y = [x EXCEPT !.len = @ - 1, !.array = a]  BY <1>3 DEF StrikeAt
  <2>2. x.len \in Nat /\ x.len <= Len(members) /\ i <= x.len /\ i >= 1 /\ i \in Int
        /\ x.array[i] = u /\ DOMAIN x.array = 1..Len(members)
    BY <1>0, <1>3 DEF Struck
  <2>3. \A k \in 1..Len(members) : a[k] = IF k \in i..(x.len - 1) THEN x.array[k + 1] ELSE x.array[k]
    BY <2>2
  <2>4. DOMAIN a = 1..Len(members) /\ a = [k \in 1..Len(members) |-> a[k]]  BY <2>2
  <2> HIDE DEF a, y
  <2>5. \A k \in 1..Len(members) : a[k] \in Users
    <3> TAKE k \in 1..Len(members)
    <3>1. CASE k \in i..(x.len - 1)
      <4>1. k + 1 \in 1..Len(members)  BY <2>2, <3>1
      <4> QED  BY <2>3, <3>1, <4>1 DEF Struck
    <3>2. CASE k \notin i..(x.len - 1)  BY <2>3, <3>2 DEF Struck
    <3> QED  BY <3>1, <3>2
  <2>6. a \in [1..Len(members) -> Users]  BY <2>4, <2>5
  <2>7. /\ DOMAIN y = {"array", "len", "ok"} /\ y.array = a /\ y.len = x.len - 1 /\ y.ok = x.ok
    BY <2>1 DEF Struck
  <2>8. y.len \in 0..Len(members)  BY <1>0, <2>2, <2>7
  <2>9. ASSUME NEW v \in Users \ {u}, Contains(members, v)  PROVE \E k \in 1..y.len : y.array[k] = v
    <3>1. PICK k \in 1..x.len : x.array[k] = v  BY <2>9 DEF Struck
    <3>2. k # i /\ k \in 1..Len(members)  BY <2>2, <3>1
    <3>3. CASE k < i
      <4>1. k \in 1..(x.len - 1) /\ k \notin i..(x.len - 1)  BY <2>2, <3>2, <3>3
      <4>2. a[k] = v  BY <2>3, <3>1, <3>2, <4>1
      <4> QED  BY <2>7, <4>1, <4>2
    <3>4. CASE k > i
      <4>1. k - 1 \in 1..(x.len - 1) /\ k - 1 \in i..(x.len - 1) /\ (k - 1) + 1 = k /\ k - 1 \in 1..Len(members)
        BY <2>2, <3>2, <3>4
      <4>2. a[k - 1] = x.array[(k - 1) + 1]  BY <2>3, <4>1
      <4>3. a[k - 1] = v  BY <3>1, <4>1, <4>2
      <4> QED  BY <2>7, <4>1, <4>3
    <3> QED  BY <2>2, <3>2, <3>3, <3>4
  <2>10. x.ok \in BOOLEAN  BY DEF Struck
  <2>11. Struck(y, members, u)  BY <2>6, <2>7, <2>8, <2>9, <2>10 DEF Struck
  <2> QED  BY <2>11 DEF y
<1> QED  BY <1>1, <1>2, <1>3

\* Whatever is struck, the result is a list that has all the other names.
LEMMA StrikeOutKeeps ==
  ASSUME NEW members \in Seq(Users), NEW u
  PROVE  /\ StrikeOut(members, u).members \in Seq(Users)
         /\ \A v \in Users \ {u} : Contains(members, v) => Contains(StrikeOut(members, u).members, v)
<1> DEFINE n == Len(members)
           start == [array |-> members, len |-> n, ok |-> TRUE]
           Right(f) == f = [i \in 0..n |-> IF i = 0 THEN start ELSE StrikeAt(f[i - 1], u, i)]
           after == CHOOSE f : Right(f)
           out == StrikeOut(members, u)
<1>0. n \in Nat /\ members \in [1..n -> Users]  BY LenProperties
<1>1. out = [ok |-> after[n].ok, members |-> SubSeq(after[n].array, 1, after[n].len)]
  BY Zenon DEF StrikeOut
<1>2. Struck(start, members, u)
  <2>1. \A v : Contains(members, v) => \E k \in 1..n : members[k] = v  BY DEF Contains
  <2> QED  BY <1>0, <2>1 DEF Struck
<1> HIDE DEF start
<1>3. \E f : Right(f)
  <2> DEFINE S == {x \in [array : [1..n -> Users], len : 0..n, ok : BOOLEAN] : Struck(x, members, u)}
             F == [i \in Nat |-> [x \in S |-> IF i \in 1..n THEN StrikeAt(x, u, i) ELSE x]]
  <2>1. \A x : Struck(x, members, u) /\ x = [array |-> x.array, len |-> x.len, ok |-> x.ok] => x \in S
    BY DEF Struck
  <2>2. \A x \in S : Struck(x, members, u) /\ x \in [array : [1..n -> Users], len : 0..n, ok : BOOLEAN]  OBVIOUS
  <2>3. ASSUME NEW i \in 1..n, NEW x \in S  PROVE StrikeAt(x, u, i) \in S
    <3>1. Struck(StrikeAt(x, u, i), members, u)  BY <2>2, StrikeAtOnce
    <3> DEFINE y == StrikeAt(x, u, i)
    <3>2. y = [array |-> y.array, len |-> y.len, ok |-> y.ok]
      <4>1. x = [array |-> x.array, len |-> x.len, ok |-> x.ok]  BY <2>2
      <4>2. \/ y = x \/ y = [x EXCEPT !.ok = FALSE] \/ \E l, a : y = [x EXCEPT !.len = l, !.array = a]
        BY Zenon DEF StrikeAt
      <4> HIDE DEF y
      <4> QED  BY <4>1, <4>2
    <3> QED  BY <2>1, <3>1, <3>2
  <2>4. F \in [Nat -> [S -> S]]
    <3>1. \A i \in Nat, x \in S : (IF i \in 1..n THEN StrikeAt(x, u, i) ELSE x) \in S  BY <2>3
    <3> HIDE DEF S
    <3> QED  BY <3>1
  <2>5. start \in S
    <3>1. start = [array |-> start.array, len |-> start.len, ok |-> start.ok]  BY DEF start
    <3> QED  BY <1>2, <2>1, <3>1
  <2>6. \A i \in 1..n, x \in S : F[i][x] = StrikeAt(x, u, i)
    <3> HIDE DEF S
    <3> QED  BY <1>0
  <2> HIDE DEF F, S
  <2>7. PICK f : Runs(f, S, start, F, n)  BY <1>0, <2>4, <2>5, RecursionExists
  <2>8. f \in [0..n -> S] /\ f[0] = start /\ \A i \in 1..n : f[i] = F[i][f[i - 1]]  BY <2>7 DEF Runs
  <2>9. ASSUME NEW i \in 0..n  PROVE f[i] = IF i = 0 THEN start ELSE StrikeAt(f[i - 1], u, i)
    <3>1. CASE i = 0  BY <2>8, <3>1
    <3>2. CASE i # 0
      <4>1. i \in 1..n /\ i - 1 \in 0..n  BY <1>0, <3>2
      <4>2. f[i - 1] \in S  BY <2>8, <4>1
      <4> QED  BY <2>6, <2>8, <3>2, <4>1, <4>2
    <3> QED  BY <3>1, <3>2
  <2> DEFINE e == [i \in 0..n |-> IF i = 0 THEN start ELSE StrikeAt(f[i - 1], u, i)]
  <2>10. \A i \in 0..n : f[i] = e[i]  BY <2>9
  <2>11. DOMAIN f = 0..n /\ DOMAIN e = 0..n /\ f = [i \in 0..n |-> f[i]] /\ e = [i \in 0..n |-> e[i]]  BY <2>8
  <2>12. [i \in 0..n |-> f[i]] = [i \in 0..n |-> e[i]]  BY <2>10
  <2>13. f = e  BY <2>11, <2>12, Zenon
  <2> QED  BY <2>13, Zenon
<1>4. Right(after)  BY <1>3
<1> HIDE DEF after
<1>5. \A i \in 0..n : after[i] = IF i = 0 THEN start ELSE StrikeAt(after[i - 1], u, i)  BY <1>4
<1> HIDE DEF Right
<1> DEFINE J == {i \in 0..n : Struck(after[i], members, u)}
<1>6. 0 \in J
  <2>1. 0 \in 0..n  BY <1>0
  <2>2. after[0] = start  BY <1>5, <2>1
  <2> QED  BY <1>2, <2>1, <2>2
<1>7. ASSUME NEW i \in 1..n, i - 1 \in J  PROVE i \in J
  <2>1. i \in 0..n /\ i # 0  BY <1>0
  <2>2. after[i] = StrikeAt(after[i - 1], u, i)  BY <1>5, <2>1
  <2>3. Struck(after[i - 1], members, u)  BY <1>7
  <2> QED  BY <2>1, <2>2, <2>3, StrikeAtOnce
<1>8. 0..n \subseteq J
  <2> HIDE DEF J
  <2> QED  BY <1>0, <1>6, <1>7, ClimbTo
<1>9. Struck(after[n], members, u)  BY <1>0, <1>8
<1> DEFINE a == after[n].array
           l == after[n].len
           q == SubSeq(a, 1, l)
<1>10. a \in [1..n -> Users] /\ l \in 0..n /\ out.members = q
       /\ \A v \in Users \ {u} : Contains(members, v) => \E k \in 1..l : a[k] = v
  BY <1>1, <1>9 DEF Struck
<1> HIDE DEF a, l, out, after
<1>11. a \in Seq(Users) /\ Len(a) = n  BY <1>0, <1>10
<1>12. CASE l = 0
  <2>1. q = <<>>  BY <1>11, <1>12, SubSeqProperties
  <2>2. 1..l = {}  BY <1>12
  <2> HIDE DEF q
  <2> QED  BY <1>10, <2>1, <2>2 DEF out
<1>13. CASE l # 0
  <2>0. l \in 1..n /\ n \in Nat  BY <1>0, <1>10, <1>13
  <2>1. q \in Seq(Users) /\ Len(q) = l /\ \A i \in 1..l : q[i] = a[1 + i - 1]  BY <2>0, <1>11, SubSeqProperties
  <2>2. \A i \in 1..l : q[i] = a[i]
    <3> TAKE i \in 1..l
    <3>1. 1 + i - 1 = i  BY <2>0
    <3> QED  BY <2>1, <3>1
  <2> HIDE DEF q
  <2>3. \A v \in Users \ {u} : Contains(members, v) => Contains(q, v)  BY <1>10, <2>1, <2>2 DEF Contains
  <2> QED  BY <1>10, <2>1, <2>3 DEF out
<1> QED  BY <1>12, <1>13

-----------------------------------------------------------------------------
(* Where a handler is, and what it holds there. *)

\* The requests that write back a row they have looked up or put in.
Answers == {"PassContactApply", "RefuseContactApply", "BlackApply", "ApplyContact", "CancelBlackContact"}

\* n rows, of the table t.
AllOf(held, n, t) == Len(held) = n /\ \A k \in 1..Len(held) : held[k].table = t

\* What such a request holds before its p-th call.
HoldsOK(op, p, held) ==
  /\ op \in {"RefuseContactApply", "BlackApply"} => AllOf(held, p - 1, "apply")
  /\ op = "PassContactApply" /\ p = 1 => AllOf(held, 0, "apply")
  /\ op = "PassContactApply" /\ p \in {2, 3} => AllOf(held, 1, "apply")
  /\ op = "ApplyContact" /\ p <= 3 => AllOf(held, 0, "apply")
  /\ op = "ApplyContact" /\ p = 4 => AllOf(held, 1, "apply")
  /\ op = "CancelBlackContact" /\ p <= 3 => AllOf(held, p - 1, "contact")
  /\ op = "CancelBlackContact" /\ p = 4 => AllOf(held, 1, "contact")

OutlineAt(r, p, held, group) ==
  /\ p \in 1..Len(CallsOf[r])
  /\ HoldsOK(r.op, p, held)
  /\ CallsOf[r][p].do = "EachFound" => \A n \in 1..Len(held) : held[n].table = CallsOf[r][p].table
  /\ r.op = "RemoveGroupMembers" /\ p >= 2 => group.live

LEMMA TwoCalls ==
  ASSUME NEW a, NEW b, NEW q, q = << a, b >>
  PROVE  Len(q) = 2 /\ q[1] = a /\ q[2] = b
OBVIOUS

LEMMA FourCalls ==
  ASSUME NEW a, NEW b, NEW c, NEW d, NEW q, q = << a, b, c, d >>
  PROVE  Len(q) = 4 /\ q[1] = a /\ q[2] = b /\ q[3] = c /\ q[4] = d
OBVIOUS

LEMMA SixCalls ==
  ASSUME NEW a, NEW b, NEW c, NEW d, NEW e, NEW f, NEW q, q = << a, b, c, d, e, f >>
  PROVE  Len(q) = 6 /\ q[1] = a /\ q[2] = b /\ q[3] = c /\ q[4] = d /\ q[5] = e /\ q[6] = f
OBVIOUS

LEMMA DenyLists ==
  ASSUME NEW r \in Requests, NEW c, c = CallsOf[r], r.op \in {"RefuseContactApply", "BlackApply"}
  PROVE  Len(c) = 2 /\ c[1].do = "First" /\ c[1].table = "apply" /\ c[2].do = "Save" /\ c[2].table = "apply"
<1> DEFINE x == First("apply", r.contact, r.owner, ApplySts)
           y == Save("apply", {"REFUSE"})
           z == Save("apply", {"BLACK"})
<1>1. /\ x.do = "First" /\ x.table = "apply" /\ y.do = "Save" /\ y.table = "apply" /\ z.do = "Save" /\ z.table = "apply"
  BY DEF First, Save
<1>2. r.op = "RefuseContactApply" => c = << x, y >>  BY RefuseApplyCalls DEF RefuseContactApply
<1>3. r.op = "BlackApply" => c = << x, z >>  BY BlackApplyCalls DEF BlackApply
<1> HIDE DEF x, y, z
<1> QED  BY <1>1, <1>2, <1>3, TwoCalls

LEMMA PassLists ==
  ASSUME NEW r \in Requests, NEW c, c = CallsOf[r], r.op = "PassContactApply"
  PROVE  /\ Len(c) = 6 /\ c[1].do = "First" /\ c[1].table = "apply"
         /\ c[2].do \in {"FindUser", "FindGroup"} /\ c[3].do = "Save" /\ c[3].table = "apply"
         /\ c[4].do = "Insert" /\ c[5].do \in {"Insert", "SaveGroup"} /\ c[6].do = "Forget"
<1> DEFINE x1 == First("apply", r.contact, r.owner, ApplySts)
           y2 == FindUser(r.contact, {"NORMAL"})
           z2 == FindGroup(r.owner, {"NORMAL"})
           x3 == Save("apply", {"AGREE"})
           y4 == Insert("contact", r.owner, r.contact, "NORMAL")
           z4 == Insert("contact", r.contact, r.owner, "NORMAL")
           z5 == SaveGroup("pass", r.contact)
           y6 == Forget("contact_user_list_", r.owner)
           z6 == Forget("my_joined_group_list_", r.owner)
<1>1. /\ x1.do = "First" /\ x1.table = "apply" /\ y2.do = "FindUser" /\ z2.do = "FindGroup"
      /\ x3.do = "Save" /\ x3.table = "apply"
  BY DEF First, FindUser, FindGroup, Save
<1>2. y4.do = "Insert" /\ z4.do = "Insert" /\ z5.do = "SaveGroup" /\ y6.do = "Forget" /\ z6.do = "Forget"
  BY DEF Insert, SaveGroup, Forget
<1>3. r.owner \in Users => c = << x1, y2, x3, y4, z4, y6 >>  BY PassApplyCalls DEF PassToUser
<1>4. r.owner \notin Users => c = << x1, z2, x3, z4, z5, z6 >>  BY PassApplyCalls DEF PassToGroup
<1> HIDE DEF x1, y2, z2, x3, y4, z4, z5, y6, z6
<1>5. CASE r.owner \in Users
  <2>1. Len(c) = 6 /\ c[1] = x1 /\ c[2] = y2 /\ c[3] = x3 /\ c[4] = y4 /\ c[5] = z4 /\ c[6] = y6
    BY <1>3, <1>5, SixCalls
  <2> QED  BY <1>1, <1>2, <2>1
<1>6. CASE r.owner \notin Users
  <2>1. Len(c) = 6 /\ c[1] = x1 /\ c[2] = z2 /\ c[3] = x3 /\ c[4] = z4 /\ c[5] = z5 /\ c[6] = z6
    BY <1>4, <1>6, SixCalls
  <2> QED  BY <1>1, <1>2, <2>1
<1> QED  BY <1>5, <1>6

LEMMA ApplyLists ==
  ASSUME NEW r \in Requests, NEW c, c = CallsOf[r], r.op = "ApplyContact"
  PROVE  /\ Len(c) = 4 /\ c[1].do \in {"FirstUser", "FirstGroup"} /\ c[2].do = "FirstOr" /\ c[2].table = "apply"
         /\ c[3].do = "Insert" /\ c[3].table = "apply" /\ c[4].do = "Save" /\ c[4].table = "apply"
<1> DEFINE x1 == FirstUser(r.contact, {"NORMAL"})
           y1 == FirstGroup(r.contact, {"NORMAL"})
           x2 == FirstOr("apply", r.owner, r.contact, ApplySts \ {"BLACK"})
           y2 == FirstOr("apply", r.owner, r.contact, ApplySts)
           x3 == Insert("apply", r.owner, r.contact, "PENDING")
           x4 == Save("apply", {"PENDING"})
           y4 == Save("apply", {})
<1>1. /\ x1.do = "FirstUser" /\ y1.do = "FirstGroup" /\ x2.do = "FirstOr" /\ x2.table = "apply"
      /\ y2.do = "FirstOr" /\ y2.table = "apply"
  BY DEF FirstUser, FirstGroup, FirstOr
<1>2. x3.do = "Insert" /\ x3.table = "apply" /\ x4.do = "Save" /\ x4.table = "apply" /\ y4.do = "Save" /\ y4.table = "apply"
  BY DEF Insert, Save
<1>3. r.contact \in Users => c = << x1, x2, x3, x4 >>  BY ApplyContactCalls DEF ApplyContact
<1>4. r.contact \notin Users => c = << y1, y2, x3, y4 >>  BY ApplyContactCalls DEF ApplyContact
<1> HIDE DEF x1, y1, x2, y2, x3, x4, y4
<1>5. CASE r.contact \in Users
  <2>1. Len(c) = 4 /\ c[1] = x1 /\ c[2] = x2 /\ c[3] = x3 /\ c[4] = x4  BY <1>3, <1>5, FourCalls
  <2> QED  BY <1>1, <1>2, <2>1
<1>6. CASE r.contact \notin Users
  <2>1. Len(c) = 4 /\ c[1] = y1 /\ c[2] = y2 /\ c[3] = x3 /\ c[4] = y4  BY <1>4, <1>6, FourCalls
  <2> QED  BY <1>1, <1>2, <2>1
<1> QED  BY <1>5, <1>6

LEMMA CancelLists ==
  ASSUME NEW r \in Requests, NEW c, c = CallsOf[r], r.op = "CancelBlackContact"
  PROVE  /\ Len(c) = 4 /\ c[1].do = "First" /\ c[1].table = "contact" /\ c[2].do = "First" /\ c[2].table = "contact"
         /\ c[3].do = "Save" /\ c[3].table = "contact" /\ c[4].do = "Save" /\ c[4].table = "contact"
<1> DEFINE x1 == First("contact", r.owner, r.contact, {"BLACK"})
           x2 == First("contact", r.contact, r.owner, {"BE_BLACK"})
           x3 == Save("contact", {"NORMAL"})
<1>1. /\ x1.do = "First" /\ x1.table = "contact" /\ x2.do = "First" /\ x2.table = "contact"
      /\ x3.do = "Save" /\ x3.table = "contact"
  BY DEF First, Save
<1>2. c = << x1, x2, x3, x3 >>  BY ContactCalls DEF CancelBlackContact
<1> HIDE DEF x1, x2, x3
<1>3. Len(c) = 4 /\ c[1] = x1 /\ c[2] = x2 /\ c[3] = x3 /\ c[4] = x3  BY <1>2, FourCalls
<1> QED  BY <1>1, <1>3

LEMMA NoRowsOutline ==
  ASSUME NEW r \in Requests
  PROVE  Len(CallsOf[r]) \in Nat /\ OutlineAt(r, 1, <<>>, NoGroup)
<1>1. AllFit(r) /\ Ordered(CallsOf[r])  BY EveryCallFits, EveryListOrdered
<1>2. Len(CallsOf[r]) \in Nat /\ Len(CallsOf[r]) >= 1  BY <1>1 DEF AllFit
<1>3. CallsOf[r][1].do # "EachFound"  BY <1>1, <1>2 DEF Ordered
<1>4. HoldsOK(r.op, 1, <<>>)  BY DEF HoldsOK, AllOf
<1> QED  BY <1>2, <1>3, <1>4 DEF OutlineAt

\* The next call of a handler that still holds what it held.
LEMMA PlainNext ==
  ASSUME NEW r \in Requests, NEW p, NEW held, NEW group, NEW new, OutlineAt(r, p, held, group),
         p + 1 <= Len(CallsOf[r]),
         CallsOf[r][p].do \notin {"First", "FirstOr", "Insert", "Save", "Find", "FindEither"},
         r.op = "RemoveGroupMembers" => new.live
  PROVE  OutlineAt(r, p + 1, held, new)
<1>0. AllFit(r) /\ Ordered(CallsOf[r]) /\ Len(CallsOf[r]) \in Nat /\ p \in 1..Len(CallsOf[r]) /\ p + 1 \in 1..Len(CallsOf[r])
      /\ (p + 1) - 1 = p
  BY EveryCallFits, EveryListOrdered DEF AllFit, OutlineAt
<1>1. CallsOf[r][p + 1].do # "EachFound"
  <2>1. CallsOf[r][p + 1].do = "EachFound" => Looks(CallsOf[r][(p + 1) - 1], CallsOf[r][p + 1])  BY <1>0 DEF Ordered
  <2> QED  BY <1>0, <2>1 DEF Looks
<1> DEFINE c == CallsOf[r]
<1>2. HoldsOK(r.op, p, held) /\ p \in Int  BY <1>0 DEF OutlineAt
<1>3. c = CallsOf[r] /\ c[p].do \notin {"First", "FirstOr", "Insert", "Save", "Find", "FindEither"} /\ p + 1 <= Len(c)
      /\ p \in 1..Len(c)
  BY <1>0
<1> HIDE DEF c
<1>4. HoldsOK(r.op, p + 1, held)
  <2>1. CASE r.op \in {"RefuseContactApply", "BlackApply"}
    <3>1. p = 1 /\ c[1].do = "First"  BY <1>2, <1>3, <2>1, DenyLists
    <3> QED  BY <1>3, <3>1
  <2>2. CASE r.op = "PassContactApply"
    <3>1. Len(c) = 6 /\ c[1].do = "First" /\ c[3].do = "Save"  BY <1>3, <2>2, PassLists
    <3>2. p # 1 /\ p # 3  BY <1>3, <3>1
    <3>3. CASE p = 2  BY <1>2, <2>2, <3>3 DEF HoldsOK, AllOf
    <3>4. CASE p >= 4  BY <1>2, <2>2, <3>4 DEF HoldsOK
    <3> QED  BY <1>2, <1>3, <3>2, <3>3, <3>4
  <2>3. CASE r.op = "ApplyContact"
    <3>1. Len(c) = 4 /\ c[2].do = "FirstOr" /\ c[3].do = "Insert"  BY <1>3, <2>3, ApplyLists
    <3>2. p = 1  BY <1>2, <1>3, <3>1
    <3> QED  BY <1>2, <2>3, <3>2 DEF HoldsOK, AllOf
  <2>4. CASE r.op = "CancelBlackContact"
    <3>1. Len(c) = 4 /\ c[1].do = "First" /\ c[2].do = "First" /\ c[3].do = "Save" /\ c[4].do = "Save"
      BY <1>3, <2>4, CancelLists
    <3> QED  BY <1>2, <1>3, <3>1
  <2>5. CASE r.op \notin Answers  BY <2>5 DEF HoldsOK, Answers
  <2> QED  BY <2>1, <2>2, <2>3, <2>4, <2>5 DEF Answers
<1> QED  BY <1>0, <1>1, <1>4 DEF OutlineAt

\* The call after First, FirstOr and Insert: one row more.
LEMMA AppendProperty ==
  ASSUME NEW S, NEW held \in Seq(S), NEW e \in S
  PROVE  /\ Append(held, e) \in Seq(S) /\ Len(Append(held, e)) = Len(held) + 1 /\ Len(held) \in Nat
         /\ \A n \in 1..Len(held) + 1 : Append(held, e)[n] = IF n <= Len(held) THEN held[n] ELSE e
OBVIOUS

LEMMA OneMoreNext ==
  ASSUME NEW r \in Requests, NEW p, NEW S, NEW held \in Seq(S), NEW group, OutlineAt(r, p, held, group),
         NEW e \in S, CallsOf[r][p].do \in {"First", "FirstOr", "Insert"}, e.table = CallsOf[r][p].table,
         NEW n, n = IF CallsOf[r][p].do = "FirstOr" THEN 2 ELSE 1,
         p + n <= Len(CallsOf[r])
  PROVE  OutlineAt(r, p + n, Append(held, e), group)
<1> DEFINE c == CallsOf[r]
           more == Append(held, e)
<1>0. /\ c = CallsOf[r] /\ Len(c) \in Nat /\ p \in 1..Len(c) /\ p + n \in 1..Len(c) /\ n \in {1, 2} /\ p \in Int
      /\ HoldsOK(r.op, p, held) /\ Fits(r, c[p]) /\ Ordered(c)
      /\ c[p].do \in {"First", "FirstOr", "Insert"} /\ e.table = c[p].table
      /\ n = IF c[p].do = "FirstOr" THEN 2 ELSE 1
  BY EveryCallFits, EveryListOrdered DEF AllFit, OutlineAt
<1>1. Len(more) = Len(held) + 1 /\ Len(held) \in Nat
      /\ \A k \in 1..Len(held) + 1 : more[k] = IF k <= Len(held) THEN held[k] ELSE e
  BY AppendProperty
<1> HIDE DEF c, more
<1>2. HoldsOK(r.op, p + n, more)
  <2>0. ASSUME NEW t, NEW m, AllOf(held, m, t), e.table = t
        PROVE  AllOf(more, m + 1, t)
    BY <1>1, <2>0 DEF AllOf
  <2>1. CASE r.op \in {"RefuseContactApply", "BlackApply"}
    <3>1. p = 1 /\ n = 1 /\ e.table = "apply"  BY <1>0, <2>1, DenyLists
    <3>2. AllOf(held, 0, "apply")  BY <1>0, <2>1, <3>1 DEF HoldsOK
    <3>3. AllOf(more, 0 + 1, "apply")  BY <2>0, <3>1, <3>2
    <3> QED  BY <2>1, <3>1, <3>3 DEF HoldsOK
  <2>2. CASE r.op = "PassContactApply"
    <3>1. /\ Len(c) = 6 /\ c[1].do = "First" /\ c[1].table = "apply" /\ c[2].do \in {"FindUser", "FindGroup"}
          /\ c[3].do = "Save"
      BY <1>0, <2>2, PassLists
    <3>2. CASE p = 1
      <4>1. n = 1 /\ e.table = "apply"  BY <1>0, <3>1, <3>2
      <4>2. AllOf(held, 0, "apply")  BY <1>0, <2>2, <3>2 DEF HoldsOK
      <4>3. AllOf(more, 0 + 1, "apply")  BY <2>0, <4>1, <4>2
      <4> QED  BY <2>2, <3>2, <4>1, <4>3 DEF HoldsOK
    <3>3. CASE p >= 4  BY <1>0, <2>2, <3>3 DEF HoldsOK
    <3> QED  BY <1>0, <3>1, <3>2, <3>3
  <2>3. CASE r.op = "ApplyContact"
    <3>1. /\ Len(c) = 4 /\ c[2].do = "FirstOr" /\ c[3].do = "Insert" /\ c[2].table = "apply" /\ c[3].table = "apply"
          /\ c[1].do \in {"FirstUser", "FirstGroup"} /\ c[4].do = "Save"
      BY <1>0, <2>3, ApplyLists
    <3>2. p + n = 4 /\ e.table = "apply" /\ p \in 2..3  BY <1>0, <3>1
    <3>3. AllOf(held, 0, "apply")  BY <1>0, <2>3, <3>2 DEF HoldsOK
    <3>4. AllOf(more, 0 + 1, "apply")  BY <2>0, <3>2, <3>3
    <3> QED  BY <2>3, <3>2, <3>4 DEF HoldsOK
  <2>4. CASE r.op = "CancelBlackContact"
    <3>1. /\ Len(c) = 4 /\ c[1].do = "First" /\ c[2].do = "First" /\ c[3].do = "Save" /\ c[4].do = "Save"
          /\ c[1].table = "contact" /\ c[2].table = "contact"
      BY <1>0, <2>4, CancelLists
    <3>2. p \in 1..2 /\ n = 1 /\ e.table = "contact"  BY <1>0, <3>1
    <3>3. AllOf(held, p - 1, "contact")  BY <1>0, <2>4, <3>2 DEF HoldsOK
    <3>4. AllOf(more, (p - 1) + 1, "contact")  BY <2>0, <3>2, <3>3
    <3>5. (p - 1) + 1 = (p + 1) - 1 /\ p + 1 <= 3  BY <3>2
    <3>6. AllOf(more, (p + 1) - 1, "contact") /\ p + n = p + 1  BY <3>2, <3>4, <3>5
    <3> QED  BY <2>4, <3>2, <3>5, <3>6 DEF HoldsOK
  <2>5. CASE r.op \notin Answers  BY <2>5 DEF HoldsOK, Answers
  <2> QED  BY <2>1, <2>2, <2>3, <2>4, <2>5 DEF Answers
<1>3. c[p + n].do # "EachFound"
  <2>1. CASE n = 1
    <3>1. c[p + 1].do = "EachFound" => Looks(c[(p + 1) - 1], c[p + 1])  BY <1>0, <2>1 DEF Ordered
    <3>2. (p + 1) - 1 = p  BY <1>0
    <3> QED  BY <1>0, <2>1, <3>1, <3>2 DEF Looks
  <2>2. CASE n = 2
    <3>1. r.op = "ApplyContact"  BY <1>0, <2>2 DEF Fits, RowCall
    <3>2. /\ Len(c) = 4 /\ c[3].do = "Insert" /\ c[4].do = "Save" /\ c[1].do \in {"FirstUser", "FirstGroup"}
      BY <1>0, <3>1, ApplyLists
    <3> QED  BY <1>0, <2>2, <3>2
  <2> QED  BY <1>0, <2>1, <2>2
<1>4. r.op # "RemoveGroupMembers" \/ c[p].do \notin {"First", "FirstOr", "Insert"}
  BY <1>0 DEF Fits, RowCall, RowTopic, Tables
<1> QED  BY <1>0, <1>2, <1>3, <1>4 DEF OutlineAt, c, more

\* No row to look at: the application is put in.
LEMMA NoneNext ==
  ASSUME NEW r \in Requests, NEW p, NEW held, NEW group, OutlineAt(r, p, held, group),
         CallsOf[r][p].do = "FirstOr"
  PROVE  OutlineAt(r, p + 1, held, group)
<1>0. Fits(r, CallsOf[r][p]) /\ p \in 1..Len(CallsOf[r]) /\ Len(CallsOf[r]) \in Nat
  BY EveryCallFits DEF AllFit, OutlineAt
<1>1. r.op = "ApplyContact"  BY <1>0 DEF Fits, RowCall
<1>2. p = 2 /\ Len(CallsOf[r]) = 4 /\ CallsOf[r][3].do = "Insert"  BY <1>0, <1>1, ApplyLists
<1>3. HoldsOK(r.op, 3, held)  BY <1>1, <1>2 DEF OutlineAt, HoldsOK, AllOf
<1> QED  BY <1>1, <1>2, <1>3 DEF OutlineAt

\* The row that is written back is in hand.
LEMMA SaveInHand ==
  ASSUME NEW r \in Requests, NEW p, NEW held, NEW group, OutlineAt(r, p, held, group),
         CallsOf[r][p].do = "Save"
  PROVE  Len(held) >= 1 /\ held[1].table = CallsOf[r][p].table
<1> DEFINE c == CallsOf[r]
<1>0. c = CallsOf[r] /\ Fits(r, c[p]) /\ p \in 1..Len(c) /\ Len(c) \in Nat /\ HoldsOK(r.op, p, held) /\ c[p].do = "Save"
  BY EveryCallFits DEF AllFit, OutlineAt
<1>1. r.op \in Answers  BY <1>0 DEF Fits, RowCall, Answers
<1> HIDE DEF c
<1>2. \A m \in 1..2 : \A t : AllOf(held, m, t) => Len(held) >= 1 /\ held[1].table = t
  BY DEF AllOf
<1>3. CASE r.op \in {"RefuseContactApply", "BlackApply"}
  <2>1. p = 2 /\ c[p].table = "apply"  BY <1>0, <1>3, DenyLists
  <2>2. AllOf(held, 1, "apply")  BY <1>0, <1>3, <2>1 DEF HoldsOK
  <2> QED  BY <1>0, <1>2, <2>1, <2>2
<1>4. CASE r.op = "ApplyContact"
  <2>1. p = 4 /\ c[p].table = "apply"  BY <1>0, <1>4, ApplyLists
  <2>2. AllOf(held, 1, "apply")  BY <1>0, <1>4, <2>1 DEF HoldsOK
  <2> QED  BY <1>0, <1>2, <2>1, <2>2
<1>5. CASE r.op = "PassContactApply"
  <2>0. /\ Len(c) = 6 /\ c[1].do = "First" /\ c[2].do \in {"FindUser", "FindGroup"} /\ c[3].table = "apply"
        /\ c[4].do = "Insert" /\ c[5].do \in {"Insert", "SaveGroup"} /\ c[6].do = "Forget"
    BY <1>0, <1>5, PassLists
  <2>1. p = 3 /\ c[p].table = "apply"  BY <1>0, <2>0
  <2>2. AllOf(held, 1, "apply")  BY <1>0, <1>5, <2>1 DEF HoldsOK
  <2> QED  BY <1>0, <1>2, <2>1, <2>2
<1>6. CASE r.op = "CancelBlackContact"
  <2>0. /\ Len(c) = 4 /\ c[1].do = "First" /\ c[2].do = "First" /\ c[3].table = "contact" /\ c[4].table = "contact"
    BY <1>0, <1>6, CancelLists
  <2>1. p \in {3, 4} /\ c[p].table = "contact"  BY <1>0, <2>0
  <2>2. CASE p = 3
    <3>1. AllOf(held, 2, "contact")  BY <1>0, <1>6, <2>2 DEF HoldsOK
    <3> QED  BY <1>0, <1>2, <2>1, <3>1
  <2>3. CASE p = 4
    <3>1. AllOf(held, 1, "contact")  BY <1>0, <1>6, <2>3 DEF HoldsOK
    <3> QED  BY <1>0, <1>2, <2>1, <3>1
  <2> QED  BY <2>1, <2>2, <2>3
<1> QED  BY <1>1, <1>3, <1>4, <1>5, <1>6 DEF Answers

LEMMA TailProperty ==
  ASSUME NEW S, NEW held \in Seq(S), held # <<>>
  PROVE  /\ Tail(held) \in Seq(S) /\ Len(Tail(held)) = Len(held) - 1 /\ Len(held) \in Nat /\ Len(held) >= 1
         /\ \A n \in 1..Len(held) - 1 : Tail(held)[n] = held[n + 1]
         /\ Head(held) = held[1]
OBVIOUS

LEMMA TailAll ==
  ASSUME NEW S, NEW held \in Seq(S), NEW t, AllOf(held, 2, t)
  PROVE  AllOf(Tail(held), 1, t)
<1>1. Len(held) = 2 /\ \A n \in 1..2 : held[n].table = t  BY DEF AllOf
<1>2. Len(held) # 0  BY <1>1
<1>3. held # <<>>  BY <1>2, EmptySeq, Zenon
<1>4. Len(Tail(held)) = 1 /\ Tail(held)[1] = held[1 + 1]  BY <1>1, <1>3, TailProperty
<1>5. held[1 + 1].table = t  BY <1>1
<1> DEFINE rest == Tail(held)
<1>6. Len(rest) = 1 /\ rest[1].table = t  BY <1>4, <1>5
<1> HIDE DEF rest
<1>7. AllOf(rest, 1, t)  BY <1>6 DEF AllOf
<1> QED  BY <1>7 DEF rest

LEMMA SaveOutline ==
  ASSUME NEW r \in Requests, NEW p, NEW S, NEW held \in Seq(S), NEW group, OutlineAt(r, p, held, group),
         CallsOf[r][p].do = "Save", p + 1 <= Len(CallsOf[r])
  PROVE  OutlineAt(r, p + 1, Tail(held), group)
<1> DEFINE c == CallsOf[r]
           rest == Tail(held)
<1>0. /\ c = CallsOf[r] /\ Fits(r, c[p]) /\ p \in 1..Len(c) /\ Len(c) \in Nat /\ HoldsOK(r.op, p, held)
      /\ c[p].do = "Save" /\ p + 1 <= Len(c)
  BY EveryCallFits DEF AllFit, OutlineAt
<1>1. r.op \in Answers  BY <1>0 DEF Fits, RowCall, Answers
<1>2. AllOf(held, 2, "contact") => AllOf(rest, 1, "contact")  BY TailAll
<1> HIDE DEF c, rest
<1>3. CASE r.op \in {"RefuseContactApply", "BlackApply", "ApplyContact"}
  <2>1. r.op = "ApplyContact" => p = 4 /\ Len(c) = 4  BY <1>0, ApplyLists
  <2>2. r.op \in {"RefuseContactApply", "BlackApply"} => p = 2 /\ Len(c) = 2  BY <1>0, DenyLists
  <2>3. p = Len(c)  BY <1>3, <2>1, <2>2
  <2>4. p \in Int /\ p + 1 <= p  BY <1>0, <2>3
  <2>5. FALSE  BY <2>4
  <2> QED  BY <2>5
<1>4. CASE r.op = "PassContactApply"
  <2>0. /\ Len(c) = 6 /\ c[1].do = "First" /\ c[2].do \in {"FindUser", "FindGroup"}
        /\ c[4].do = "Insert" /\ c[5].do \in {"Insert", "SaveGroup"} /\ c[6].do = "Forget"
    BY <1>0, <1>4, PassLists
  <2>1. p = 3 /\ p + 1 = 4  BY <1>0, <2>0
  <2>2. HoldsOK(r.op, 4, rest)  BY <1>4 DEF HoldsOK
  <2>3. OutlineAt(r, 4, rest, group)  BY <1>0, <1>4, <2>0, <2>2 DEF OutlineAt
  <2> QED  BY <2>1, <2>3 DEF rest
<1>5. CASE r.op = "CancelBlackContact"
  <2>0. /\ Len(c) = 4 /\ c[1].do = "First" /\ c[2].do = "First" /\ c[3].table = "contact" /\ c[4].table = "contact"
        /\ c[4].do = "Save"
    BY <1>0, <1>5, CancelLists
  <2>1. p = 3 /\ p + 1 = 4  BY <1>0, <2>0
  <2>2. AllOf(held, 2, "contact")  BY <1>0, <1>5, <2>1 DEF HoldsOK
  <2>3. HoldsOK(r.op, 4, rest)  BY <1>2, <1>5, <2>2 DEF HoldsOK
  <2>4. OutlineAt(r, 4, rest, group)  BY <1>0, <1>5, <2>0, <2>3 DEF OutlineAt
  <2> QED  BY <2>1, <2>4 DEF rest
<1> QED  BY <1>1, <1>3, <1>4, <1>5 DEF Answers

\* The rows a handler has looked for are of the table it looked in.
LEMMA FoundNext ==
  ASSUME NEW r \in Requests, NEW p, NEW held, NEW group, OutlineAt(r, p, held, group),
         CallsOf[r][p].do \in {"Find", "FindEither"}, p + 1 <= Len(CallsOf[r]),
         NEW found, \A n \in 1..Len(found) : found[n].table = CallsOf[r][p].table
  PROVE  OutlineAt(r, p + 1, found, group)
<1>0. Fits(r, CallsOf[r][p]) /\ p \in 1..Len(CallsOf[r]) /\ p + 1 \in 1..Len(CallsOf[r]) /\ Len(CallsOf[r]) \in Nat
      /\ Ordered(CallsOf[r]) /\ (p + 1) - 1 = p
  BY EveryCallFits, EveryListOrdered DEF AllFit, OutlineAt
<1>1. r.op \notin Answers /\ r.op # "RemoveGroupMembers"  BY <1>0 DEF Fits, RowCall, Answers
<1>2. CallsOf[r][p + 1].do = "EachFound" => CallsOf[r][p + 1].table = CallsOf[r][p].table
  BY <1>0 DEF Ordered, Looks
<1>3. HoldsOK(r.op, p + 1, found)  BY <1>1 DEF HoldsOK, Answers
<1> QED  BY <1>0, <1>1, <1>2, <1>3 DEF OutlineAt

LEMMA EachOutline ==
  ASSUME NEW r \in Requests, NEW p, NEW S, NEW held \in Seq(S), NEW group, OutlineAt(r, p, held, group),
         CallsOf[r][p].do = "EachFound", held # <<>>
  PROVE  /\ held[1].table = CallsOf[r][p].table
         /\ OutlineAt(r, p, Tail(held), group)
<1>0. Fits(r, CallsOf[r][p]) /\ p \in 1..Len(CallsOf[r])  BY EveryCallFits DEF AllFit, OutlineAt
<1>1. r.op \notin Answers /\ r.op # "RemoveGroupMembers"  BY <1>0 DEF Fits, RowCall, Answers
<1>2. Len(held) \in Nat /\ Len(held) >= 1 /\ Len(Tail(held)) = Len(held) - 1
      /\ \A n \in 1..Len(Tail(held)) : n + 1 \in 1..Len(held) /\ Tail(held)[n] = held[n + 1]
  OBVIOUS
<1>3. \A n \in 1..Len(held) : held[n].table = CallsOf[r][p].table  BY DEF OutlineAt
<1>4. \A n \in 1..Len(Tail(held)) : Tail(held)[n].table = CallsOf[r][p].table  BY <1>2, <1>3
<1>5. HoldsOK(r.op, p, Tail(held))  BY <1>1 DEF HoldsOK, Answers
<1> QED  BY <1>0, <1>1, <1>2, <1>3, <1>4, <1>5 DEF OutlineAt

LEMMA SkippedNext ==
  ASSUME NEW r \in Requests, NEW p, NEW held, NEW group, OutlineAt(r, p, held, group),
         CallsOf[r][p].do = "SaveUser", NEW n, n = CallsOf[r][p].rest + 1, p + n <= Len(CallsOf[r])
  PROVE  OutlineAt(r, p + n, held, group)
<1>0. Fits(r, CallsOf[r][p]) /\ p \in 1..Len(CallsOf[r]) /\ Len(CallsOf[r]) \in Nat
  BY EveryCallFits DEF AllFit, OutlineAt
<1>1. r.op \notin Answers /\ r.op # "RemoveGroupMembers" /\ CallsOf[r][p].rest \in Nat
  BY <1>0 DEF Fits, UserCall, Answers, UserOps
<1>2. p + n = p + CallsOf[r][p].rest + 1  BY <1>0, <1>1
<1>3. p + n \in Nat /\ p + n > p /\ CallsOf[r][p + n].do # "EachFound"
  BY <1>0, <1>2, SkippedUser
<1>4. HoldsOK(r.op, p + n, held)  BY <1>1 DEF HoldsOK, Answers
<1>5. p + n \in 1..Len(CallsOf[r])  BY <1>0, <1>3
<1> QED  BY <1>1, <1>3, <1>4, <1>5 DEF OutlineAt

Fields  == {"req", "pc", "held", "found", "people", "uuid", "group", "ids"}
HeldRow == [table : Tables, id : Nat, row : Row]

\* The variables of a handler.
BodyOK(h) ==
  /\ DOMAIN h = Fields
  /\ h.req \in Requests
  /\ h.held \in Seq(HeldRow)
  /\ DOMAIN h.people \subseteq Users /\ \A u \in DOMAIN h.people : h.people[u] \in UserRow
  /\ h.group \in GroupRow
  /\ h.group.live => h.uuid \in Groups /\ (h.req.op = "OpenSession" \/ GroupTopic(h.req, h.uuid))
  /\ h.ids \subseteq Ids

\* A row in hand is the copy of a row of the tables, and the request is about it.
Copies(r, x, tabs) ==
  /\ x.id \in 1..Len(tabs[x.table])
  /\ tabs[x.table][x.id].user = x.row.user /\ tabs[x.table][x.id].to = x.row.to
  /\ RowTopic(r, x.table, x.row.user, x.row.to)
HeldIn(r, held, tabs) == \A n \in 1..Len(held) : Copies(r, held[n], tabs)

SlotOK(h, tabs) ==
  /\ BodyOK(h)
  /\ OutlineAt(h.req, h.pc, h.held, h.group)
  /\ HeldIn(h.req, h.held, tabs)

\* Rows are added and changed, but stay rows of the same user and contact.
Grown(old, new) ==
  \A t \in Tables :
    /\ Len(old[t]) \in Nat /\ Len(new[t]) \in Nat /\ Len(old[t]) <= Len(new[t])
    /\ \A i \in 1..Len(old[t]) : new[t][i].user = old[t][i].user /\ new[t][i].to = old[t][i].to

LEMMA GrownHeld ==
  ASSUME NEW r, NEW held \in Seq(HeldRow), NEW old, NEW new, HeldIn(r, held, old), Grown(old, new)
  PROVE  HeldIn(r, held, new)
<1> SUFFICES ASSUME NEW n \in 1..Len(held)  PROVE Copies(r, held[n], new)
  BY DEF HeldIn
<1> DEFINE x == held[n]
<1>1. x \in HeldRow /\ Copies(r, x, old)  BY DEF HeldIn
<1> HIDE DEF x
<1>2. x.table \in Tables  BY <1>1 DEF HeldRow
<1> DEFINE t == x.table
           i == x.id
<1>3. /\ t \in Tables /\ i \in 1..Len(old[t]) /\ old[t][i].user = x.row.user /\ old[t][i].to = x.row.to
      /\ RowTopic(r, t, x.row.user, x.row.to)
  BY <1>1, <1>2 DEF Copies
<1>4. i \in 1..Len(new[t]) /\ new[t][i].user = old[t][i].user /\ new[t][i].to = old[t][i].to
  <2> HIDE DEF t, i
  <2>1. Len(old[t]) \in Nat /\ Len(new[t]) \in Nat /\ Len(old[t]) <= Len(new[t])  BY <1>3 DEF Grown
  <2> QED  BY <1>3, <2>1 DEF Grown
<1>5. Copies(r, x, new)  BY <1>3, <1>4 DEF Copies
<1> QED  BY <1>5 DEF x

LEMMA SlotGrown ==
  ASSUME NEW h, NEW old, NEW new, SlotOK(h, old), Grown(old, new)
  PROVE  SlotOK(h, new)
<1>1. h.held \in Seq(HeldRow)  BY DEF SlotOK, BodyOK
<1> QED  BY <1>1, GrownHeld DEF SlotOK

(* What changes the variables of a handler, one field at a time. *)
LEMMA WithPc ==
  ASSUME NEW h, BodyOK(h), NEW n, NEW x, x = [h EXCEPT !.pc = @ + n]
  PROVE  BodyOK(x) /\ x.req = h.req /\ x.pc = h.pc + n /\ x.held = h.held /\ x.found = h.found
         /\ x.people = h.people /\ x.uuid = h.uuid /\ x.group = h.group /\ x.ids = h.ids
<1>1. DOMAIN h = Fields  BY DEF BodyOK
<1>2. DOMAIN x = Fields /\ x.req = h.req /\ x.pc = h.pc + n /\ x.held = h.held /\ x.found = h.found
         /\ x.people = h.people /\ x.uuid = h.uuid /\ x.group = h.group /\ x.ids = h.ids
  BY <1>1 DEF Fields
<1> QED  BY <1>2 DEF BodyOK

LEMMA WithHeld ==
  ASSUME NEW h, BodyOK(h), NEW new \in Seq(HeldRow), NEW x, x = [h EXCEPT !.held = new]
  PROVE  BodyOK(x) /\ x.req = h.req /\ x.pc = h.pc /\ x.held = new /\ x.found = h.found
         /\ x.people = h.people /\ x.uuid = h.uuid /\ x.group = h.group /\ x.ids = h.ids
<1>1. DOMAIN h = Fields  BY DEF BodyOK
<1>2. DOMAIN x = Fields /\ x.req = h.req /\ x.pc = h.pc /\ x.held = new /\ x.found = h.found
         /\ x.people = h.people /\ x.uuid = h.uuid /\ x.group = h.group /\ x.ids = h.ids
  BY <1>1 DEF Fields
<1> QED  BY <1>2 DEF BodyOK

LEMMA WithPeople ==
  ASSUME NEW h, BodyOK(h), NEW new, DOMAIN new \subseteq Users, \A u \in DOMAIN new : new[u] \in UserRow,
         NEW x, x = [h EXCEPT !.people = new]
  PROVE  BodyOK(x) /\ x.req = h.req /\ x.pc = h.pc /\ x.held = h.held /\ x.found = h.found
         /\ x.people = new /\ x.uuid = h.uuid /\ x.group = h.group /\ x.ids = h.ids
<1>1. DOMAIN h = Fields  BY DEF BodyOK
<1>2. DOMAIN x = Fields /\ x.req = h.req /\ x.pc = h.pc /\ x.held = h.held /\ x.found = h.found
         /\ x.people = new /\ x.uuid = h.uuid /\ x.group = h.group /\ x.ids = h.ids
  BY <1>1 DEF Fields
<1> QED  BY <1>2 DEF BodyOK

GroupRead(h, new, g) == [h EXCEPT !.group = new, !.uuid = g]

LEMMA WithGroup ==
  ASSUME NEW h, BodyOK(h), NEW new \in GroupRow, NEW g \in Groups,
         new.live => h.req.op = "OpenSession" \/ GroupTopic(h.req, g),
         NEW x, x = GroupRead(h, new, g)
  PROVE  BodyOK(x) /\ x.req = h.req /\ x.pc = h.pc /\ x.held = h.held /\ x.found = h.found
         /\ x.people = h.people /\ x.uuid = g /\ x.group = new /\ x.ids = h.ids
<1>1. DOMAIN h = Fields  BY DEF BodyOK
<1>2. DOMAIN x = Fields /\ x.req = h.req /\ x.pc = h.pc /\ x.held = h.held /\ x.found = h.found
         /\ x.people = h.people /\ x.uuid = g /\ x.group = new /\ x.ids = h.ids
  BY <1>1 DEF Fields, GroupRead
<1> QED  BY <1>2 DEF BodyOK

LEMMA WithStruck ==
  ASSUME NEW h, BodyOK(h), NEW new \in GroupRow, new.live => h.group.live, NEW x, x = [h EXCEPT !.group = new]
  PROVE  BodyOK(x) /\ x.req = h.req /\ x.pc = h.pc /\ x.held = h.held /\ x.found = h.found
         /\ x.people = h.people /\ x.uuid = h.uuid /\ x.group = new /\ x.ids = h.ids
<1>1. DOMAIN h = Fields  BY DEF BodyOK
<1>2. DOMAIN x = Fields /\ x.req = h.req /\ x.pc = h.pc /\ x.held = h.held /\ x.found = h.found
         /\ x.people = h.people /\ x.uuid = h.uuid /\ x.group = new /\ x.ids = h.ids
  BY <1>1 DEF Fields
<1> QED  BY <1>2 DEF BodyOK

IdsRead(h, set, new) == [h EXCEPT !.ids = set, !.found = new]

LEMMA WithIds ==
  ASSUME NEW h, BodyOK(h), NEW new, NEW set, set \subseteq Ids,
         NEW x, x = IdsRead(h, set, new)
  PROVE  BodyOK(x) /\ x.req = h.req /\ x.pc = h.pc /\ x.held = h.held /\ x.found = new
         /\ x.people = h.people /\ x.uuid = h.uuid /\ x.group = h.group /\ x.ids = set
<1>1. DOMAIN h = Fields  BY DEF BodyOK
<1>2. DOMAIN x = Fields /\ x.req = h.req /\ x.pc = h.pc /\ x.held = h.held /\ x.found = new
         /\ x.people = h.people /\ x.uuid = h.uuid /\ x.group = h.group /\ x.ids = set
  BY <1>1 DEF Fields, IdsRead
<1> QED  BY <1>2 DEF BodyOK

RestRead(h, new, set) == [h EXCEPT !.found = new, !.ids = set]

LEMMA WithRest ==
  ASSUME NEW h, BodyOK(h), NEW new, NEW set, set \subseteq Ids,
         NEW x, x = RestRead(h, new, set)
  PROVE  BodyOK(x) /\ x.req = h.req /\ x.pc = h.pc /\ x.held = h.held /\ x.found = new
         /\ x.people = h.people /\ x.uuid = h.uuid /\ x.group = h.group /\ x.ids = set
<1>1. DOMAIN h = Fields  BY DEF BodyOK
<1>2. DOMAIN x = Fields /\ x.req = h.req /\ x.pc = h.pc /\ x.held = h.held /\ x.found = new
         /\ x.people = h.people /\ x.uuid = h.uuid /\ x.group = h.group /\ x.ids = set
  BY <1>1 DEF Fields, RestRead
<1> QED  BY <1>2 DEF BodyOK

LEMMA WithFound ==
  ASSUME NEW h, BodyOK(h), NEW new, NEW x, x = [h EXCEPT !.found = new]
  PROVE  BodyOK(x) /\ x.req = h.req /\ x.pc = h.pc /\ x.held = h.held /\ x.found = new
         /\ x.people = h.people /\ x.uuid = h.uuid /\ x.group = h.group /\ x.ids = h.ids
<1>1. DOMAIN h = Fields  BY DEF BodyOK
<1>2. DOMAIN x = Fields /\ x.req = h.req /\ x.pc = h.pc /\ x.held = h.held /\ x.found = new
         /\ x.people = h.people /\ x.uuid = h.uuid /\ x.group = h.group /\ x.ids = h.ids
  BY <1>1 DEF Fields
<1> QED  BY <1>2 DEF BodyOK
-----------------------------------------------------------------------------
Handlers(tabs) == DOMAIN run = Slots /\ \A s \in Slots : run[s] # Idle => SlotOK(run[s], tabs)

(* How a handler goes on: with what it has in hand, n calls further. *)
LEMMA Skips ==
  ASSUME DOMAIN run = Slots, NEW s \in Slots, NEW h, BodyOK(h), NEW n, Skip(s, h, n),
         HeldIn(h.req, h.held, rows'),
         h.pc + n <= Len(CallsOf[h.req]) => OutlineAt(h.req, h.pc + n, h.held, h.group),
         h.pc + n \in Int
  PROVE  /\ DOMAIN run' = Slots /\ \A q \in Slots : q # s => run'[q] = run[q]
         /\ run'[s] # Idle => /\ SlotOK(run'[s], rows')
                              /\ h.pc + n <= Len(CallsOf[h.req]) /\ run'[s] = [h EXCEPT !.pc = @ + n]
<1>0. AllFit(h.req) /\ Len(CallsOf[h.req]) \in Int
  <2>1. h.req \in Requests  BY DEF BodyOK
  <2> QED  BY <2>1, EveryCallFits DEF AllFit
<1>1. CASE h.pc + n > Len(CallsOf[h.req])
  <2>1. run' = [run EXCEPT ![s] = Idle]  BY <1>1 DEF Skip, Return
  <2> QED  BY <2>1
<1>2. CASE ~(h.pc + n > Len(CallsOf[h.req]))
  <2> DEFINE x == [h EXCEPT !.pc = @ + n]
  <2>1. run' = [run EXCEPT ![s] = x]  BY <1>2 DEF Skip
  <2>2. BodyOK(x) /\ x.req = h.req /\ x.pc = h.pc + n /\ x.held = h.held /\ x.group = h.group  BY WithPc
  <2> HIDE DEF x
  <2>3. h.pc + n <= Len(CallsOf[h.req])  BY <1>0, <1>2
  <2>4. SlotOK(x, rows')  BY <2>2, <2>3 DEF SlotOK
  <2>5. DOMAIN run' = Slots /\ run'[s] = x /\ \A q \in Slots : q # s => run'[q] = run[q]  BY <2>1
  <2> QED  BY <2>3, <2>4, <2>5 DEF x
<1> QED  BY <1>1, <1>2

LEMMA Stays ==
  ASSUME DOMAIN run = Slots, NEW s \in Slots, NEW h, Stay(s, h)
  PROVE  DOMAIN run' = Slots /\ run'[s] = h /\ \A q \in Slots : q # s => run'[q] = run[q]
BY DEF Stay

LEMMA Returns ==
  ASSUME DOMAIN run = Slots, NEW s \in Slots, Return(s)
  PROVE  DOMAIN run' = Slots /\ run'[s] = Idle /\ \A q \in Slots : q # s => run'[q] = run[q]
BY DEF Return

\* What a step of one handler leaves of the others.
LEMMA OneMoves ==
  ASSUME Handlers(rows), Grown(rows, rows'), DOMAIN run' = Slots, NEW s \in Slots,
         \A q \in Slots : q # s => run'[q] = run[q],
         run'[s] # Idle => SlotOK(run'[s], rows')
  PROVE  Handlers(rows)'
<1> SUFFICES ASSUME NEW q \in Slots, run'[q] # Idle  PROVE SlotOK(run'[q], rows')
  BY DEF Handlers
<1>1. CASE q = s  BY <1>1
<1>2. CASE q # s
  <2>1. run'[q] = run[q] /\ SlotOK(run[q], rows)  BY <1>2 DEF Handlers
  <2> QED  BY <2>1, SlotGrown
<1> QED  BY <1>1, <1>2

Entry == [list : Lists, of : Users, ids : SUBSET Ids]
CacheOK(entries) ==
  /\ entries \subseteq Entry
  /\ \A e, f \in entries : e.list = f.list /\ e.of = f.of => e = f

Typed ==
  /\ users \in [Users -> UserRow]
  /\ rows \in [Tables -> Seq(Row)]
  /\ groups \in [Groups -> GroupRow]
  /\ CacheOK(cache)
  /\ Handlers(rows)
  /\ script \in DOMAIN Scripts /\ sent \in 0..Len(Scripts[script]) /\ faults \in 0..MaxFaults
  /\ miscounted \subseteq Groups
  /\ ghosts \subseteq Users

(* What a step of the handler s does, at most. *)
Moved(s) ==
  /\ DOMAIN run' = Slots /\ \A q \in Slots : q # s => run'[q] = run[q]
  /\ run'[s] # Idle => SlotOK(run'[s], rows') /\ run'[s].req = run[s].req

\* Rows it is about are changed and added.
RowsFrame(r) ==
  /\ rows' \in [Tables -> Seq(Row)]
  /\ Grown(rows, rows')
  /\ \A t \in Tables : \A i \in 1..Len(rows'[t]) :
       \/ i \in 1..Len(rows[t]) /\ rows'[t][i] = rows[t][i]
       \/ RowTopic(r, t, rows'[t][i].user, rows'[t][i].to)

UsersFrame(r) ==
  /\ users' \in [Users -> UserRow]
  /\ \A u \in Users : users'[u] = users[u] \/ OfTel(TelOf[u]) \in AboutOf[r]

GroupsFrame(r) ==
  /\ groups' \in [Groups -> GroupRow]
  /\ \A g \in Groups : groups'[g] = groups[g] \/ GroupTopic(r, g)

StepTyped(s) ==
  /\ Moved(s)
  /\ RowsFrame(run[s].req) /\ UsersFrame(run[s].req) /\ GroupsFrame(run[s].req)
  /\ CacheOK(cache') /\ miscounted' \subseteq Groups

LEMMA Here ==
  ASSUME Typed, NEW s \in Slots, run[s] # Idle
  PROVE  /\ run[s].req \in Requests /\ BodyOK(run[s]) /\ DOMAIN run = Slots
         /\ OutlineAt(run[s].req, run[s].pc, run[s].held, run[s].group)
         /\ HeldIn(run[s].req, run[s].held, rows) /\ run[s].held \in Seq(HeldRow)
         /\ run[s].pc \in 1..Len(CallsOf[run[s].req]) /\ run[s].pc \in Int
         /\ Fits(run[s].req, CallOf(s)) /\ CallOf(s) = CallsOf[run[s].req][run[s].pc]
<1>1. DOMAIN run = Slots /\ SlotOK(run[s], rows)  BY DEF Typed, Handlers
<1>2. BodyOK(run[s]) /\ OutlineAt(run[s].req, run[s].pc, run[s].held, run[s].group)
      /\ HeldIn(run[s].req, run[s].held, rows)
  BY <1>1 DEF SlotOK
<1>3. run[s].req \in Requests /\ run[s].held \in Seq(HeldRow)  BY <1>2 DEF BodyOK
<1>4. run[s].pc \in 1..Len(CallsOf[run[s].req])  BY <1>2 DEF OutlineAt
<1>5. AllFit(run[s].req)  BY <1>3, EveryCallFits
<1> QED  BY <1>1, <1>2, <1>3, <1>4, <1>5 DEF AllFit, CallOf

\* What the call is that a handler is at.
LEMMA AtCall ==
  ASSUME NEW s, NEW do, At(s, do)
  PROVE  run[s] # Idle /\ CallOf(s).do = do
BY DEF At

LEMMA SameRows ==
  ASSUME Typed, UNCHANGED rows, NEW r
  PROVE  RowsFrame(r) /\ Grown(rows, rows')
<1>1. rows \in [Tables -> Seq(Row)]  BY DEF Typed
<1>2. \A t \in Tables : Len(rows[t]) \in Nat  BY <1>1
<1> QED  BY <1>1, <1>2 DEF RowsFrame, Grown

LEMMA SameTables ==
  ASSUME Typed, UNCHANGED <<tables, cache, miscounted>>, NEW s, Moved(s)
  PROVE  StepTyped(s)
BY SameRows DEF StepTyped, tables, Typed, UsersFrame, GroupsFrame

LEMMA GoesOn ==
  ASSUME Typed, NEW s \in Slots, run[s] # Idle, NEW h, BodyOK(h), h.req = run[s].req, h.pc = run[s].pc,
         NEW n \in Int, Skip(s, h, n), HeldIn(h.req, h.held, rows'),
         h.pc + n <= Len(CallsOf[h.req]) => OutlineAt(h.req, h.pc + n, h.held, h.group)
  PROVE  Moved(s)
<1>1. DOMAIN run = Slots /\ h.pc \in Int  BY Here
<1>2. h.pc + n \in Int  BY <1>1
<1>3. /\ DOMAIN run' = Slots /\ \A q \in Slots : q # s => run'[q] = run[q]
      /\ run'[s] # Idle => SlotOK(run'[s], rows') /\ run'[s] = [h EXCEPT !.pc = @ + n]
  BY <1>1, <1>2, Skips
<1>4. run'[s] # Idle => run'[s].req = run[s].req  BY <1>3, WithPc
<1> QED  BY <1>3, <1>4 DEF Moved

LEMMA GoesOnOne ==
  ASSUME Typed, NEW s \in Slots, run[s] # Idle, NEW h, BodyOK(h), h.req = run[s].req, h.pc = run[s].pc,
         GoOn(s, h), HeldIn(h.req, h.held, rows'),
         h.pc + 1 <= Len(CallsOf[h.req]) => OutlineAt(h.req, h.pc + 1, h.held, h.group)
  PROVE  Moved(s)
<1>1. Skip(s, h, 1) /\ 1 \in Int  BY DEF GoOn
<1> QED  BY <1>1, GoesOn

LEMMA GivesUp ==
  ASSUME Typed, NEW s \in Slots, Return(s)
  PROVE  Moved(s)
<1>1. DOMAIN run = Slots  BY DEF Typed, Handlers
<1> QED  BY <1>1, Returns DEF Moved

\* The calls that leave the rows in hand alone.
Changing == {"First", "FirstOr", "Insert", "Save", "Find", "FindEither"}

LEMMA RemoveFirstCall ==
  ASSUME NEW r \in Requests, r.op = "RemoveGroupMembers"
  PROVE  CallsOf[r][1].do = "FirstGroup" /\ r.contact \in Groups /\ CallsOf[r][1] = FirstGroup(r.contact, GroupSts)
<1>1. r.contact \in Groups /\ \E n : RemoveList(r, n)  BY RemoveCalls
<1>2. CallsOf[r][1] = FirstGroup(r.contact, GroupSts)  BY <1>1 DEF RemoveList
<1>3. FirstGroup(r.contact, GroupSts).do = "FirstGroup"  BY DEF FirstGroup
<1> QED  BY <1>1, <1>2, <1>3

LEMMA RemoverHolds ==
  ASSUME NEW r \in Requests, r.op = "RemoveGroupMembers", NEW p, NEW held, NEW group, OutlineAt(r, p, held, group),
         CallsOf[r][p].do # "FirstGroup"
  PROVE  group.live
<1>1. CallsOf[r][1].do = "FirstGroup"  BY RemoveFirstCall
<1>2. p \in 1..Len(CallsOf[r]) /\ p # 1  BY <1>1 DEF OutlineAt
<1>3. Len(CallsOf[r]) \in Nat  BY EveryCallFits DEF AllFit
<1>4. p >= 2  BY <1>2, <1>3
<1> QED  BY <1>4 DEF OutlineAt

LEMMA GoesOnPlainly ==
  ASSUME Typed, NEW s \in Slots, run[s] # Idle, NEW h, BodyOK(h), h.req = run[s].req, h.pc = run[s].pc,
         h.held = run[s].held, h.group = run[s].group, Grown(rows, rows'),
         CallOf(s).do \notin Changing \cup {"FirstGroup"}, GoOn(s, h)
  PROVE  Moved(s)
<1>1. HeldIn(h.req, h.held, rows')  BY Here, GrownHeld
<1>2. OutlineAt(h.req, h.pc, h.held, h.group) /\ h.req \in Requests /\ CallsOf[h.req][h.pc] = CallOf(s)  BY Here
<1>3. h.req.op = "RemoveGroupMembers" => h.group.live  BY <1>2, RemoverHolds
<1>4. h.pc + 1 <= Len(CallsOf[h.req]) => OutlineAt(h.req, h.pc + 1, h.held, h.group)
  BY <1>2, <1>3, PlainNext DEF Changing
<1> QED  BY <1>1, <1>4, GoesOn DEF GoOn

LEMMA GoesOnAsIs ==
  ASSUME Typed, NEW s \in Slots, run[s] # Idle, Grown(rows, rows'),
         CallOf(s).do \notin Changing \cup {"FirstGroup"}, GoOn(s, run[s])
  PROVE  Moved(s)
BY Here, GoesOnPlainly

LEMMA StaysPut ==
  ASSUME Typed, NEW s \in Slots, run[s] # Idle, NEW h, BodyOK(h), h.req = run[s].req, h.pc = run[s].pc,
         HeldIn(h.req, h.held, rows'), OutlineAt(h.req, h.pc, h.held, h.group), Stay(s, h)
  PROVE  Moved(s)
<1>1. DOMAIN run = Slots  BY Here
<1>2. DOMAIN run' = Slots /\ run'[s] = h /\ \A q \in Slots : q # s => run'[q] = run[q]  BY <1>1, Stays
<1> QED  BY <1>2 DEF Moved, SlotOK

LEMMA TableWritten ==
  ASSUME Typed, NEW r, NEW t \in Tables, NEW q \in Seq(Row), rows' = [rows EXCEPT ![t] = q],
         Len(rows[t]) <= Len(q),
         \A i \in 1..Len(rows[t]) : q[i].user = rows[t][i].user /\ q[i].to = rows[t][i].to,
         \A i \in 1..Len(q) : \/ i \in 1..Len(rows[t]) /\ q[i] = rows[t][i]
                              \/ RowTopic(r, t, q[i].user, q[i].to)
  PROVE  RowsFrame(r)
<1>1. rows \in [Tables -> Seq(Row)]  BY DEF Typed
<1>2. \A x \in Tables : rows'[x] = (IF x = t THEN q ELSE rows[x])  BY <1>1
<1>3. rows' \in [Tables -> Seq(Row)]  BY <1>1
<1>4. \A x \in Tables : Len(rows[x]) \in Nat /\ Len(rows'[x]) \in Nat  BY <1>1, <1>3
<1>5. Grown(rows, rows')  BY <1>2, <1>4 DEF Grown
<1>6. ASSUME NEW x \in Tables, NEW i \in 1..Len(rows'[x])
      PROVE  \/ i \in 1..Len(rows[x]) /\ rows'[x][i] = rows[x][i]
             \/ RowTopic(r, x, rows'[x][i].user, rows'[x][i].to)
  <2>1. CASE x = t
    <3>1. rows'[x] = q /\ rows[x] = rows[t]  BY <1>2, <2>1
    <3>2. i \in 1..Len(q)  BY <1>6, <3>1
    <3> QED  BY <2>1, <3>1, <3>2
  <2>2. CASE x # t
    <3>1. rows'[x] = rows[x]  BY <1>2, <2>2
    <3> QED  BY <1>6, <3>1
  <2> QED  BY <2>1, <2>2
<1> QED  BY <1>3, <1>5, <1>6 DEF RowsFrame

LEMMA RowWritten ==
  ASSUME Typed, NEW r, NEW t \in Tables, NEW n \in 1..Len(rows[t]), NEW new \in Row,
         new.user = rows[t][n].user, new.to = rows[t][n].to, RowTopic(r, t, new.user, new.to),
         rows' = [rows EXCEPT ![t][n] = new]
  PROVE  RowsFrame(r)
<1> DEFINE q == [rows[t] EXCEPT ![n] = new]
<1>1. rows[t] \in Seq(Row) /\ Len(rows[t]) \in Nat /\ rows \in [Tables -> Seq(Row)]  BY DEF Typed
<1>2. rows' = [rows EXCEPT ![t] = q]  BY <1>1
<1>3. q \in Seq(Row) /\ Len(q) = Len(rows[t])
      /\ \A i \in 1..Len(rows[t]) : q[i] = IF i = n THEN new ELSE rows[t][i]
  BY <1>1
<1> HIDE DEF q
<1>4. /\ Len(rows[t]) <= Len(q)
      /\ \A i \in 1..Len(rows[t]) : q[i].user = rows[t][i].user /\ q[i].to = rows[t][i].to
      /\ \A i \in 1..Len(q) : \/ i \in 1..Len(rows[t]) /\ q[i] = rows[t][i]
                              \/ RowTopic(r, t, q[i].user, q[i].to)
  BY <1>1, <1>3
<1> QED  BY <1>2, <1>3, <1>4, TableWritten

Added(t, row) == rows' = [rows EXCEPT ![t] = Append(@, row)]

LEMMA RowAdded ==
  ASSUME Typed, NEW r, NEW t \in Tables, NEW new \in Row, RowTopic(r, t, new.user, new.to),
         Added(t, new)
  PROVE  RowsFrame(r) /\ Len(rows[t]) \in Nat /\ Len(rows'[t]) = Len(rows[t]) + 1 /\ rows'[t][Len(rows[t]) + 1] = new
<1> DEFINE q == Append(rows[t], new)
<1>1. rows[t] \in Seq(Row) /\ rows \in [Tables -> Seq(Row)]  BY DEF Typed
<1>2. rows' = [rows EXCEPT ![t] = q] /\ rows'[t] = q  BY <1>1 DEF Added
<1>3. q \in Seq(Row) /\ Len(q) = Len(rows[t]) + 1 /\ Len(rows[t]) \in Nat
      /\ \A i \in 1..Len(rows[t]) + 1 : q[i] = IF i <= Len(rows[t]) THEN rows[t][i] ELSE new
  BY <1>1, AppendProperty
<1> HIDE DEF q
<1>4. /\ Len(rows[t]) <= Len(q)
      /\ \A i \in 1..Len(rows[t]) : q[i].user = rows[t][i].user /\ q[i].to = rows[t][i].to
      /\ \A i \in 1..Len(q) : \/ i \in 1..Len(rows[t]) /\ q[i] = rows[t][i]
                              \/ RowTopic(r, t, q[i].user, q[i].to)
  BY <1>1, <1>3
<1>5. RowsFrame(r)  BY <1>2, <1>3, <1>4, TableWritten
<1>6. q[Len(rows[t]) + 1] = new  BY <1>3
<1> QED  BY <1>2, <1>3, <1>5, <1>6

LEMMA TypedRow ==
  ASSUME Typed, NEW t \in Tables, NEW i \in 1..Len(rows[t])
  PROVE  rows[t] \in Seq(Row) /\ Len(rows[t]) \in Nat /\ DOMAIN rows[t] = 1..Len(rows[t]) /\ rows[t][i] \in Row
BY DEF Typed

LEMMA PutKeeps ==
  ASSUME NEW row \in Row, NEW st, NewStatus(st), NEW alive \in BOOLEAN
  PROVE  /\ Put(row, st, alive) \in Row /\ Put(row, st, alive).user = row.user /\ Put(row, st, alive).to = row.to
         /\ Put(row, st, alive).live = alive
         /\ Put(row, st, alive).status = IF st = {} THEN row.status ELSE CHOOSE x \in st : TRUE
<1>1. st # {} => (CHOOSE x \in st : TRUE) \in RowSts
  <2>1. \A x : (CHOOSE y \in {x} : TRUE) = x  OBVIOUS
  <2>2. {} = {}  OBVIOUS
  <2> QED  BY <2>1 DEF NewStatus
<1> DEFINE new == IF st = {} THEN row.status ELSE CHOOSE x \in st : TRUE
<1>2. new \in RowSts  BY <1>1 DEF Row
<1>3. Put(row, st, alive) = [row EXCEPT !.status = new, !.live = alive]  BY DEF Put
<1> HIDE DEF new
<1>4. /\ Put(row, st, alive) \in Row /\ Put(row, st, alive).user = row.user /\ Put(row, st, alive).to = row.to
      /\ Put(row, st, alive).live = alive /\ Put(row, st, alive).status = new
  BY <1>2, <1>3 DEF Row
<1> QED  BY <1>4 DEF new

LEMMA Matched ==
  ASSUME Typed, NEW c, c.table \in Tables, NEW i \in Matching(c)
  PROVE  /\ i \in 1..Len(rows[c.table]) /\ rows[c.table][i].live /\ rows[c.table][i].user = c.user
         /\ rows[c.table][i].to = c.to
<1>1. rows[c.table] \in Seq(Row)  BY DEF Typed
<1>2. DOMAIN rows[c.table] = 1..Len(rows[c.table])  BY <1>1
<1> QED  BY <1>2 DEF Matching, LiveRows

LEMMA FirstMatches ==
  ASSUME Typed, NEW c, c.table \in Tables, Matching(c) # {}
  PROVE  FirstId(c) \in Matching(c)
<1>1. \A i \in Matching(c) : i \in 1..Len(rows[c.table])  BY Matched
<1>2. Len(rows[c.table]) \in Nat  BY DEF Typed
<1>3. Matching(c) \in SUBSET Nat  BY <1>1, <1>2
<1>4. \E i \in Matching(c) : \A j \in Matching(c) : i <= j  BY <1>3, LeastExists
<1> QED  BY <1>4 DEF FirstId

LEMMA HeldProperty ==
  ASSUME Typed, NEW t \in Tables, NEW i \in 1..Len(rows[t])
  PROVE  /\ Held(t, i) \in HeldRow /\ Held(t, i).table = t /\ Held(t, i).id = i /\ Held(t, i).row = rows[t][i]
         /\ \A r : RowTopic(r, t, rows[t][i].user, rows[t][i].to) => Copies(r, Held(t, i), rows)
<1>1. rows[t][i] \in Row /\ Len(rows[t]) \in Nat  BY TypedRow
<1>2. Held(t, i).table = t /\ Held(t, i).id = i /\ Held(t, i).row = rows[t][i]  BY DEF Held
<1>3. Held(t, i) \in HeldRow  BY <1>1 DEF Held, HeldRow
<1>4. ASSUME NEW r, RowTopic(r, t, rows[t][i].user, rows[t][i].to)  PROVE Copies(r, Held(t, i), rows)
  BY <1>2, <1>4 DEF Copies
<1> QED  BY <1>2, <1>3, <1>4

LEMMA AppendHeld ==
  ASSUME NEW r, NEW held \in Seq(HeldRow), NEW e \in HeldRow, NEW tabs, HeldIn(r, held, tabs), Copies(r, e, tabs)
  PROVE  Append(held, e) \in Seq(HeldRow) /\ HeldIn(r, Append(held, e), tabs)
<1> DEFINE more == Append(held, e)
<1>1. /\ more \in Seq(HeldRow) /\ Len(more) = Len(held) + 1 /\ Len(held) \in Nat
      /\ \A n \in 1..Len(held) + 1 : more[n] = IF n <= Len(held) THEN held[n] ELSE e
  BY AppendProperty
<1> HIDE DEF more
<1>2. HeldIn(r, more, tabs)  BY <1>1 DEF HeldIn
<1> QED  BY <1>1, <1>2 DEF more

LEMMA TailHeld ==
  ASSUME NEW r, NEW held \in Seq(HeldRow), held # <<>>, NEW tabs, HeldIn(r, held, tabs)
  PROVE  /\ Tail(held) \in Seq(HeldRow) /\ HeldIn(r, Tail(held), tabs)
         /\ Head(held) = held[1] /\ held[1] \in HeldRow /\ Copies(r, held[1], tabs)
<1> DEFINE rest == Tail(held)
<1>1. /\ rest \in Seq(HeldRow) /\ Len(rest) = Len(held) - 1 /\ Len(held) \in Nat /\ Len(held) >= 1
      /\ \A n \in 1..Len(held) - 1 : rest[n] = held[n + 1]
      /\ Head(held) = held[1]
  BY TailProperty
<1>2. 1 \in 1..Len(held)  BY <1>1
<1>3. held[1] \in HeldRow  BY <1>2, ElementOfSeq
<1> HIDE DEF rest
<1>4. ASSUME NEW n \in 1..Len(rest)  PROVE Copies(r, rest[n], tabs)
  <2>1. n \in 1..Len(held) - 1 /\ n + 1 \in 1..Len(held)  BY <1>1, <1>4
  <2> QED  BY <1>1, <2>1 DEF HeldIn
<1>5. HeldIn(r, rest, tabs)  BY <1>4 DEF HeldIn
<1> QED  BY <1>1, <1>2, <1>3, <1>5 DEF rest, HeldIn

LEMMA ReadRowTyped ==
  ASSUME Typed, NEW s \in Slots, ReadRow(s)
  PROVE  StepTyped(s)
<1> DEFINE c == CallOf(s)
           h == run[s]
<1>0. run[s] # Idle /\ c.do \in {"First", "FirstOr"} /\ UNCHANGED <<tables, cache, bounds, history>>
  BY DEF ReadRow, At
<1>1. UNCHANGED rows /\ Grown(rows, rows') /\ UNCHANGED <<tables, cache, miscounted>>
  BY <1>0, SameRows DEF tables, history
<1>2. /\ h.req \in Requests /\ BodyOK(h) /\ OutlineAt(h.req, h.pc, h.held, h.group)
      /\ HeldIn(h.req, h.held, rows) /\ h.held \in Seq(HeldRow) /\ h.pc \in Int
      /\ Fits(h.req, c) /\ c = CallsOf[h.req][h.pc]
  BY <1>0, Here
<1>3. RowTopic(h.req, c.table, c.user, c.to) /\ c.table \in Tables  BY <1>0, <1>2 DEF Fits, RowCall, RowTopic
<1>4. \/ Return(s)
      \/ c.do = "FirstOr" /\ GoOn(s, h)
      \/ /\ Matching(c) # {}
         /\ Skip(s, [h EXCEPT !.held = Append(@, Held(c.table, FirstId(c)))], IF c.do = "First" THEN 1 ELSE 2)
  BY <1>0 DEF ReadRow
<1>5. CASE Return(s)  BY <1>1, <1>5, GivesUp, SameTables
<1>6. CASE c.do = "FirstOr" /\ GoOn(s, h)
  <2>1. h.pc + 1 <= Len(CallsOf[h.req]) => OutlineAt(h.req, h.pc + 1, h.held, h.group)
    BY <1>2, <1>6, NoneNext
  <2>2. HeldIn(h.req, h.held, rows')  BY <1>1, <1>2
  <2>3. Moved(s)  BY <1>0, <1>2, <1>6, <2>1, <2>2, GoesOn DEF GoOn
  <2> QED  BY <1>1, <2>3, SameTables
<1>7. CASE /\ Matching(c) # {}
           /\ Skip(s, [h EXCEPT !.held = Append(@, Held(c.table, FirstId(c)))], IF c.do = "First" THEN 1 ELSE 2)
  <2> DEFINE e == Held(c.table, FirstId(c))
             more == Append(h.held, e)
             x == [h EXCEPT !.held = more]
             n == IF c.do = "First" THEN 1 ELSE 2
  <2>1. FirstId(c) \in Matching(c)  BY <1>3, <1>7, FirstMatches
  <2>2. FirstId(c) \in 1..Len(rows[c.table]) /\ rows[c.table][FirstId(c)].user = c.user /\ rows[c.table][FirstId(c)].to = c.to
    BY <1>3, <2>1, Matched
  <2>3. e \in HeldRow /\ e.table = c.table /\ Copies(h.req, e, rows)  BY <1>3, <2>2, HeldProperty
  <2> HIDE DEF e
  <2>4. more \in Seq(HeldRow) /\ HeldIn(h.req, more, rows)  BY <1>2, <2>3, AppendHeld
  <2>5. h.pc + n <= Len(CallsOf[h.req]) => OutlineAt(h.req, h.pc + n, more, h.group)
    <3>1. n = IF CallsOf[h.req][h.pc].do = "FirstOr" THEN 2 ELSE 1  BY <1>0, <1>2
    <3>2. CallsOf[h.req][h.pc].do \in {"First", "FirstOr", "Insert"} /\ e.table = CallsOf[h.req][h.pc].table
      BY <1>0, <1>2, <2>3
    <3> HIDE DEF n, more
    <3> QED  BY <1>2, <2>3, <3>1, <3>2, OneMoreNext DEF more
  <2>6. Skip(s, x, n)  BY <1>7 DEF e
  <2> HIDE DEF more
  <2>7. BodyOK(x) /\ x.req = h.req /\ x.pc = h.pc /\ x.held = more /\ x.group = h.group  BY <1>2, <2>4, WithHeld
  <2>8. n \in Int  OBVIOUS
  <2> HIDE DEF x, n
  <2>9. HeldIn(x.req, x.held, rows')  BY <1>1, <2>4, <2>7
  <2>10. Moved(s)  BY <1>0, <2>5, <2>6, <2>7, <2>8, <2>9, GoesOn
  <2> QED  BY <1>1, <2>10, SameTables
<1> QED  BY <1>4, <1>5, <1>6, <1>7

LEMMA FindSessionTyped ==
  ASSUME Typed, NEW s \in Slots, FindSession(s)
  PROVE  StepTyped(s)
<1>1. UNCHANGED <<tables, cache, bounds, history>> /\ run[s] # Idle /\ CallOf(s).do = "IfNone"
  BY DEF FindSession, At
<1>2. UNCHANGED rows /\ Grown(rows, rows') /\ UNCHANGED <<tables, cache, miscounted>>
  BY <1>1, SameRows DEF tables, history
<1>3. CASE GoOn(s, run[s])
  <2>1. Moved(s)  BY <1>1, <1>2, <1>3, GoesOnAsIs DEF Changing
  <2> QED  BY <1>2, <2>1, SameTables
<1>4. CASE Return(s)  BY <1>2, <1>4, GivesUp, SameTables
<1> QED  BY <1>3, <1>4 DEF FindSession

LEMMA InsertRowTyped ==
  ASSUME Typed, NEW s \in Slots, InsertRow(s)
  PROVE  StepTyped(s)
<1> DEFINE c == CallOf(s)
           h == run[s]
           row == [user |-> c.user, to |-> c.to, status |-> c.status, live |-> TRUE]
           e == [table |-> c.table, id |-> Len(rows[c.table]) + 1, row |-> row]
           more == Append(h.held, e)
           x == [h EXCEPT !.held = more]
<1>0. /\ run[s] # Idle /\ c.do = "Insert" /\ UNCHANGED <<users, groups, cache, bounds, history>>
      /\ rows' = [rows EXCEPT ![c.table] = Append(@, row)] /\ GoOn(s, x)
  BY DEF InsertRow, At
<1>2. /\ h.req \in Requests /\ BodyOK(h) /\ OutlineAt(h.req, h.pc, h.held, h.group)
      /\ HeldIn(h.req, h.held, rows) /\ h.held \in Seq(HeldRow) /\ h.pc \in Int
      /\ Fits(h.req, c) /\ c = CallsOf[h.req][h.pc]
  BY <1>0, Here
<1> HIDE DEF c, h
<1>3. RowTopic(h.req, c.table, c.user, c.to) /\ c.table \in Tables /\ c.status \in RowSts /\ c.user \in Users /\ c.to \in Ids
  BY <1>0, <1>2 DEF Fits, RowCall, RowTopic
<1>4. row \in Row /\ row.user = c.user /\ row.to = c.to  BY <1>3 DEF Row
<1> HIDE DEF row
<1>5. /\ RowsFrame(h.req) /\ Len(rows[c.table]) \in Nat /\ Len(rows'[c.table]) = Len(rows[c.table]) + 1
      /\ rows'[c.table][Len(rows[c.table]) + 1] = row
  <2>1. Added(c.table, row)  BY <1>0 DEF Added
  <2> QED  BY <1>3, <1>4, <2>1, RowAdded
<1>6. Grown(rows, rows')  BY <1>5 DEF RowsFrame
<1>7. e \in HeldRow /\ e.table = c.table  BY <1>3, <1>4, <1>5 DEF HeldRow
<1>8. Copies(h.req, e, rows')  BY <1>3, <1>4, <1>5 DEF Copies
<1> HIDE DEF e
<1>9. HeldIn(h.req, h.held, rows')  BY <1>2, <1>6, GrownHeld
<1>10. more \in Seq(HeldRow) /\ HeldIn(h.req, more, rows')  BY <1>2, <1>7, <1>8, <1>9, AppendHeld
<1>11. h.pc + 1 <= Len(CallsOf[h.req]) => OutlineAt(h.req, h.pc + 1, more, h.group)
  <2>1. CallsOf[h.req][h.pc].do = "Insert" /\ e.table = CallsOf[h.req][h.pc].table  BY <1>0, <1>2, <1>7
  <2> QED  BY <1>2, <1>7, <2>1, OneMoreNext
<1> HIDE DEF more
<1>12. BodyOK(x) /\ x.req = h.req /\ x.pc = h.pc /\ x.held = more /\ x.group = h.group  BY <1>2, <1>10, WithHeld
<1> HIDE DEF x
<1>13. HeldIn(x.req, x.held, rows')  BY <1>10, <1>12
<1>14. x.pc + 1 <= Len(CallsOf[x.req]) => OutlineAt(x.req, x.pc + 1, x.held, x.group)  BY <1>11, <1>12
<1>15. run[s] # Idle /\ BodyOK(x) /\ x.req = run[s].req /\ x.pc = run[s].pc /\ GoOn(s, x)  BY <1>0, <1>12 DEF h
<1>16. Moved(s)  BY <1>13, <1>14, <1>15, GoesOnOne
<1> QED  BY <1>0, <1>5, <1>16 DEF StepTyped, h, Typed, UsersFrame, GroupsFrame, history

LEMMA SaveRowTyped ==
  ASSUME Typed, NEW s \in Slots, SaveRow(s)
  PROVE  StepTyped(s)
<1> DEFINE c == CallOf(s)
           h == run[s]
           e == h.held[1]
           rest == Tail(h.held)
           x == [h EXCEPT !.held = rest]
           new == Put(e.row, c.status, TRUE)
<1>0. /\ run[s] # Idle /\ c.do = "Save" /\ UNCHANGED <<users, groups, cache, bounds, history>>
      /\ rows' = [rows EXCEPT ![c.table][Head(h.held).id] = Put(Head(h.held).row, c.status, TRUE)] /\ GoOn(s, x)
  BY DEF SaveRow, At
<1>2. /\ h.req \in Requests /\ BodyOK(h) /\ OutlineAt(h.req, h.pc, h.held, h.group)
      /\ HeldIn(h.req, h.held, rows) /\ h.held \in Seq(HeldRow) /\ h.pc \in Int
      /\ Fits(h.req, c) /\ c = CallsOf[h.req][h.pc]
  BY <1>0, Here
<1> HIDE DEF c, h
<1>3. Len(h.held) >= 1 /\ e.table = c.table  BY <1>0, <1>2, SaveInHand
<1>4. h.held # <<>>
  <2>1. Len(h.held) # 0  BY <1>2, <1>3
  <2> QED  BY <1>2, <2>1, EmptySeq, Zenon
<1>5. rest \in Seq(HeldRow) /\ HeldIn(h.req, rest, rows) /\ Head(h.held) = e /\ e \in HeldRow /\ Copies(h.req, e, rows)
  BY <1>2, <1>4, TailHeld
<1> HIDE DEF e
<1>6. c.table \in Tables /\ NewStatus(c.status)  BY <1>0, <1>2 DEF Fits, RowCall
<1>7. e.row \in Row  BY <1>5 DEF HeldRow
<1>8. new \in Row /\ new.user = e.row.user /\ new.to = e.row.to  BY <1>6, <1>7, PutKeeps
<1>9. rows' = [rows EXCEPT ![c.table][e.id] = new]  BY <1>0, <1>5
<1> HIDE DEF new
<1>10. /\ e.id \in 1..Len(rows[c.table]) /\ rows[c.table][e.id].user = new.user /\ rows[c.table][e.id].to = new.to
       /\ RowTopic(h.req, c.table, new.user, new.to)
  BY <1>3, <1>5, <1>8 DEF Copies
<1>11. RowsFrame(h.req)  BY <1>6, <1>8, <1>9, <1>10, RowWritten
<1>12. Grown(rows, rows')  BY <1>11 DEF RowsFrame
<1>13. HeldIn(h.req, rest, rows')  BY <1>5, <1>12, GrownHeld
<1>14. h.pc + 1 <= Len(CallsOf[h.req]) => OutlineAt(h.req, h.pc + 1, rest, h.group)
  BY <1>0, <1>2, SaveOutline
<1> HIDE DEF rest
<1>15. BodyOK(x) /\ x.req = h.req /\ x.pc = h.pc /\ x.held = rest /\ x.group = h.group  BY <1>2, <1>5, WithHeld
<1> HIDE DEF x
<1>16. HeldIn(x.req, x.held, rows')  BY <1>13, <1>15
<1>17. x.pc + 1 <= Len(CallsOf[x.req]) => OutlineAt(x.req, x.pc + 1, x.held, x.group)  BY <1>14, <1>15
<1>18. run[s] # Idle /\ BodyOK(x) /\ x.req = run[s].req /\ x.pc = run[s].pc /\ GoOn(s, x)  BY <1>0, <1>15 DEF h
<1>19. Moved(s)  BY <1>16, <1>17, <1>18, GoesOnOne
<1> QED  BY <1>0, <1>11, <1>19 DEF StepTyped, h, Typed, UsersFrame, GroupsFrame, history

LEMMA UpdateRowsTyped ==
  ASSUME Typed, NEW s \in Slots, UpdateRows(s)
  PROVE  StepTyped(s)
<1> DEFINE c == CallOf(s)
           h == run[s]
           old == rows[c.table]
           q == [i \in DOMAIN old |-> IF i \in Matching(c) THEN Put(old[i], c.status, c.live) ELSE old[i]]
<1>0. /\ run[s] # Idle /\ c.do = "Update" /\ UNCHANGED <<users, groups, cache, bounds, history>>
      /\ rows' = [rows EXCEPT ![c.table] = q] /\ GoOn(s, h)
  BY DEF UpdateRows, At
<1>2. Fits(h.req, c)  BY <1>0, Here
<1> HIDE DEF c
<1>3. /\ RowTopic(h.req, c.table, c.user, c.to) /\ c.table \in Tables
      /\ NewStatus(c.status) /\ c.live \in BOOLEAN
  BY <1>0, <1>2 DEF Fits, RowCall, RowTopic
<1>4. old \in Seq(Row) /\ DOMAIN old = 1..Len(old) /\ Len(old) \in Nat  BY <1>3 DEF Typed
<1>5. ASSUME NEW i \in 1..Len(old)
      PROVE  /\ q[i] \in Row /\ q[i].user = old[i].user /\ q[i].to = old[i].to
             /\ q[i] = old[i] \/ RowTopic(h.req, c.table, q[i].user, q[i].to)
  <2>1. old[i] \in Row  BY <1>4
  <2>2. CASE i \in Matching(c)
    <3>1. q[i] = Put(old[i], c.status, c.live)  BY <1>4, <2>2
    <3>2. old[i].user = c.user /\ old[i].to = c.to  BY <1>3, <2>2, Matched
    <3> HIDE DEF q, old
    <3>3. q[i] \in Row /\ q[i].user = old[i].user /\ q[i].to = old[i].to  BY <1>3, <2>1, <3>1, PutKeeps
    <3> QED  BY <1>3, <3>2, <3>3
  <2>3. CASE i \notin Matching(c)
    <3>1. q[i] = old[i]  BY <1>4, <2>3
    <3> QED  BY <2>1, <3>1
  <2> QED  BY <2>2, <2>3
<1>6. Len(q) = Len(old) /\ DOMAIN q = 1..Len(old)  BY <1>4
<1>7. q \in Seq(Row)
  <2>1. q \in [1..Len(old) -> Row]  BY <1>4, <1>5
  <2> HIDE DEF q, old
  <2> QED  BY <1>4, <2>1
<1> HIDE DEF q
<1>8. RowsFrame(h.req)
  <2>1. /\ Len(rows[c.table]) <= Len(q)
        /\ \A i \in 1..Len(rows[c.table]) : q[i].user = rows[c.table][i].user /\ q[i].to = rows[c.table][i].to
        /\ \A i \in 1..Len(q) : \/ i \in 1..Len(rows[c.table]) /\ q[i] = rows[c.table][i]
                                \/ RowTopic(h.req, c.table, q[i].user, q[i].to)
    BY <1>4, <1>5, <1>6
  <2>2. rows' = [rows EXCEPT ![c.table] = q]  BY <1>0
  <2> QED  BY <1>3, <1>7, <2>1, <2>2, TableWritten
<1>9. Grown(rows, rows')  BY <1>8 DEF RowsFrame
<1>10. Moved(s)  BY <1>0, <1>9, GoesOnAsIs DEF Changing, c
<1> QED  BY <1>0, <1>8, <1>10 DEF StepTyped, Typed, UsersFrame, GroupsFrame, history

LEMMA FoundRows ==
  ASSUME Typed, NEW r, NEW c, c.table \in Tables, c.do \in {"Find", "FindEither"}, RowCall(r, c), NEW i \in FoundBy(c)
  PROVE  /\ i \in 1..Len(rows[c.table]) /\ rows[c.table][i].live
         /\ RowTopic(r, c.table, rows[c.table][i].user, rows[c.table][i].to)
         /\ c.do = "Find" => rows[c.table][i].user \in c.from /\ rows[c.table][i].to = c.to
         /\ c.do = "FindEither" => c.who \in {rows[c.table][i].user, rows[c.table][i].to}
<1> DEFINE x == rows[c.table][i]
<1>1. i \in LiveRows(c.table)
      /\ (IF c.do = "Find" THEN x.user \in c.from /\ x.to = c.to ELSE c.who \in {x.user, x.to})
  BY DEF FoundBy
<1>2. rows[c.table] \in Seq(Row)  BY DEF Typed
<1>3. i \in 1..Len(rows[c.table]) /\ x.live  BY <1>1, <1>2 DEF LiveRows
<1>4. x \in Row  BY <1>2, <1>3
<1> HIDE DEF x
<1>5. x.user \in Users /\ x.to \in Ids  BY <1>4 DEF Row
<1>6. CASE c.do = "Find"
  <2>1. RowTopic(r, c.table, x.user, x.to)  BY <1>1, <1>6 DEF RowCall
  <2> QED  BY <1>1, <1>3, <1>6, <2>1 DEF x
<1>7. CASE c.do = "FindEither"
  <2>1. EitherTopic(r, c.table, c.who) /\ c.who \in {x.user, x.to}  BY <1>1, <1>7 DEF RowCall
  <2>2. RowTopic(r, c.table, x.user, x.to)  BY <1>5, <2>1 DEF EitherTopic
  <2> QED  BY <1>3, <1>7, <2>1, <2>2 DEF x
<1> QED  BY <1>6, <1>7

\* The rows in hand after Find: those found, each once.
FoundList(c) == [n \in 1..Cardinality(FoundBy(c)) |-> Held(c.table, Nth(FoundBy(c), n))]

LEMMA FoundListHolds ==
  ASSUME Typed, NEW r, NEW c, c.table \in Tables, c.do \in {"Find", "FindEither"}, RowCall(r, c),
         NEW q, q = FoundList(c)
  PROVE  /\ q \in Seq(HeldRow) /\ HeldIn(r, q, rows)
         /\ \A n \in 1..Len(q) : q[n].table = c.table /\ q[n].id \in FoundBy(c) /\ q[n].row = rows[c.table][q[n].id]
         /\ \A i \in FoundBy(c) : \E n \in 1..Len(q) : q[n].id = i
<1> DEFINE F == FoundBy(c)
           m == Len(rows[c.table])
           k == Cardinality(F)
<1>1. \A i \in F : i \in 1..m /\ RowTopic(r, c.table, rows[c.table][i].user, rows[c.table][i].to)  BY FoundRows
<1>2. m \in Nat  BY DEF Typed
<1>3. q = [n \in 1..k |-> Held(c.table, Nth(F, n))]  BY DEF FoundList
<1> HIDE DEF F, m, k
<1>4. F \in SUBSET (1..m)  BY <1>1
<1>5. /\ k \in Nat /\ \A n \in 1..k : Nth(F, n) \in F
      /\ \A i \in F : \E n \in 1..k : Nth(F, n) = i
  BY <1>2, <1>4, NthProperties DEF k
<1>6. ASSUME NEW i \in F
      PROVE  /\ Held(c.table, i) \in HeldRow /\ Held(c.table, i).table = c.table /\ Held(c.table, i).id = i
             /\ Held(c.table, i).row = rows[c.table][i] /\ Copies(r, Held(c.table, i), rows)
  BY <1>1, <1>6, HeldProperty DEF m
<1>7. q \in Seq(HeldRow) /\ Len(q) = k /\ \A n \in 1..k : q[n] = Held(c.table, Nth(F, n))
  <2>1. q \in [1..k -> HeldRow]  BY <1>3, <1>5, <1>6
  <2>2. \A n \in 1..k : q[n] = Held(c.table, Nth(F, n))  BY <1>3
  <2>3. q \in Seq(HeldRow) /\ Len(q) = k  BY <1>5, <2>1
  <2> QED  BY <2>2, <2>3
<1>8. ASSUME NEW n \in 1..Len(q)
      PROVE  q[n].table = c.table /\ q[n].id \in F /\ q[n].row = rows[c.table][q[n].id] /\ Copies(r, q[n], rows)
  <2>1. Nth(F, n) \in F /\ q[n] = Held(c.table, Nth(F, n))  BY <1>5, <1>7, <1>8
  <2> QED  BY <1>6, <2>1
<1>9. ASSUME NEW i \in F  PROVE \E n \in 1..Len(q) : q[n].id = i
  <2>1. PICK n \in 1..k : Nth(F, n) = i  BY <1>5
  <2>2. n \in 1..Len(q) /\ q[n].id = i  BY <1>6, <1>7, <2>1
  <2> QED  BY <2>2
<1> QED  BY <1>7, <1>8, <1>9 DEF HeldIn, F

LEMMA FindRowsTyped ==
  ASSUME Typed, NEW s \in Slots, FindRows(s)
  PROVE  StepTyped(s)
<1> DEFINE c == CallOf(s)
           h == run[s]
           q == FoundList(c)
           x == [h EXCEPT !.held = q]
<1>0. run[s] # Idle /\ c.do \in {"Find", "FindEither"} /\ UNCHANGED <<tables, cache, bounds, history>> /\ GoOn(s, x)
  BY DEF FindRows, At, FoundList
<1>1. UNCHANGED rows /\ Grown(rows, rows') /\ UNCHANGED <<tables, cache, miscounted>>
  BY <1>0, SameRows DEF tables, history
<1>2. /\ h.req \in Requests /\ BodyOK(h) /\ OutlineAt(h.req, h.pc, h.held, h.group)
      /\ h.pc \in Int /\ Fits(h.req, c) /\ c = CallsOf[h.req][h.pc]
  BY <1>0, Here
<1> HIDE DEF c, h
<1>3. c.table \in Tables /\ RowCall(h.req, c)  BY <1>0, <1>2 DEF Fits, RowCall
<1>4. q \in Seq(HeldRow) /\ HeldIn(h.req, q, rows) /\ \A n \in 1..Len(q) : q[n].table = c.table
  BY <1>0, <1>3, FoundListHolds
<1> HIDE DEF q
<1>5. BodyOK(x) /\ x.req = h.req /\ x.pc = h.pc /\ x.held = q /\ x.group = h.group  BY <1>2, <1>4, WithHeld
<1> HIDE DEF x
<1>6. h.pc + 1 <= Len(CallsOf[h.req]) => OutlineAt(h.req, h.pc + 1, q, h.group)
  BY <1>0, <1>2, <1>4, FoundNext
<1>7. x.pc + 1 <= Len(CallsOf[x.req]) => OutlineAt(x.req, x.pc + 1, x.held, x.group)  BY <1>5, <1>6
<1>8. HeldIn(x.req, x.held, rows')  BY <1>1, <1>4, <1>5
<1>9. run[s] # Idle /\ x.req = run[s].req /\ x.pc = run[s].pc  BY <1>0, <1>5 DEF h
<1>10. Moved(s)  BY <1>0, <1>5, <1>7, <1>8, <1>9, GoesOnOne
<1> QED  BY <1>1, <1>10, SameTables

LEMMA EachRowTyped ==
  ASSUME Typed, NEW s \in Slots, EachRow(s)
  PROVE  StepTyped(s)
<1> DEFINE c == CallOf(s)
           h == run[s]
           e == h.held[1]
           rest == Tail(h.held)
           x == [h EXCEPT !.held = rest]
           old == rows[c.table][e.id]
           new == IF c.how = "save" THEN e.row ELSE [old EXCEPT !.live = FALSE]
<1>0. run[s] # Idle /\ c.do = "EachFound" /\ UNCHANGED <<users, groups, cache, bounds, history>>
  BY DEF EachRow, At
<1>2. /\ h.req \in Requests /\ BodyOK(h) /\ OutlineAt(h.req, h.pc, h.held, h.group)
      /\ HeldIn(h.req, h.held, rows) /\ h.held \in Seq(HeldRow) /\ h.pc \in Int
      /\ Fits(h.req, c) /\ c = CallsOf[h.req][h.pc]
  BY <1>0, Here
<1>3. CASE h.held = <<>>
  <2>1. UNCHANGED rows /\ GoOn(s, run[s])  BY <1>3 DEF EachRow
  <2>2. Grown(rows, rows') /\ UNCHANGED <<tables, cache, miscounted>>  BY <1>0, <2>1, SameRows DEF tables, history
  <2>3. Moved(s)  BY <1>0, <2>1, <2>2, GoesOnAsIs DEF Changing
  <2> QED  BY <2>2, <2>3, SameTables
<1>4. CASE h.held # <<>>
  <2>0. rest \in Seq(HeldRow) /\ HeldIn(h.req, rest, rows) /\ Head(h.held) = e /\ e \in HeldRow /\ Copies(h.req, e, rows)
    BY <1>2, <1>4, TailHeld
  <2>1. /\ rows' = [rows EXCEPT ![c.table][Head(h.held).id] =
                      IF c.how = "save" THEN Head(h.held).row ELSE [@ EXCEPT !.live = FALSE]]
        /\ Stay(s, x)
    BY <1>4 DEF EachRow
  <2>2. rows' = [rows EXCEPT ![c.table][e.id] = new]  BY <2>0, <2>1
  <2> HIDE DEF c, h
  <2>3. e.table = c.table /\ OutlineAt(h.req, h.pc, rest, h.group)
    <3>1. CallsOf[h.req][h.pc].do = "EachFound"  BY <1>0, <1>2
    <3>2. h.held[1].table = CallsOf[h.req][h.pc].table /\ OutlineAt(h.req, h.pc, Tail(h.held), h.group)
      BY <1>2, <1>4, <3>1, EachOutline
    <3> QED  BY <1>2, <3>2
  <2> HIDE DEF rest, e
  <2>4. c.table \in Tables  BY <1>0, <1>2 DEF Fits, RowCall
  <2>5. e.id \in 1..Len(rows[c.table]) /\ old.user = e.row.user /\ old.to = e.row.to
        /\ RowTopic(h.req, c.table, e.row.user, e.row.to)
    BY <2>0, <2>3 DEF Copies
  <2>6. old \in Row /\ e.row \in Row  BY <2>0, <2>4, <2>5, TypedRow DEF HeldRow
  <2> HIDE DEF old
  <2>7. new \in Row /\ new.user = e.row.user /\ new.to = e.row.to  BY <2>5, <2>6 DEF Row
  <2> HIDE DEF new
  <2>8. new.user = rows[c.table][e.id].user /\ new.to = rows[c.table][e.id].to /\ RowTopic(h.req, c.table, new.user, new.to)
    BY <2>5, <2>7 DEF old
  <2>9. RowsFrame(h.req)  BY <2>2, <2>4, <2>5, <2>7, <2>8, RowWritten
  <2>10. Grown(rows, rows')  BY <2>9 DEF RowsFrame
  <2>11. HeldIn(h.req, rest, rows')  BY <2>0, <2>10, GrownHeld
  <2>12. BodyOK(x) /\ x.req = h.req /\ x.pc = h.pc /\ x.held = rest /\ x.group = h.group  BY <1>2, <2>0, WithHeld
  <2> HIDE DEF x
  <2>13. HeldIn(x.req, x.held, rows') /\ OutlineAt(x.req, x.pc, x.held, x.group)  BY <2>3, <2>11, <2>12
  <2>14. x.req = run[s].req /\ x.pc = run[s].pc  BY <2>12 DEF h
  <2>15. Moved(s)  BY <1>0, <2>1, <2>12, <2>13, <2>14, StaysPut
  <2> QED  BY <1>0, <2>9, <2>15 DEF StepTyped, h, Typed, UsersFrame, GroupsFrame, history
<1> QED  BY <1>3, <1>4

\* A step that writes neither a table nor a list.
LEMMA OnlyMoves ==
  ASSUME Typed, NEW s \in Slots, UNCHANGED <<tables, cache, bounds, history>>
  PROVE  /\ Grown(rows, rows') /\ UNCHANGED rows
         /\ Moved(s) => StepTyped(s)
         /\ Return(s) => StepTyped(s)
         /\ run[s] # Idle /\ CallOf(s).do \notin Changing \cup {"FirstGroup"} /\ GoOn(s, run[s]) => StepTyped(s)
<1>1. Grown(rows, rows') /\ UNCHANGED rows /\ UNCHANGED <<tables, cache, miscounted>>
  BY SameRows DEF tables, history
<1>2. Moved(s) => StepTyped(s)  BY <1>1, SameTables
<1>3. Return(s) => StepTyped(s)  BY <1>2, GivesUp
<1>4. run[s] # Idle /\ CallOf(s).do \notin Changing \cup {"FirstGroup"} /\ GoOn(s, run[s]) => StepTyped(s)
  BY <1>1, <1>2, GoesOnAsIs
<1> QED  BY <1>1, <1>2, <1>3, <1>4

LEMMA SubjectUsers ==
  ASSUME NEW r \in Requests, r.op \in UserOps
  PROVE  Subjects(r) \subseteq Users
<1>1. CASE r.op = "UpdateUserInfo"
  BY <1>1, RequestOK DEF WellFormed, Subjects, Lists
<1>2. CASE r.op # "UpdateUserInfo"
  <2>1. r.uuids \in Seq(Users)  BY <1>2, RequestOK DEF WellFormed, UserOps, Lists
  <2>2. DOMAIN r.uuids = 1..Len(r.uuids) /\ \A i \in 1..Len(r.uuids) : r.uuids[i] \in Users  BY <2>1, IdsIn
  <2>3. ToSet(r.uuids) \subseteq Users  BY <2>2 DEF ToSet
  <2> QED  BY <1>2, <2>3 DEF Subjects
<1> QED  BY <1>1, <1>2

LEMMA ChangedUserType ==
  ASSUME NEW u \in UserRow, NEW how \in {"able", "disable", "delete", "same"}
  PROVE  /\ ChangedUser(u, how) \in UserRow
         /\ how = "same" => ChangedUser(u, how) = u
         /\ how = "able" => ChangedUser(u, how).live = u.live
         /\ how = "disable" => ChangedUser(u, how).live = u.live /\ ChangedUser(u, how).status = "DISABLE"
         /\ how = "delete" => ~ChangedUser(u, how).live /\ ChangedUser(u, how).status = u.status
BY DEF ChangedUser, UserRow, UserSts

LEMMA NoGroupType == NoGroup \in GroupRow
<1>1. <<>> \in Seq(Users)  OBVIOUS
<1> QED  BY <1>1 DEF NoGroup, GroupRow, GroupSts

LEMMA ReadUserTyped ==
  ASSUME Typed, NEW s \in Slots, ReadUser(s)
  PROVE  StepTyped(s)
<1> DEFINE c == CallOf(s)
           u == users[c.who]
           p == [v \in {c.who} |-> u]
           x == [run[s] EXCEPT !.people = p]
<1>0. run[s] # Idle /\ c.do \in {"FirstUser", "FindUser"} /\ UNCHANGED <<tables, cache, bounds, history>>
      /\ (GoOn(s, x) \/ Return(s))
  BY DEF ReadUser, At
<1>1. /\ run[s].req \in Requests /\ BodyOK(run[s]) /\ Fits(run[s].req, c)
  BY <1>0, Here
<1>2. c.who \in Users /\ u \in UserRow  BY <1>0, <1>1 DEF Fits, UserCall, Typed
<1>3. DOMAIN p \subseteq Users /\ \A v \in DOMAIN p : p[v] \in UserRow  BY <1>2
<1> HIDE DEF p
<1>4. BodyOK(x) /\ x.req = run[s].req /\ x.pc = run[s].pc /\ x.held = run[s].held /\ x.group = run[s].group
  BY <1>1, <1>3, WithPeople
<1> HIDE DEF x
<1>5. Grown(rows, rows')  BY <1>0, OnlyMoves
<1>6. GoOn(s, x) => Moved(s)  BY <1>0, <1>4, <1>5, GoesOnPlainly DEF Changing
<1> QED  BY <1>0, <1>6, OnlyMoves

LEMMA ReadUsersTyped ==
  ASSUME Typed, NEW s \in Slots, ReadUsers(s)
  PROVE  StepTyped(s)
<1> DEFINE c == CallOf(s)
           found == {u \in ToSet(c.uuids) : users[u].live}
           p == [u \in found |-> users[u]]
           x == [run[s] EXCEPT !.people = p]
<1>0. run[s] # Idle /\ c.do = "FindUsers" /\ UNCHANGED <<tables, cache, bounds, history>> /\ GoOn(s, x)
  BY DEF ReadUsers, At
<1>1. run[s].req \in Requests /\ BodyOK(run[s]) /\ Fits(run[s].req, c)  BY <1>0, Here
<1>2. found \subseteq Users
  <2>1. ToSet(c.uuids) \subseteq Subjects(run[s].req) /\ run[s].req.op \in UserOps
    BY <1>0, <1>1 DEF Fits, UserCall
  <2>2. Subjects(run[s].req) \subseteq Users  BY <1>1, <2>1, SubjectUsers
  <2> QED  BY <2>1, <2>2
<1>3. DOMAIN p \subseteq Users /\ \A v \in DOMAIN p : p[v] \in UserRow  BY <1>2 DEF Typed
<1> HIDE DEF p
<1>4. BodyOK(x) /\ x.req = run[s].req /\ x.pc = run[s].pc /\ x.held = run[s].held /\ x.group = run[s].group
  BY <1>1, <1>3, WithPeople
<1> HIDE DEF x
<1>5. Grown(rows, rows')  BY <1>0, OnlyMoves
<1>6. Moved(s)  BY <1>0, <1>4, <1>5, GoesOnPlainly DEF Changing
<1> QED  BY <1>0, <1>6, OnlyMoves

LEMMA CheckTelephoneTyped ==
  ASSUME Typed, NEW s \in Slots, CheckTelephoneExist(s)
  PROVE  StepTyped(s)
<1>1. UNCHANGED <<tables, cache, bounds, history>> /\ run[s] # Idle /\ CallOf(s).do = "IfNoTelephone"
      /\ (GoOn(s, run[s]) \/ Return(s))
  BY DEF CheckTelephoneExist, At
<1> QED  BY <1>1, OnlyMoves DEF Changing

LEMMA InsertUserTyped ==
  ASSUME Typed, NEW s \in Slots, InsertUserRow(s)
  PROVE  StepTyped(s)
<1> DEFINE u == CallOf(s).who
           new == [live |-> TRUE, status |-> "NORMAL"]
<1>0. run[s] # Idle /\ CallOf(s).do = "InsertUser" /\ UNCHANGED <<rows, groups, cache, bounds, history>>
      /\ users' = [users EXCEPT ![u] = new] /\ GoOn(s, run[s])
  BY DEF InsertUserRow, At
<1>1. run[s].req \in Requests /\ Fits(run[s].req, CallOf(s))  BY <1>0, Here
<1>2. u \in Users /\ run[s].req.op = "Register" /\ u = run[s].req.owner  BY <1>0, <1>1 DEF Fits, UserCall
<1>3. OfTel(TelOf[u]) \in AboutOf[run[s].req]  BY <1>1, <1>2, AboutOneself
<1>4. new \in UserRow  BY DEF UserRow, UserSts
<1> HIDE DEF u, new
<1>5. UsersFrame(run[s].req)  BY <1>0, <1>2, <1>3, <1>4 DEF UsersFrame, Typed
<1>6. RowsFrame(run[s].req) /\ Grown(rows, rows')  BY <1>0, SameRows
<1>7. Moved(s)  BY <1>0, <1>6, GoesOnAsIs DEF Changing
<1> QED  BY <1>0, <1>5, <1>6, <1>7 DEF StepTyped, GroupsFrame, Typed, history

LEMMA SaveUserTyped ==
  ASSUME Typed, NEW s \in Slots, SaveUserRow(s)
  PROVE  StepTyped(s)
<1> DEFINE c == CallOf(s)
           h == run[s]
           new == ChangedUser(h.people[c.who], c.how)
<1>0. run[s] # Idle /\ c.do = "SaveUser" /\ UNCHANGED <<rows, groups, cache, bounds, history>>
      /\ IF c.who \in DOMAIN h.people THEN GoOn(s, h) /\ users' = [users EXCEPT ![c.who] = new]
                                       ELSE Skip(s, h, c.rest + 1) /\ UNCHANGED users
  BY DEF SaveUserRow, At
<1>1. /\ h.req \in Requests /\ BodyOK(h) /\ Fits(h.req, c) /\ OutlineAt(h.req, h.pc, h.held, h.group)
      /\ c = CallsOf[h.req][h.pc] /\ HeldIn(h.req, h.held, rows)
  BY <1>0, Here
<1> HIDE DEF c
<1>2. c.who \in Users /\ h.req.op \in UserOps /\ c.who \in Subjects(h.req) /\ c.rest \in Nat
      /\ c.how \in {"able", "disable", "delete", "same"}
  BY <1>0, <1>1 DEF Fits, UserCall, UserOps
<1>3. OfTel(TelOf[c.who]) \in AboutOf[h.req]  BY <1>1, <1>2, AboutAccount DEF AccountTopic
<1>4. RowsFrame(h.req) /\ Grown(rows, rows')  BY <1>0, SameRows
<1>5. CASE c.who \in DOMAIN h.people
  <2>1. h.people[c.who] \in UserRow  BY <1>1, <1>5 DEF BodyOK
  <2>2. new \in UserRow  BY <1>2, <2>1, ChangedUserType
  <2>3. UsersFrame(h.req)  BY <1>0, <1>2, <1>3, <1>5, <2>2 DEF UsersFrame, Typed
  <2>4. Moved(s)  BY <1>0, <1>4, <1>5, GoesOnAsIs DEF Changing, c
  <2> QED  BY <1>0, <1>4, <2>3, <2>4 DEF StepTyped, GroupsFrame, Typed, history
<1>6. CASE c.who \notin DOMAIN h.people
  <2> DEFINE n == c.rest + 1
  <2>1. Skip(s, h, n) /\ UNCHANGED users  BY <1>0, <1>6
  <2>2. n \in Int /\ n = CallsOf[h.req][h.pc].rest + 1
    <3>1. n = CallsOf[h.req][h.pc].rest + 1  BY <1>1
    <3>2. c.rest \in Nat  BY <1>2
    <3> QED  BY <3>1, <3>2
  <2> HIDE DEF n
  <2>3. h.pc + n <= Len(CallsOf[h.req]) => OutlineAt(h.req, h.pc + n, h.held, h.group)
    <3>1. CallsOf[h.req][h.pc].do = "SaveUser"  BY <1>0, <1>1
    <3> QED  BY <1>1, <2>2, <3>1, SkippedNext
  <2>4. HeldIn(h.req, h.held, rows')  BY <1>0, <1>1
  <2>5. Moved(s)  BY <1>0, <1>1, <2>1, <2>2, <2>3, <2>4, GoesOn
  <2> QED  BY <1>0, <1>4, <2>1, <2>5 DEF StepTyped, UsersFrame, GroupsFrame, Typed, history
<1> QED  BY <1>5, <1>6
-----------------------------------------------------------------------------
LEMMA InsertGroupTyped ==
  ASSUME Typed, NEW s \in Slots, InsertGroupRow(s)
  PROVE  StepTyped(s)
<1> DEFINE g == CallOf(s).group
           new == [live |-> TRUE, members |-> <<OwnerOf[g]>>, cnt |-> 1, status |-> "NORMAL"]
<1>0. run[s] # Idle /\ CallOf(s).do = "InsertGroup" /\ UNCHANGED <<users, rows, cache, bounds, history>>
      /\ groups' = [groups EXCEPT ![g] = new] /\ GoOn(s, run[s])
  BY DEF InsertGroupRow, At
<1>1. run[s].req \in Requests /\ Fits(run[s].req, CallOf(s))  BY <1>0, Here
<1>2. GroupTopic(run[s].req, g)  BY <1>0, <1>1 DEF Fits, GroupCall
<1>3. g \in Groups  BY <1>2 DEF GroupTopic
<1>4. new \in GroupRow
  <2>1. OwnerOf[g] \in Users  BY <1>3, MembershipAssumption
  <2>2. <<OwnerOf[g]>> \in Seq(Users)  BY <2>1
  <2> QED  BY <2>2 DEF GroupRow, GroupSts
<1> HIDE DEF g, new
<1>5. GroupsFrame(run[s].req)  BY <1>0, <1>2, <1>3, <1>4 DEF GroupsFrame, Typed
<1>6. RowsFrame(run[s].req) /\ Grown(rows, rows')  BY <1>0, SameRows
<1>7. Moved(s)  BY <1>0, <1>6, GoesOnAsIs DEF Changing
<1> QED  BY <1>0, <1>5, <1>6, <1>7 DEF StepTyped, UsersFrame, Typed, history

LEMMA ReadGroupTyped ==
  ASSUME Typed, NEW s \in Slots, ReadGroup(s)
  PROVE  StepTyped(s)
<1> DEFINE c == CallOf(s)
           h == run[s]
           g == IF groups[c.group].live THEN groups[c.group] ELSE NoGroup
           x == [h EXCEPT !.group = g, !.uuid = c.group]
<1>0. /\ run[s] # Idle /\ c.do \in {"FirstGroup", "FindGroup"} /\ UNCHANGED <<tables, cache, bounds, history>>
      /\ (GoOn(s, x) /\ (g.live \/ c.do = "FindGroup")) \/ Return(s)
  BY DEF ReadGroup, At
<1>1. /\ h.req \in Requests /\ BodyOK(h) /\ Fits(h.req, c) /\ OutlineAt(h.req, h.pc, h.held, h.group)
      /\ c = CallsOf[h.req][h.pc] /\ HeldIn(h.req, h.held, rows)
  BY <1>0, Here
<1> HIDE DEF c, h
<1>2. /\ c.group \in Groups /\ (h.req.op = "OpenSession" \/ GroupTopic(h.req, c.group))
      /\ h.req.op = "RemoveGroupMembers" => c.do # "FindGroup"
  BY <1>0, <1>1 DEF Fits, GroupCall
<1>3. g \in GroupRow  BY <1>2, NoGroupType DEF Typed
<1> HIDE DEF g
<1>4. BodyOK(x) /\ x.req = h.req /\ x.pc = h.pc /\ x.held = h.held /\ x.group = g
  <2> DEFINE k == c.group
  <2>1. x = GroupRead(h, g, k)  BY DEF GroupRead
  <2>2. k \in Groups /\ (g.live => h.req.op = "OpenSession" \/ GroupTopic(h.req, k))  BY <1>2
  <2> HIDE DEF x, k
  <2> QED  BY <1>1, <1>3, <2>1, <2>2, WithGroup
<1> HIDE DEF x
<1>5. CASE GoOn(s, x) /\ (g.live \/ c.do = "FindGroup")
  <2>1. CallsOf[h.req][h.pc].do \notin {"First", "FirstOr", "Insert", "Save", "Find", "FindEither"}  BY <1>0, <1>1
  <2>2. h.req.op = "RemoveGroupMembers" => g.live  BY <1>2, <1>5
  <2>3. h.pc + 1 <= Len(CallsOf[h.req]) => OutlineAt(h.req, h.pc + 1, h.held, g)  BY <1>1, <2>1, <2>2, PlainNext
  <2>4. x.pc + 1 <= Len(CallsOf[x.req]) => OutlineAt(x.req, x.pc + 1, x.held, x.group)  BY <1>4, <2>3
  <2>5. HeldIn(x.req, x.held, rows')  BY <1>0, <1>1, <1>4 DEF tables
  <2>6. x.req = run[s].req /\ x.pc = run[s].pc  BY <1>4 DEF h
  <2>7. Moved(s)  BY <1>0, <1>4, <1>5, <2>4, <2>5, <2>6, GoesOnOne
  <2> QED  BY <1>0, <2>7, OnlyMoves
<1>6. CASE Return(s)  BY <1>0, <1>6, OnlyMoves
<1> QED  BY <1>0, <1>5, <1>6

LEMMA StrikeTyped ==
  ASSUME Typed, NEW s \in Slots, StrikeMember(s)
  PROVE  StepTyped(s)
<1> DEFINE c == CallOf(s)
           h == run[s]
           out == StrikeOut(h.group.members, c.who).members
           less == h.group.cnt - 1
           g == [h.group EXCEPT !.members = out, !.cnt = less]
           x == [h EXCEPT !.group = g]
<1>0. run[s] # Idle /\ c.do = "Strike" /\ UNCHANGED <<tables, cache, bounds, disturbed, ghosts>>
      /\ (GoOn(s, x) \/ Return(s)) /\ (miscounted' = miscounted \/ miscounted' = miscounted \cup {h.uuid})
  BY DEF StrikeMember, At
<1>1. /\ h.req \in Requests /\ BodyOK(h) /\ Fits(h.req, c) /\ OutlineAt(h.req, h.pc, h.held, h.group)
      /\ c = CallsOf[h.req][h.pc] /\ HeldIn(h.req, h.held, rows)
  BY <1>0, Here
<1> HIDE DEF c, h
<1>2. c.who \in Users /\ h.req.op = "RemoveGroupMembers"  BY <1>0, <1>1 DEF Fits, GroupCall
<1>3. h.group.live
  <2>1. CallsOf[h.req][h.pc].do # "FirstGroup"  BY <1>0, <1>1
  <2> QED  BY <1>1, <1>2, <2>1, RemoverHolds
<1>4. h.uuid \in Groups /\ h.group \in GroupRow  BY <1>1, <1>3 DEF BodyOK
<1>5. h.group.members \in Seq(Users)  BY <1>4 DEF GroupRow
<1>6. out \in Seq(Users)  BY <1>2, <1>5, StrikeOutKeeps
<1>7a. less \in Int  BY <1>4 DEF GroupRow
<1> HIDE DEF out, less
<1>7. g \in GroupRow /\ g.live  BY <1>3, <1>4, <1>6, <1>7a DEF GroupRow
<1> HIDE DEF g
<1>8. BodyOK(x) /\ x.req = h.req /\ x.pc = h.pc /\ x.held = h.held /\ x.group = g
  BY <1>1, <1>3, <1>7, WithStruck
<1> HIDE DEF x
<1>9. RowsFrame(h.req) /\ Grown(rows, rows')  BY <1>0, SameRows DEF tables
<1>10. Moved(s)
  <2>1. CASE GoOn(s, x)
    <3>1. CallsOf[h.req][h.pc].do \notin {"First", "FirstOr", "Insert", "Save", "Find", "FindEither"}  BY <1>0, <1>1
    <3>2. h.pc + 1 <= Len(CallsOf[h.req]) => OutlineAt(h.req, h.pc + 1, h.held, g)  BY <1>1, <1>7, <3>1, PlainNext
    <3>3. x.pc + 1 <= Len(CallsOf[x.req]) => OutlineAt(x.req, x.pc + 1, x.held, x.group)  BY <1>8, <3>2
    <3>4. HeldIn(x.req, x.held, rows')  BY <1>0, <1>1, <1>8 DEF tables
    <3>5. x.req = run[s].req /\ x.pc = run[s].pc  BY <1>8 DEF h
    <3> QED  BY <1>0, <1>8, <2>1, <3>3, <3>4, <3>5, GoesOnOne
  <2>2. CASE Return(s)  BY <2>2, GivesUp
  <2> QED  BY <1>0, <2>1, <2>2
<1>11. miscounted' \subseteq Groups  BY <1>0, <1>4 DEF Typed
<1> QED  BY <1>0, <1>9, <1>10, <1>11 DEF StepTyped, UsersFrame, GroupsFrame, Typed, tables, h

LEMMA RemoveFirstType ==
  ASSUME NEW q \in Seq(Users), NEW u
  PROVE  RemoveFirst(q, u) \in Seq(Users)
<1>1. CASE Contains(q, u)  BY <1>1, RemoveFirstLen
<1>2. CASE ~Contains(q, u)  BY <1>2 DEF RemoveFirst, Contains
<1> QED  BY <1>1, <1>2

LEMMA ChangedType ==
  ASSUME NEW g \in GroupRow, NEW how, NEW u \in Users
  PROVE  Changed(g, how, u) \in GroupRow
<1>0. g.members \in Seq(Users) /\ g.cnt \in Int  BY DEF GroupRow
<1>1. CASE how = "enter"
  <2> DEFINE m == Append(g.members, u)
             n == g.cnt + 1
  <2>1. m \in Seq(Users) /\ n \in Int  BY <1>0
  <2>2. Changed(g, how, u) = [g EXCEPT !.members = m, !.cnt = n]  BY <1>1 DEF Changed
  <2> HIDE DEF m, n
  <2> QED  BY <2>1, <2>2 DEF GroupRow
<1>2. CASE how = "pass"
  <2> DEFINE m == Append(g.members, u)
             n == Len(g.members) + 1
  <2>1. m \in Seq(Users) /\ n \in Int  BY <1>0
  <2>2. Changed(g, how, u) = [g EXCEPT !.members = m, !.cnt = n]  BY <1>2 DEF Changed
  <2> HIDE DEF m, n
  <2> QED  BY <2>1, <2>2 DEF GroupRow
<1>3. CASE how = "leave"
  <2> DEFINE m == RemoveFirst(g.members, u)
             n == g.cnt - 1
  <2>1. m \in Seq(Users) /\ n \in Int  BY <1>0, RemoveFirstType
  <2>2. Changed(g, how, u) = [g EXCEPT !.members = m, !.cnt = n]  BY <1>3 DEF Changed
  <2> HIDE DEF m, n
  <2> QED  BY <2>1, <2>2 DEF GroupRow
<1>4. CASE how \notin {"enter", "pass", "leave"}  BY <1>4 DEF Changed
<1> QED  BY <1>1, <1>2, <1>3, <1>4

LEMMA SaveGroupTyped ==
  ASSUME Typed, NEW s \in Slots, SaveGroupRow(s)
  PROVE  StepTyped(s)
<1> DEFINE c == CallOf(s)
           h == run[s]
           new == Changed(h.group, c.how, c.who)
<1>0. run[s] # Idle /\ c.do = "SaveGroup" /\ UNCHANGED <<users, rows, cache, bounds, disturbed, ghosts>>
  BY DEF SaveGroupRow, At
<1>1. h.req \in Requests /\ BodyOK(h) /\ Fits(h.req, c)  BY <1>0, Here
<1>2. RowsFrame(h.req) /\ Grown(rows, rows')  BY <1>0, SameRows
<1>3. CASE ~h.group.live
  <2>1. Return(s) /\ UNCHANGED <<groups, miscounted>>  BY <1>3 DEF SaveGroupRow
  <2>2. Moved(s)  BY <2>1, GivesUp
  <2> QED  BY <1>0, <1>2, <2>1, <2>2 DEF StepTyped, UsersFrame, GroupsFrame, Typed
<1>4. CASE h.group.live
  <2>0. /\ groups' = [groups EXCEPT ![h.uuid] = new] /\ GoOn(s, h)
        /\ (miscounted' = miscounted \/ miscounted' = miscounted \cup {h.uuid})
    BY <1>4 DEF SaveGroupRow
  <2>1. h.uuid \in Groups /\ h.group \in GroupRow /\ (h.req.op = "OpenSession" \/ GroupTopic(h.req, h.uuid))
    BY <1>1, <1>4 DEF BodyOK
  <2>2. c.who \in Users /\ h.req.op # "OpenSession"  BY <1>0, <1>1 DEF Fits, GroupCall
  <2>3. new \in GroupRow  BY <2>1, <2>2, ChangedType
  <2> HIDE DEF new
  <2>4. GroupsFrame(h.req)  BY <2>0, <2>1, <2>2, <2>3 DEF GroupsFrame, Typed
  <2>5. Moved(s)  BY <1>0, <1>2, <2>0, GoesOnAsIs DEF Changing
  <2>6. miscounted' \subseteq Groups  BY <2>0, <2>1 DEF Typed
  <2> QED  BY <1>0, <1>2, <2>4, <2>5, <2>6 DEF StepTyped, UsersFrame, Typed
<1> QED  BY <1>3, <1>4

LEMMA UpdateGroupTyped ==
  ASSUME Typed, NEW s \in Slots, UpdateGroupRow(s)
  PROVE  StepTyped(s)
<1> DEFINE c == CallOf(s)
           h == run[s]
<1>0. run[s] # Idle /\ c.do = "UpdateGroup" /\ UNCHANGED <<users, rows, cache, bounds, history>> /\ GoOn(s, h)
  BY DEF UpdateGroupRow, At
<1>1. h.req \in Requests /\ Fits(h.req, c)  BY <1>0, Here
<1>2. GroupTopic(h.req, c.group) /\ (c.field = "deleted_at" \/ c.field \in GroupSts)  BY <1>0, <1>1 DEF Fits, GroupCall
<1>3. c.group \in Groups  BY <1>2 DEF GroupTopic
<1>4. groups[c.group] \in GroupRow  BY <1>3 DEF Typed
<1>5. groups' = IF ~groups[c.group].live THEN groups
                ELSE IF c.field = "deleted_at" THEN [groups EXCEPT ![c.group].live = FALSE]
                ELSE [groups EXCEPT ![c.group].status = c.field]
  BY DEF UpdateGroupRow
<1> HIDE DEF c
<1>6. GroupsFrame(h.req)
  <2>1. [groups[c.group] EXCEPT !.live = FALSE] \in GroupRow  BY <1>4 DEF GroupRow
  <2>2. c.field \in GroupSts => [groups[c.group] EXCEPT !.status = c.field] \in GroupRow  BY <1>4 DEF GroupRow
  <2>3. \E new \in GroupRow : groups' = [groups EXCEPT ![c.group] = new] \/ groups' = groups
    BY <1>2, <1>3, <1>4, <1>5, <2>1, <2>2
  <2> QED  BY <1>2, <1>3, <2>3 DEF GroupsFrame, Typed
<1>7. RowsFrame(h.req) /\ Grown(rows, rows')  BY <1>0, SameRows
<1>8. Moved(s)  BY <1>0, <1>7, GoesOnAsIs DEF Changing, c
<1> QED  BY <1>0, <1>6, <1>7, <1>8 DEF StepTyped, UsersFrame, Typed, history

LEMMA GetKeyTyped ==
  ASSUME Typed, NEW s \in Slots, GetKey(s)
  PROVE  StepTyped(s)
<1>1. UNCHANGED <<tables, cache, bounds, history>> /\ run[s] # Idle /\ CallOf(s).do = "Get"
      /\ (GoOn(s, run[s]) \/ Return(s))
  BY DEF GetKey, At
<1> QED  BY <1>1, OnlyMoves DEF Changing

LEMMA TargetsAreIds ==
  ASSUME Typed, NEW t \in Tables, NEW u
  PROVE  {x.to : x \in RowsOf(t, u)} \subseteq Ids
<1>1. rows[t] \in Seq(Row)  BY DEF Typed
<1>2. \A i \in LiveRows(t) : rows[t][i].to \in Ids
  <2> TAKE i \in LiveRows(t)
  <2>1. i \in 1..Len(rows[t])  BY <1>1 DEF LiveRows
  <2>2. rows[t][i] \in Row  BY <2>1, TypedRow
  <2> QED  BY <2>2 DEF Row
<1> QED  BY <1>2 DEF RowsOf

LEMMA ListQueryType ==
  ASSUME Typed, NEW list \in Lists \ {"my_joined_group_list_ "}, NEW u
  PROVE  ListQuery(list, u) \subseteq Ids
<1>0. "contact" \in Tables /\ "session" \in Tables /\ Groups \subseteq Ids /\ Users \subseteq Ids  BY DEF Tables, Ids
<1>1. CASE list = "contact_mygroup_list_"
  <2>1. ListQuery(list, u) = LoadMyGroup(u)  BY <1>1 DEF ListQuery
  <2> QED  BY <1>0, <2>1 DEF LoadMyGroup
<1>2. CASE list = "my_joined_group_list_"
  <2>1. ListQuery(list, u) = LoadMyJoinedGroup(u)  BY <1>2 DEF ListQuery
  <2> QED  BY <1>0, <2>1 DEF LoadMyJoinedGroup, GroupsOf
<1>3. CASE list = "contact_user_list_"
  <2>1. ListQuery(list, u) = GetUserList(u)  BY <1>3 DEF ListQuery
  <2> QED  BY <1>0, <2>1 DEF GetUserList, UsersOf
<1>4. CASE list = "session_list_"
  <2>1. ListQuery(list, u) = GetUserSessionList(u)  BY <1>4 DEF ListQuery
  <2> QED  BY <1>0, <2>1 DEF GetUserSessionList, UsersOf
<1>5. CASE list = "group_session_list_"
  <2>1. ListQuery(list, u) = GetGroupSessionList(u)  BY <1>5 DEF ListQuery
  <2> QED  BY <1>0, <2>1 DEF GetGroupSessionList, GroupsOf
<1> QED  BY <1>1, <1>2, <1>3, <1>4, <1>5 DEF Lists

LEMMA QueryTyped ==
  ASSUME Typed, NEW s \in Slots, QueryList(s)
  PROVE  StepTyped(s)
<1> DEFINE c == CallOf(s)
           set == ListQuery(c.list, c.of)
           new == SetToSeq(set)
           x == IdsRead(run[s], set, new)
<1>0. run[s] # Idle /\ c.do = "Query" /\ UNCHANGED <<tables, cache, bounds, history>> /\ GoOn(s, x)
  BY DEF QueryList, At, IdsRead
<1>1. run[s].req \in Requests /\ BodyOK(run[s]) /\ Fits(run[s].req, c)  BY <1>0, Here
<1>2. c.list = run[s].req.op /\ run[s].req.op \in Lists  BY <1>0, <1>1 DEF Fits, ListCall
<1>3. c.list \in Lists \ {"my_joined_group_list_ "}  BY <1>1, <1>2, ListCalls
<1>4. set \subseteq Ids  BY <1>3, ListQueryType
<1> HIDE DEF set, new
<1>5. BodyOK(x) /\ x.req = run[s].req /\ x.pc = run[s].pc /\ x.held = run[s].held /\ x.group = run[s].group
  BY <1>1, <1>4, WithIds
<1> HIDE DEF x
<1>6. Grown(rows, rows')  BY <1>0, OnlyMoves
<1>7. Moved(s)  BY <1>0, <1>5, <1>6, GoesOnPlainly DEF Changing
<1> QED  BY <1>0, <1>7, OnlyMoves

LEMMA ReadEachGroupTyped ==
  ASSUME Typed, NEW s \in Slots, ReadEachGroup(s)
  PROVE  StepTyped(s)
<1> DEFINE h == run[s]
           g == Head(h.found)
           set == IF OwnerOf[g] = h.req.owner THEN h.ids \ {g} ELSE h.ids
           new == Tail(h.found)
           x == RestRead(h, new, set)
<1>0. /\ run[s] # Idle /\ CallOf(s).do = "EachGroup" /\ UNCHANGED <<tables, cache, bounds, history>>
      /\ GoOn(s, h) \/ Return(s) \/ Stay(s, x)
  BY DEF ReadEachGroup, At, RestRead
<1>1. h.req \in Requests /\ BodyOK(h) /\ HeldIn(h.req, h.held, rows) /\ OutlineAt(h.req, h.pc, h.held, h.group)
  BY <1>0, Here
<1>2. set \subseteq Ids  BY <1>1 DEF BodyOK
<1> HIDE DEF set, new
<1>3. BodyOK(x) /\ x.req = h.req /\ x.pc = h.pc /\ x.held = h.held /\ x.group = h.group
  BY <1>1, <1>2, WithRest
<1> HIDE DEF x
<1>4. HeldIn(x.req, x.held, rows') /\ OutlineAt(x.req, x.pc, x.held, x.group)  BY <1>0, <1>1, <1>3 DEF tables
<1>5. Stay(s, x) => Moved(s)  BY <1>0, <1>3, <1>4, StaysPut
<1> QED  BY <1>0, <1>5, OnlyMoves DEF Changing

LEMMA ReadEachUserTyped ==
  ASSUME Typed, NEW s \in Slots, ReadEachUser(s)
  PROVE  StepTyped(s)
<1> DEFINE h == run[s]
           new == Tail(h.found)
           x == [h EXCEPT !.found = new]
<1>0. /\ run[s] # Idle /\ CallOf(s).do = "EachUser" /\ UNCHANGED <<tables, cache, bounds, history>>
      /\ GoOn(s, h) \/ Return(s) \/ Stay(s, x)
  BY DEF ReadEachUser, At
<1>1. h.req \in Requests /\ BodyOK(h) /\ HeldIn(h.req, h.held, rows) /\ OutlineAt(h.req, h.pc, h.held, h.group)
  BY <1>0, Here
<1> HIDE DEF new
<1>3. BodyOK(x) /\ x.req = h.req /\ x.pc = h.pc /\ x.held = h.held /\ x.group = h.group
  BY <1>1, WithFound
<1> HIDE DEF x
<1>4. HeldIn(x.req, x.held, rows') /\ OutlineAt(x.req, x.pc, x.held, x.group)  BY <1>0, <1>1, <1>3 DEF tables
<1>5. Stay(s, x) => Moved(s)  BY <1>0, <1>3, <1>4, StaysPut
<1> QED  BY <1>0, <1>5, OnlyMoves DEF Changing

LEMMA SetKeyTyped ==
  ASSUME Typed, NEW s \in Slots, SetKeyEx(s)
  PROVE  StepTyped(s)
<1> DEFINE c == CallOf(s)
           e == [list |-> c.list, of |-> c.of, ids |-> run[s].ids]
<1>0. /\ run[s] # Idle /\ c.do = "SetEx" /\ UNCHANGED <<tables, bounds, history>> /\ GoOn(s, run[s])
      /\ cache' = {f \in cache : f.list # c.list \/ f.of # c.of} \cup {e}
  BY DEF SetKeyEx, At
<1>1. run[s].req \in Requests /\ BodyOK(run[s]) /\ Fits(run[s].req, c)  BY <1>0, Here
<1>2. c.list \in Lists /\ c.of \in Users  BY <1>0, <1>1 DEF Fits, ListCall
<1>3. e \in Entry /\ e.list = c.list /\ e.of = c.of
  <2>1. run[s].ids \subseteq Ids  BY <1>1 DEF BodyOK
  <2> QED  BY <1>2, <2>1 DEF Entry
<1> HIDE DEF e
<1>4. CacheOK(cache')  BY <1>0, <1>3 DEF Typed, CacheOK
<1>5. RowsFrame(run[s].req) /\ Grown(rows, rows')  BY <1>0, SameRows DEF tables
<1>6. Moved(s)  BY <1>0, <1>5, GoesOnAsIs DEF Changing
<1> QED  BY <1>0, <1>4, <1>5, <1>6 DEF StepTyped, UsersFrame, GroupsFrame, Typed, tables, history

LEMMA FewerEntries ==
  ASSUME CacheOK(cache), cache' \subseteq cache
  PROVE  CacheOK(cache')
BY DEF CacheOK

LEMMA DelKeysTyped ==
  ASSUME Typed, NEW s \in Slots, DelKeys(s)
  PROVE  StepTyped(s)
<1>0. /\ run[s] # Idle /\ CallOf(s).do = "Forget" /\ UNCHANGED <<tables, bounds, history>> /\ GoOn(s, run[s])
      /\ cache' \subseteq cache
  BY DEF DelKeys, At
<1>4. CacheOK(cache')  BY <1>0, FewerEntries DEF Typed
<1>5. RowsFrame(run[s].req) /\ Grown(rows, rows')  BY <1>0, SameRows DEF tables
<1>6. Moved(s)  BY <1>0, <1>5, GoesOnAsIs DEF Changing
<1> QED  BY <1>0, <1>4, <1>5, <1>6 DEF StepTyped, UsersFrame, GroupsFrame, Typed, tables, history

LEMMA StepIsTyped ==
  ASSUME Typed, NEW s \in Slots, Step(s)
  PROVE  StepTyped(s)
BY ReadRowTyped, FindSessionTyped, InsertRowTyped, SaveRowTyped, UpdateRowsTyped, FindRowsTyped, EachRowTyped,
   ReadUserTyped, ReadUsersTyped, CheckTelephoneTyped, InsertUserTyped, SaveUserTyped, InsertGroupTyped,
   ReadGroupTyped, StrikeTyped, SaveGroupTyped, UpdateGroupTyped, GetKeyTyped, QueryTyped, ReadEachGroupTyped,
   ReadEachUserTyped, SetKeyTyped, DelKeysTyped DEF Step

\* What no step of a handler touches.
LEMMA StepLeaves ==
  ASSUME NEW s, Step(s)
  PROVE  UNCHANGED <<script, sent, faults, disturbed, ghosts>> /\ run[s] # Idle
<1>1. \/ UNCHANGED <<tables, cache, bounds, history>> \/ UNCHANGED <<users, groups, cache, bounds, history>>
      \/ UNCHANGED <<rows, groups, cache, bounds, history>> \/ UNCHANGED <<users, rows, cache, bounds, history>>
      \/ UNCHANGED <<tables, bounds, history>> \/ UNCHANGED <<tables, cache, bounds, disturbed, ghosts>>
      \/ UNCHANGED <<users, rows, cache, bounds, disturbed, ghosts>>
  BY DEF Step, ReadRow, FindSession, InsertRow, SaveRow, UpdateRows, FindRows, EachRow, ReadUser, ReadUsers,
     CheckTelephoneExist, InsertUserRow, SaveUserRow, InsertGroupRow, ReadGroup, StrikeMember, SaveGroupRow,
     UpdateGroupRow, GetKey, QueryList, ReadEachGroup, ReadEachUser, SetKeyEx, DelKeys
<1>2. run[s] # Idle
  BY DEF Step, ReadRow, FindSession, InsertRow, SaveRow, UpdateRows, FindRows, EachRow, ReadUser, ReadUsers,
     CheckTelephoneExist, InsertUserRow, SaveUserRow, InsertGroupRow, ReadGroup, StrikeMember, SaveGroupRow,
     UpdateGroupRow, GetKey, QueryList, ReadEachGroup, ReadEachUser, SetKeyEx, DelKeys, At
<1> QED  BY <1>1, <1>2 DEF bounds, history

LEMMA FaultTyped ==
  ASSUME Typed, NEW s \in Slots, Fault(s)
  PROVE  StepTyped(s)
<1> DEFINE c == CallOf(s)
<1>0. /\ run[s] # Idle /\ UNCHANGED <<tables, cache, miscounted>>
      /\ Return(s) \/ (c.do \in {"Forget", "SetEx", "FindUser", "FindGroup"} /\ GoOn(s, run[s]))
  BY DEF Fault, Running
<1>1. Grown(rows, rows')  BY <1>0, SameRows DEF tables
<1>2. Return(s) => Moved(s)  BY GivesUp
<1>3. c.do \in {"Forget", "SetEx", "FindUser", "FindGroup"} /\ GoOn(s, run[s]) => Moved(s)
  BY <1>0, <1>1, GoesOnAsIs DEF Changing
<1> QED  BY <1>0, <1>2, <1>3, SameTables

\* A step or a fault of one handler.
LEMMA MoveKeepsTyped ==
  ASSUME Typed, NEW s \in Slots, StepTyped(s), UNCHANGED <<script, sent>>, faults' \in 0..MaxFaults, ghosts' = ghosts
  PROVE  Typed'
<1>1. Handlers(rows)  BY DEF Typed
<1>2. DOMAIN run' = Slots /\ (\A q \in Slots : q # s => run'[q] = run[q]) /\ (run'[s] # Idle => SlotOK(run'[s], rows'))
  BY DEF StepTyped, Moved
<1>3. Grown(rows, rows')  BY DEF StepTyped, RowsFrame
<1>4. Handlers(rows)'  BY <1>1, <1>2, <1>3, OneMoves
<1> QED  BY <1>4 DEF Typed, StepTyped, RowsFrame, UsersFrame, GroupsFrame

\* The request that is made.
LEMMA RequestMade ==
  ASSUME script \in DOMAIN Scripts, sent \in 0..Len(Scripts[script]), sent < Len(Scripts[script]),
         NEW r \in Scripts[script][sent + 1]
  PROVE  r \in Requests
<1>1. Scripts \in Seq(Seq(SUBSET Request))  BY ScriptAssumption
<1>2. Scripts[script] \in Seq(SUBSET Request)  BY <1>1
<1>3. sent + 1 \in DOMAIN Scripts[script]  BY <1>2
<1>4. Scripts[script][sent + 1] \in ToSet(Scripts[script])  BY <1>3 DEF ToSet
<1> QED  BY <1>4 DEF Requests

NewHandler(r) ==
  [req |-> r, pc |-> 1, held |-> <<>>, found |-> <<>>, people |-> <<>>, uuid |-> Idle, group |-> NoGroup, ids |-> {}]

LEMMA NewHandlerOK ==
  ASSUME NEW r \in Requests, NEW tabs
  PROVE  SlotOK(NewHandler(r), tabs)
<1> DEFINE h == NewHandler(r)
<1>1. /\ DOMAIN h = Fields /\ h.req = r /\ h.pc = 1 /\ h.held = <<>> /\ h.people = <<>> /\ h.group = NoGroup /\ h.ids = {}
  BY DEF NewHandler, Fields
<1> HIDE DEF h
<1>2. <<>> \in Seq(HeldRow) /\ Len(<<>>) = 0 /\ DOMAIN <<>> = {}  OBVIOUS
<1>3. NoGroup \in GroupRow /\ ~NoGroup.live  BY NoGroupType DEF NoGroup
<1>4. BodyOK(h)  BY <1>1, <1>2, <1>3 DEF BodyOK
<1>5. OutlineAt(h.req, h.pc, h.held, h.group)  BY <1>1, NoRowsOutline
<1>6. HeldIn(h.req, h.held, tabs)  BY <1>1, <1>2 DEF HeldIn
<1> QED  BY <1>4, <1>5, <1>6 DEF SlotOK, h

LEMMA Submits ==
  ASSUME Typed, NEW s \in Slots, Submit(s)
  PROVE  \E r \in Scripts[script][sent + 1] :
           /\ r \in Requests /\ run' = [run EXCEPT ![s] = NewHandler(r)]
           /\ disturbed' = disturbed \cup (Busy \cap AboutOf[r])
           /\ ghosts' = ghosts \cup {u \in Users : u = Actor(r) /\ r.op # "Register" /\ ~users[u].live}
           /\ run[s] = Idle /\ sent' = sent + 1 /\ sent < Len(Scripts[script])
           /\ UNCHANGED <<tables, cache, script, faults, miscounted>>
<1>1. script \in DOMAIN Scripts /\ sent \in 0..Len(Scripts[script])  BY DEF Typed
<1> QED  BY <1>1, RequestMade DEF Submit, NewHandler

LEMMA SubmitKeepsTyped ==
  ASSUME Typed, NEW s \in Slots, Submit(s)
  PROVE  Typed'
<1>1. PICK r \in Scripts[script][sent + 1] :
           /\ r \in Requests /\ run' = [run EXCEPT ![s] = NewHandler(r)]
           /\ ghosts' = ghosts \cup {u \in Users : u = Actor(r) /\ r.op # "Register" /\ ~users[u].live}
           /\ sent' = sent + 1 /\ sent < Len(Scripts[script])
           /\ UNCHANGED <<tables, cache, script, faults, miscounted>>
  BY Submits
<1>2. Handlers(rows) /\ DOMAIN run = Slots  BY DEF Typed, Handlers
<1>3. DOMAIN run' = Slots /\ run'[s] = NewHandler(r) /\ \A q \in Slots : q # s => run'[q] = run[q]
  BY <1>1, <1>2
<1>4. SlotOK(run'[s], rows')  BY <1>1, <1>3, NewHandlerOK
<1>5. Grown(rows, rows') /\ rows' = rows  BY <1>1, SameRows DEF tables
<1>6. Handlers(rows)'  BY <1>2, <1>3, <1>4, <1>5, OneMoves
<1>7. sent' \in 0..Len(Scripts'[script'])
  <2>1. Scripts[script] \in Seq(SUBSET Request)  BY ScriptAssumption DEF Typed
  <2>2. Len(Scripts[script]) \in Nat /\ sent \in 0..Len(Scripts[script])  BY <2>1 DEF Typed
  <2> QED  BY <1>1, <2>2
<1>8. ghosts' \subseteq Users  BY <1>1 DEF Typed
<1>9. users' = users /\ groups' = groups /\ cache' = cache /\ script' = script /\ faults' = faults /\ miscounted' = miscounted
  BY <1>1 DEF tables
<1> QED  BY <1>5, <1>6, <1>7, <1>8, <1>9 DEF Typed

LEMMA InitTyped == Init => Typed
<1> SUFFICES ASSUME Init  PROVE Typed
  OBVIOUS
<1>1. users \in [Users -> UserRow]  BY DEF Init, UserRow, UserSts
<1>2. rows \in [Tables -> Seq(Row)]
  <2>1. <<>> \in Seq(Row)  OBVIOUS
  <2> QED  BY <2>1 DEF Init
<1>3. groups \in [Groups -> GroupRow]  BY NoGroupType DEF Init
<1>4. CacheOK(cache)  BY DEF Init, CacheOK
<1>5. Handlers(rows)  BY DEF Init, Handlers
<1>6. script \in DOMAIN Scripts /\ sent \in 0..Len(Scripts[script])
  <2>1. Scripts[script] \in Seq(SUBSET Request)  BY ScriptAssumption DEF Init
  <2> QED  BY <2>1 DEF Init
<1>7. faults \in 0..MaxFaults /\ miscounted \subseteq Groups /\ ghosts \subseteq Users
  BY ScriptAssumption DEF Init
<1> QED  BY <1>1, <1>2, <1>3, <1>4, <1>5, <1>6, <1>7 DEF Typed

LEMMA TypedStep == Typed /\ [Next]_vars => Typed'
<1> SUFFICES ASSUME Typed, [Next]_vars  PROVE Typed'
  OBVIOUS
<1>1. CASE UNCHANGED vars  BY <1>1 DEF vars, Typed, Handlers
<1>2. ASSUME NEW s \in Slots, Submit(s)  PROVE Typed'  BY <1>2, SubmitKeepsTyped
<1>3. ASSUME NEW s \in Slots, Step(s)  PROVE Typed'
  <2>1. StepTyped(s)  BY <1>3, StepIsTyped
  <2>2. UNCHANGED <<script, sent, faults, ghosts>>  BY <1>3, StepLeaves
  <2>3. faults \in 0..MaxFaults  BY DEF Typed
  <2> QED  BY <2>1, <2>2, <2>3, MoveKeepsTyped
<1>4. ASSUME NEW s \in Slots, Fault(s)  PROVE Typed'
  <2>1. StepTyped(s)  BY <1>4, FaultTyped
  <2>2. UNCHANGED <<script, sent, ghosts>> /\ faults' = faults + 1 /\ faults < MaxFaults  BY <1>4 DEF Fault
  <2>3. faults \in 0..MaxFaults /\ MaxFaults \in Nat  BY ScriptAssumption DEF Typed
  <2>4. faults' \in 0..MaxFaults  BY <2>2, <2>3
  <2> QED  BY <2>1, <2>2, <2>4, MoveKeepsTyped
<1>5. ASSUME NEW e \in cache, Expire(e)  PROVE Typed'
  <2>1. cache' \subseteq cache /\ UNCHANGED <<tables, run, bounds, history>>  BY <1>5 DEF Expire
  <2>2. CacheOK(cache')  BY <2>1, FewerEntries DEF Typed
  <2> QED  BY <2>1, <2>2 DEF Typed, Handlers, tables, bounds, history
<1> QED  BY <1>1, <1>2, <1>3, <1>4, <1>5 DEF Next

LEMMA AlwaysTyped == Spec => []Typed
<1> QED  BY InitTyped, TypedStep, PTL DEF Spec

LEMMA TypedGivesType == Typed => TypeOK
<1> SUFFICES ASSUME Typed  PROVE TypeOK
  OBVIOUS
<1>1. \A t \in Tables : rows[t] \in Seq(Row)  BY DEF Typed
<1>2. cache \subseteq [list : Lists, of : Users, ids : SUBSET Ids]
      /\ \A e, f \in cache : e.list = f.list /\ e.of = f.of => e = f
  BY DEF Typed, CacheOK, Entry
<1>3. \A s \in Running : run[s].pc \in 1..Len(CallsOf[run[s].req])  BY Here DEF Running
<1> QED  BY <1>1, <1>2, <1>3 DEF TypeOK, Typed

THEOREM MembershipTypes == Spec => []TypeOK
<1> QED  BY AlwaysTyped, TypedGivesType, PTL

-----------------------------------------------------------------------------
(* Of what nothing has disturbed, one handler at a time takes care. *)
Apart ==
  \A s, t \in Slots : s # t /\ run[s] # Idle /\ run[t] # Idle =>
    AboutOf[run[s].req] \cap AboutOf[run[t].req] \subseteq disturbed

LEMMA SubmitKeepsApart ==
  ASSUME Typed, Apart, NEW s \in Slots, Submit(s)
  PROVE  Apart'
<1>1. PICK r \in Scripts[script][sent + 1] :
           /\ r \in Requests /\ run' = [run EXCEPT ![s] = NewHandler(r)]
           /\ disturbed' = disturbed \cup (Busy \cap AboutOf[r])
           /\ run[s] = Idle
  BY Submits
<1>2. DOMAIN run = Slots  BY DEF Typed, Handlers
<1>3. run'[s].req = r /\ \A q \in Slots : q # s => run'[q] = run[q]  BY <1>1, <1>2 DEF NewHandler
<1>4. \A q \in Slots : q # s /\ run'[q] # Idle => AboutOf[run'[q].req] \cap AboutOf[r] \subseteq disturbed'
  <2> TAKE q \in Slots
  <2> HAVE q # s /\ run'[q] # Idle
  <2>1. run'[q] = run[q]  BY <1>3
  <2>2. AboutOf[run[q].req] \subseteq Busy  BY <2>1 DEF Busy, Running
  <2> QED  BY <1>1, <2>1, <2>2
<1>5. disturbed \subseteq disturbed'  BY <1>1
<1> SUFFICES ASSUME NEW p \in Slots, NEW q \in Slots, p # q, run'[p] # Idle, run'[q] # Idle
             PROVE  AboutOf[run'[p].req] \cap AboutOf[run'[q].req] \subseteq disturbed'
  BY DEF Apart
<1>6. CASE p = s  BY <1>3, <1>4, <1>6
<1>7. CASE q = s  BY <1>3, <1>4, <1>7
<1>8. CASE p # s /\ q # s  BY <1>3, <1>5, <1>8 DEF Apart
<1> QED  BY <1>6, <1>7, <1>8

LEMMA MoveKeepsApart ==
  ASSUME Apart, NEW s \in Slots, Moved(s), run[s] # Idle, disturbed \subseteq disturbed'
  PROVE  Apart'
<1>1. \A q \in Slots : run'[q] # Idle => run[q] # Idle /\ run'[q].req = run[q].req
  BY DEF Moved
<1> SUFFICES ASSUME NEW p \in Slots, NEW q \in Slots, p # q, run'[p] # Idle, run'[q] # Idle
             PROVE  AboutOf[run'[p].req] \cap AboutOf[run'[q].req] \subseteq disturbed'
  BY DEF Apart
<1> QED  BY <1>1 DEF Apart

LEMMA ApartStep == Typed /\ Apart /\ [Next]_vars => Apart'
<1> SUFFICES ASSUME Typed, Apart, [Next]_vars  PROVE Apart'
  OBVIOUS
<1>1. CASE UNCHANGED vars  BY <1>1 DEF vars, Apart
<1>2. ASSUME NEW s \in Slots, Submit(s)  PROVE Apart'  BY <1>2, SubmitKeepsApart
<1>3. ASSUME NEW s \in Slots, Step(s)  PROVE Apart'
  <2>1. Moved(s) /\ disturbed' = disturbed /\ run[s] # Idle  BY <1>3, StepIsTyped, StepLeaves DEF StepTyped
  <2> QED  BY <2>1, MoveKeepsApart
<1>4. ASSUME NEW s \in Slots, Fault(s)  PROVE Apart'
  <2>1. Moved(s)  BY <1>4, FaultTyped DEF StepTyped
  <2>2. run[s] # Idle /\ disturbed \subseteq disturbed'  BY <1>4 DEF Fault, Running
  <2> QED  BY <2>1, <2>2, MoveKeepsApart
<1>5. ASSUME NEW e \in cache, Expire(e)  PROVE Apart'
  BY <1>5 DEF Expire, Apart, history
<1> QED  BY <1>1, <1>2, <1>3, <1>4, <1>5 DEF Next

LEMMA AlwaysApart == Spec => [](Typed /\ Apart)
<1>1. Init => Apart  BY DEF Init, Apart
<1> QED  BY <1>1, InitTyped, TypedStep, ApartStep, PTL DEF Spec
-----------------------------------------------------------------------------
(* What a step is for a topic x that is not disturbed. *)

\* The handler s has to do with x.
On(s, x) == run[s] # Idle /\ x \in AboutOf[run[s].req]

\* The step has nothing to do with x.
Elsewhere(x) ==
  /\ \A s \in Slots : On(s, x)' => On(s, x) /\ run'[s] = run[s]
  /\ \A s \in Slots : On(s, x) => run'[s] = run[s]
  /\ rows' \in [Tables -> Seq(Row)] /\ Grown(rows, rows')
  /\ \A t \in Tables : \A i \in 1..Len(rows'[t]) :
       Topic(t, rows'[t][i].user, rows'[t][i].to) = x => i \in 1..Len(rows[t]) /\ rows'[t][i] = rows[t][i]
  /\ \A u \in Users : OfTel(TelOf[u]) = x => users'[u] = users[u]
  /\ \A g \in Groups : OfGroup(g) = x \/ (\E u \in Users : OfTalk(u, g) = x) => groups'[g] = groups[g]

\* A handler that has to do with x begins; there is no other one.
Begins(s, x) ==
  /\ run[s] = Idle /\ UNCHANGED <<tables, cache>> /\ UNCHANGED miscounted /\ ghosts \subseteq ghosts'
  /\ \E r \in Requests : run'[s] = NewHandler(r) /\ x \in AboutOf[r]
                         /\ \A u \in Users : u = Actor(r) /\ r.op # "Register" /\ ~users[u].live => u \in ghosts'
  /\ \A t \in Slots : t # s => ~On(t, x) /\ ~On(t, x)'

\* The handler that has to do with x takes a step; there is no other one.
Works(s, x) ==
  /\ Step(s) /\ StepTyped(s) /\ On(s, x)
  /\ \A t \in Slots : t # s => ~On(t, x) /\ ~On(t, x)'

LEMMA OthersElsewhere ==
  ASSUME NEW s \in Slots, StepTyped(s), run[s] # Idle, NEW x, ~On(s, x)
  PROVE  Elsewhere(x)
<1> DEFINE r == run[s].req
<1>1. x \notin AboutOf[r] /\ RowsFrame(r) /\ UsersFrame(r) /\ GroupsFrame(r)  BY DEF On, StepTyped
<1>2. \A q \in Slots : q # s => run'[q] = run[q]  BY DEF StepTyped, Moved
<1>3. run'[s] # Idle => run'[s].req = r  BY DEF StepTyped, Moved
<1>4. \A q \in Slots : On(q, x)' => On(q, x) /\ run'[q] = run[q]
  <2> SUFFICES ASSUME NEW q \in Slots, On(q, x)'  PROVE On(q, x) /\ run'[q] = run[q]
    OBVIOUS
  <2>1. run'[q] # Idle /\ x \in AboutOf[run'[q].req]  BY DEF On
  <2>2. q # s  BY <1>1, <1>3, <2>1
  <2> QED  BY <1>2, <2>1, <2>2 DEF On
<1>8. \A q \in Slots : On(q, x) => run'[q] = run[q]  BY <1>2
<1> HIDE DEF r
<1>5. \A t \in Tables : \A i \in 1..Len(rows'[t]) :
       Topic(t, rows'[t][i].user, rows'[t][i].to) = x => i \in 1..Len(rows[t]) /\ rows'[t][i] = rows[t][i]
  BY <1>1 DEF RowsFrame, RowTopic
<1>6. \A u \in Users : OfTel(TelOf[u]) = x => users'[u] = users[u]  BY <1>1 DEF UsersFrame
<1>7. \A g \in Groups : OfGroup(g) = x \/ (\E u \in Users : OfTalk(u, g) = x) => groups'[g] = groups[g]
  BY <1>1 DEF GroupsFrame, GroupTopic
<1> QED  BY <1>1, <1>4, <1>5, <1>6, <1>7, <1>8 DEF Elsewhere, RowsFrame

LEMMA SameElsewhere ==
  ASSUME Typed, UNCHANGED tables, NEW x, \A s \in Slots : On(s, x)' => On(s, x) /\ run'[s] = run[s],
         \A s \in Slots : On(s, x) => run'[s] = run[s]
  PROVE  Elsewhere(x)
<1>1. rows' = rows /\ users' = users /\ groups' = groups  BY DEF tables
<1>2. Grown(rows, rows') /\ rows \in [Tables -> Seq(Row)]  BY <1>1, SameRows DEF Typed
<1> QED  BY <1>1, <1>2 DEF Elsewhere

LEMMA StepAbout ==
  ASSUME Typed, Apart, [Next]_vars, NEW x, x \notin disturbed'
  PROVE  Elsewhere(x) \/ \E s \in Slots : Begins(s, x) \/ Works(s, x)
<1>1. CASE UNCHANGED vars
  <2>1. UNCHANGED tables /\ run' = run  BY <1>1 DEF vars, tables
  <2> QED  BY <2>1, SameElsewhere DEF On
<1>2. ASSUME NEW s \in Slots, Submit(s)  PROVE Elsewhere(x) \/ Begins(s, x)
  <2>1. PICK r \in Scripts[script][sent + 1] :
           /\ r \in Requests /\ run' = [run EXCEPT ![s] = NewHandler(r)]
           /\ disturbed' = disturbed \cup (Busy \cap AboutOf[r])
           /\ ghosts' = ghosts \cup {u \in Users : u = Actor(r) /\ r.op # "Register" /\ ~users[u].live}
           /\ run[s] = Idle /\ UNCHANGED <<tables, cache>> /\ UNCHANGED miscounted
    BY <1>2, Submits
  <2>2. DOMAIN run = Slots  BY DEF Typed, Handlers
  <2>3. run'[s] = NewHandler(r) /\ \A q \in Slots : q # s => run'[q] = run[q]  BY <2>1, <2>2
  <2>4. run'[s].req = r  BY <2>3 DEF NewHandler
  <2>5. CASE x \notin AboutOf[r]
    <3>1. ~On(s, x)'  BY <2>4, <2>5 DEF On
    <3>2. \A q \in Slots : On(q, x)' => On(q, x) /\ run'[q] = run[q]  BY <2>3, <3>1 DEF On
    <3>3. \A q \in Slots : On(q, x) => run'[q] = run[q]  BY <2>1, <2>3 DEF On
    <3> QED  BY <2>1, <3>2, <3>3, SameElsewhere
  <2>6. CASE x \in AboutOf[r]
    <3>1. x \notin Busy  BY <2>1, <2>6
    <3>2. \A q \in Slots : ~On(q, x)  BY <3>1 DEF On, Busy, Running
    <3>3. \A q \in Slots : q # s => ~On(q, x) /\ ~On(q, x)'  BY <2>3, <3>2 DEF On
    <3>4. ghosts \subseteq ghosts' /\ \A u \in Users : u = Actor(r) /\ r.op # "Register" /\ ~users[u].live => u \in ghosts'
      BY <2>1
    <3> QED  BY <2>1, <2>3, <2>6, <3>3, <3>4 DEF Begins
  <2> QED  BY <2>5, <2>6
<1>3. ASSUME NEW s \in Slots, Step(s)  PROVE Elsewhere(x) \/ Works(s, x)
  <2>1. StepTyped(s) /\ disturbed' = disturbed /\ run[s] # Idle  BY <1>3, StepIsTyped, StepLeaves
  <2>2. CASE On(s, x)
    <3>1. \A q \in Slots : q # s => ~On(q, x)
      <4> SUFFICES ASSUME NEW q \in Slots, q # s, On(q, x)  PROVE FALSE
        OBVIOUS
      <4> QED  BY <2>1, <2>2 DEF Apart, On
    <3>2. \A q \in Slots : q # s => run'[q] = run[q]  BY <2>1 DEF StepTyped, Moved
    <3>3. \A q \in Slots : q # s => ~On(q, x)'  BY <3>1, <3>2 DEF On
    <3> QED  BY <1>3, <2>1, <2>2, <3>1, <3>3 DEF Works
  <2> QED  BY <2>1, <2>2, OthersElsewhere
<1>4. ASSUME NEW s \in Slots, Fault(s)  PROVE Elsewhere(x)
  <2>1. StepTyped(s)  BY <1>4, FaultTyped
  <2>2. run[s] # Idle /\ disturbed' = disturbed \cup AboutOf[run[s].req]  BY <1>4 DEF Fault, Running
  <2>3. ~On(s, x)  BY <2>2 DEF On
  <2> QED  BY <2>1, <2>2, <2>3, OthersElsewhere
<1>5. ASSUME NEW e \in cache, Expire(e)  PROVE Elsewhere(x)
  <2>1. UNCHANGED tables /\ run' = run  BY <1>5 DEF Expire
  <2> QED  BY <2>1, SameElsewhere DEF On
<1> QED  BY <1>1, <1>2, <1>3, <1>4, <1>5 DEF Next

\* What is disturbed remains so.
LEMMA DisturbedGrows == Typed /\ [Next]_vars => disturbed \subseteq disturbed'
<1> SUFFICES ASSUME Typed, [Next]_vars  PROVE disturbed \subseteq disturbed'
  OBVIOUS
<1>1. CASE UNCHANGED vars  BY <1>1 DEF vars
<1>2. ASSUME NEW s \in Slots, Submit(s)  PROVE disturbed \subseteq disturbed'  BY <1>2 DEF Submit
<1>3. ASSUME NEW s \in Slots, Step(s)  PROVE disturbed \subseteq disturbed'  BY <1>3, StepLeaves
<1>4. ASSUME NEW s \in Slots, Fault(s)  PROVE disturbed \subseteq disturbed'  BY <1>4 DEF Fault
<1>5. ASSUME NEW e \in cache, Expire(e)  PROVE disturbed \subseteq disturbed'  BY <1>5 DEF Expire, history
<1> QED  BY <1>1, <1>2, <1>3, <1>4, <1>5 DEF Next

-----------------------------------------------------------------------------
(* Which action a call is, what it writes, and which variables of the handler it *)
(* leaves alone.                                                                 *)
LEMMA ActionOf ==
  ASSUME NEW s, Step(s)
  PROVE  /\ CallOf(s).do \in {"First", "FirstOr"} => ReadRow(s)
         /\ CallOf(s).do = "IfNone" => FindSession(s)
         /\ CallOf(s).do = "Insert" => InsertRow(s)
         /\ CallOf(s).do = "Save" => SaveRow(s)
         /\ CallOf(s).do = "Update" => UpdateRows(s)
         /\ CallOf(s).do \in {"Find", "FindEither"} => FindRows(s)
         /\ CallOf(s).do = "EachFound" => EachRow(s)
         /\ CallOf(s).do \in {"FirstUser", "FindUser"} => ReadUser(s)
         /\ CallOf(s).do = "FindUsers" => ReadUsers(s)
         /\ CallOf(s).do = "IfNoTelephone" => CheckTelephoneExist(s)
         /\ CallOf(s).do = "InsertUser" => InsertUserRow(s)
         /\ CallOf(s).do = "SaveUser" => SaveUserRow(s)
         /\ CallOf(s).do = "InsertGroup" => InsertGroupRow(s)
         /\ CallOf(s).do \in {"FirstGroup", "FindGroup"} => ReadGroup(s)
         /\ CallOf(s).do = "Strike" => StrikeMember(s)
         /\ CallOf(s).do = "SaveGroup" => SaveGroupRow(s)
         /\ CallOf(s).do = "UpdateGroup" => UpdateGroupRow(s)
         /\ CallOf(s).do = "Get" => GetKey(s)
         /\ CallOf(s).do = "Query" => QueryList(s)
         /\ CallOf(s).do = "EachGroup" => ReadEachGroup(s)
         /\ CallOf(s).do = "EachUser" => ReadEachUser(s)
         /\ CallOf(s).do = "SetEx" => SetKeyEx(s)
         /\ CallOf(s).do = "Forget" => DelKeys(s)
<1>1. /\ ReadRow(s) => CallOf(s).do \in {"First", "FirstOr"}
      /\ FindSession(s) => CallOf(s).do = "IfNone"
      /\ InsertRow(s) => CallOf(s).do = "Insert"
      /\ SaveRow(s) => CallOf(s).do = "Save"
      /\ UpdateRows(s) => CallOf(s).do = "Update"
      /\ FindRows(s) => CallOf(s).do \in {"Find", "FindEither"}
      /\ EachRow(s) => CallOf(s).do = "EachFound"
  BY DEF ReadRow, FindSession, InsertRow, SaveRow, UpdateRows, FindRows, EachRow, At
<1>2. /\ ReadUser(s) => CallOf(s).do \in {"FirstUser", "FindUser"}
      /\ ReadUsers(s) => CallOf(s).do = "FindUsers"
      /\ CheckTelephoneExist(s) => CallOf(s).do = "IfNoTelephone"
      /\ InsertUserRow(s) => CallOf(s).do = "InsertUser"
      /\ SaveUserRow(s) => CallOf(s).do = "SaveUser"
  BY DEF ReadUser, ReadUsers, CheckTelephoneExist, InsertUserRow, SaveUserRow, At
<1>3. /\ InsertGroupRow(s) => CallOf(s).do = "InsertGroup"
      /\ ReadGroup(s) => CallOf(s).do \in {"FirstGroup", "FindGroup"}
      /\ StrikeMember(s) => CallOf(s).do = "Strike"
      /\ SaveGroupRow(s) => CallOf(s).do = "SaveGroup"
      /\ UpdateGroupRow(s) => CallOf(s).do = "UpdateGroup"
  BY DEF InsertGroupRow, ReadGroup, StrikeMember, SaveGroupRow, UpdateGroupRow, At
<1>4. /\ GetKey(s) => CallOf(s).do = "Get"
      /\ QueryList(s) => CallOf(s).do = "Query"
      /\ ReadEachGroup(s) => CallOf(s).do = "EachGroup"
      /\ ReadEachUser(s) => CallOf(s).do = "EachUser"
      /\ SetKeyEx(s) => CallOf(s).do = "SetEx"
      /\ DelKeys(s) => CallOf(s).do = "Forget"
  BY DEF GetKey, QueryList, ReadEachGroup, ReadEachUser, SetKeyEx, DelKeys, At
<1> QED  BY <1>1, <1>2, <1>3, <1>4 DEF Step

\* What the step does not write.
LEMMA Leaves ==
  ASSUME NEW s, Step(s)
  PROVE  /\ CallOf(s).do \notin {"InsertUser", "SaveUser"} => users' = users
         /\ CallOf(s).do \notin {"Insert", "Save", "Update", "EachFound"} => rows' = rows
         /\ CallOf(s).do \notin {"InsertGroup", "SaveGroup", "UpdateGroup"} => groups' = groups
         /\ CallOf(s).do \notin {"SetEx", "Forget"} => cache' = cache
<1>1. CASE InsertRow(s) \/ SaveRow(s) \/ UpdateRows(s) \/ EachRow(s)
  BY <1>1 DEF InsertRow, SaveRow, UpdateRows, EachRow, At
<1>2. CASE InsertUserRow(s) \/ SaveUserRow(s)
  BY <1>2 DEF InsertUserRow, SaveUserRow, At
<1>3. CASE InsertGroupRow(s) \/ SaveGroupRow(s) \/ UpdateGroupRow(s)
  BY <1>3 DEF InsertGroupRow, SaveGroupRow, UpdateGroupRow, At
<1>4. CASE SetKeyEx(s) \/ DelKeys(s)
  BY <1>4 DEF SetKeyEx, DelKeys, At, tables
<1>5. CASE ReadRow(s) \/ FindSession(s) \/ FindRows(s)
  BY <1>5 DEF ReadRow, FindSession, FindRows, tables
<1>6. CASE ReadUser(s) \/ ReadUsers(s) \/ CheckTelephoneExist(s)
  BY <1>6 DEF ReadUser, ReadUsers, CheckTelephoneExist, tables
<1>7. CASE ReadGroup(s) \/ StrikeMember(s)
  BY <1>7 DEF ReadGroup, StrikeMember, tables
<1>8. CASE GetKey(s) \/ QueryList(s) \/ ReadEachGroup(s) \/ ReadEachUser(s)
  BY <1>8 DEF GetKey, QueryList, ReadEachGroup, ReadEachUser, tables
<1> QED  BY <1>1, <1>2, <1>3, <1>4, <1>5, <1>6, <1>7, <1>8 DEF Step

\* The handler is n calls further, and only the variables f have changed.
Passes(s, f, n) ==
  run'[s] # Idle => /\ DOMAIN run'[s] = Fields /\ run'[s].pc = run[s].pc + n
                    /\ \A q \in Fields \ ({"pc"} \cup f) : run'[s][q] = run[s][q]

LEMMA SkipPasses ==
  ASSUME DOMAIN run = Slots, NEW s \in Slots, NEW h, DOMAIN h = Fields, h.pc = run[s].pc, NEW n, Skip(s, h, n), NEW f,
         \A q \in Fields \ f : h[q] = run[s][q]
  PROVE  Passes(s, f, n)
<1> DEFINE x == [h EXCEPT !.pc = @ + n]
<1>1. run' = [run EXCEPT ![s] = Idle] \/ run' = [run EXCEPT ![s] = x]  BY DEF Skip, Return
<1>2. DOMAIN x = Fields /\ x.pc = h.pc + n /\ \A q \in Fields \ {"pc"} : x[q] = h[q]  BY DEF Fields
<1> HIDE DEF x
<1>3. run'[s] = Idle \/ run'[s] = x  BY <1>1
<1> QED  BY <1>2, <1>3 DEF Passes

LEMMA SamePasses ==
  ASSUME DOMAIN run = Slots, NEW s \in Slots, DOMAIN run[s] = Fields, NEW n, Skip(s, run[s], n) \/ Return(s)
  PROVE  Passes(s, {}, n)
<1>1. CASE Skip(s, run[s], n)  BY <1>1, SkipPasses
<1>2. CASE Return(s)  BY <1>2 DEF Return, Passes
<1> QED  BY <1>1, <1>2

LEMMA ReturnPasses ==
  ASSUME DOMAIN run = Slots, NEW s \in Slots, Return(s), NEW f, NEW n
  PROVE  Passes(s, f, n)
BY DEF Return, Passes

LEMMA StayPasses ==
  ASSUME DOMAIN run = Slots, NEW s \in Slots, NEW h, DOMAIN h = Fields, Stay(s, h), run[s].pc \in Int, NEW f,
         "pc" \notin f, \A q \in Fields \ f : h[q] = run[s][q]
  PROVE  Passes(s, f, 0)
<1>1. run'[s] = h  BY DEF Stay
<1>2. run[s].pc + 0 = run[s].pc /\ h.pc = run[s].pc  BY DEF Fields
<1> QED  BY <1>1, <1>2 DEF Passes

\* What a record of a handler is with one field changed.
LEMMA FieldChanged ==
  ASSUME NEW h, DOMAIN h = Fields, NEW v
  PROVE  /\ LET x == [h EXCEPT !.held = v] IN DOMAIN x = Fields /\ \A q \in Fields \ {"held"} : x[q] = h[q]
         /\ LET x == [h EXCEPT !.people = v] IN DOMAIN x = Fields /\ \A q \in Fields \ {"people"} : x[q] = h[q]
         /\ LET x == [h EXCEPT !.group = v] IN DOMAIN x = Fields /\ \A q \in Fields \ {"group"} : x[q] = h[q]
         /\ LET x == [h EXCEPT !.found = v] IN DOMAIN x = Fields /\ \A q \in Fields \ {"found"} : x[q] = h[q]
BY DEF Fields

Passed(s) ==
  LET do == CallOf(s).do
  IN  /\ do \in {"IfNone", "Update", "IfNoTelephone", "InsertUser", "InsertGroup", "SaveGroup", "UpdateGroup",
                 "Get", "SetEx", "Forget"} => Passes(s, {}, 1)
      /\ do \in {"First", "Insert", "Save", "Find", "FindEither"} => Passes(s, {"held"}, 1)
      /\ do = "FirstOr" => Passes(s, {}, 1) \/ Passes(s, {"held"}, 2)
      /\ do = "EachFound" => Passes(s, {}, 1) \/ Passes(s, {"held"}, 0)
      /\ do \in {"FirstUser", "FindUser", "FindUsers"} => Passes(s, {"people"}, 1)
      /\ do = "SaveUser" => Passes(s, {}, 1) \/ Passes(s, {}, CallOf(s).rest + 1)
      /\ do \in {"FirstGroup", "FindGroup"} => Passes(s, {"group", "uuid"}, 1)
      /\ do = "Strike" => Passes(s, {"group"}, 1)
      /\ do = "Query" => Passes(s, {"found", "ids"}, 1)
      /\ do \in {"EachGroup", "EachUser"} => Passes(s, {}, 1) \/ Passes(s, {"found", "ids"}, 0)

LEMMA StepPasses ==
  ASSUME Typed, NEW s \in Slots, Step(s)
  PROVE  Passed(s)
<1> DEFINE h == run[s]
           do == CallOf(s).do
<1>0. DOMAIN run = Slots /\ DOMAIN h = Fields /\ h.pc \in Int
  BY StepLeaves, Here DEF BodyOK
<1>1. CASE do \in {"IfNone", "IfNoTelephone", "Get", "Update", "InsertUser", "InsertGroup", "UpdateGroup", "SetEx", "Forget"}
  <2>1. Skip(s, h, 1) \/ Return(s)
    BY <1>1, ActionOf DEF FindSession, CheckTelephoneExist, GetKey, UpdateRows, InsertUserRow, InsertGroupRow,
       UpdateGroupRow, SetKeyEx, DelKeys, GoOn
  <2>2. Passes(s, {}, 1)  BY <1>0, <2>1, SamePasses
  <2> QED  BY <1>1, <2>2 DEF Passed
<1>2. CASE do = "SaveGroup"
  <2>1. Skip(s, h, 1) \/ Return(s)  BY <1>2, ActionOf DEF SaveGroupRow, GoOn
  <2>2. Passes(s, {}, 1)  BY <1>0, <2>1, SamePasses
  <2> QED  BY <1>2, <2>2 DEF Passed
<1>3. CASE do = "SaveUser"
  <2>1. Skip(s, h, 1) \/ Skip(s, h, CallOf(s).rest + 1)  BY <1>3, ActionOf DEF SaveUserRow, GoOn
  <2>2. Passes(s, {}, 1) \/ Passes(s, {}, CallOf(s).rest + 1)  BY <1>0, <2>1, SamePasses
  <2> QED  BY <1>3, <2>2 DEF Passed
<1>4. CASE do \in {"Insert", "Save", "Find", "FindEither"}
  <2>1. \E v : Skip(s, [h EXCEPT !.held = v], 1)
    BY <1>4, ActionOf DEF InsertRow, SaveRow, FindRows, GoOn
  <2>2. PICK v : Skip(s, [h EXCEPT !.held = v], 1)  BY <2>1
  <2> DEFINE x == [h EXCEPT !.held = v]
  <2>3. DOMAIN x = Fields /\ \A q \in Fields \ {"held"} : x[q] = h[q]  BY <1>0, FieldChanged
  <2>4. Skip(s, x, 1)  BY <2>2
  <2> HIDE DEF x
  <2>5. x.pc = h.pc  BY <2>3 DEF Fields
  <2>6. Passes(s, {"held"}, 1)  BY <1>0, <2>3, <2>4, <2>5, SkipPasses
  <2> QED  BY <1>4, <2>6 DEF Passed
<1>5. CASE do \in {"First", "FirstOr"}
  <2>1. \/ Return(s)
        \/ do = "FirstOr" /\ Skip(s, h, 1)
        \/ \E v : Skip(s, [h EXCEPT !.held = v], IF do = "First" THEN 1 ELSE 2)
    BY <1>5, ActionOf DEF ReadRow, GoOn
  <2>2. CASE Return(s)
    <3>1. Passes(s, {}, 1) /\ Passes(s, {"held"}, 1)  BY <1>0, <2>2, ReturnPasses
    <3> QED  BY <1>5, <3>1 DEF Passed
  <2>3. CASE do = "FirstOr" /\ Skip(s, h, 1)
    <3>1. Passes(s, {}, 1)  BY <1>0, <2>3, SamePasses
    <3> QED  BY <2>3, <3>1 DEF Passed
  <2>4. CASE \E v : Skip(s, [h EXCEPT !.held = v], IF do = "First" THEN 1 ELSE 2)
    <3>1. PICK v : Skip(s, [h EXCEPT !.held = v], IF do = "First" THEN 1 ELSE 2)  BY <2>4
    <3> DEFINE x == [h EXCEPT !.held = v]
               n == IF do = "First" THEN 1 ELSE 2
    <3>2. DOMAIN x = Fields /\ \A q \in Fields \ {"held"} : x[q] = h[q]  BY <1>0, FieldChanged
    <3>3. Skip(s, x, n)  BY <3>1
    <3> HIDE DEF x, n
    <3>4. x.pc = h.pc  BY <3>2 DEF Fields
    <3>5. Passes(s, {"held"}, n)  BY <1>0, <3>2, <3>3, <3>4, SkipPasses
    <3> QED  BY <1>5, <3>5 DEF Passed, n
  <2> QED  BY <2>1, <2>2, <2>3, <2>4
<1>6. CASE do = "EachFound"
  <2>1. Skip(s, h, 1) \/ \E v : Stay(s, [h EXCEPT !.held = v])  BY <1>6, ActionOf DEF EachRow, GoOn
  <2>2. CASE Skip(s, h, 1)
    <3>1. Passes(s, {}, 1)  BY <1>0, <2>2, SamePasses
    <3> QED  BY <1>6, <3>1 DEF Passed
  <2>3. CASE \E v : Stay(s, [h EXCEPT !.held = v])
    <3>1. PICK v : Stay(s, [h EXCEPT !.held = v])  BY <2>3
    <3> DEFINE x == [h EXCEPT !.held = v]
    <3>2. DOMAIN x = Fields /\ \A q \in Fields \ {"held"} : x[q] = h[q]  BY <1>0, FieldChanged
    <3>3. Stay(s, x)  BY <3>1
    <3> HIDE DEF x
    <3>4. Passes(s, {"held"}, 0)  BY <1>0, <3>2, <3>3, StayPasses
    <3> QED  BY <1>6, <3>4 DEF Passed
  <2> QED  BY <2>1, <2>2, <2>3
<1>7. CASE do \in {"FirstUser", "FindUser", "FindUsers"}
  <2>1. Return(s) \/ \E v : Skip(s, [h EXCEPT !.people = v], 1)  BY <1>7, ActionOf DEF ReadUser, ReadUsers, GoOn
  <2>2. CASE Return(s)
    <3>1. Passes(s, {"people"}, 1)  BY <1>0, <2>2, ReturnPasses
    <3> QED  BY <1>7, <3>1 DEF Passed
  <2>3. CASE \E v : Skip(s, [h EXCEPT !.people = v], 1)
    <3>1. PICK v : Skip(s, [h EXCEPT !.people = v], 1)  BY <2>3
    <3> DEFINE x == [h EXCEPT !.people = v]
    <3>2. DOMAIN x = Fields /\ \A q \in Fields \ {"people"} : x[q] = h[q]  BY <1>0, FieldChanged
    <3>3. Skip(s, x, 1)  BY <3>1
    <3> HIDE DEF x
    <3>4. x.pc = h.pc  BY <3>2 DEF Fields
    <3>5. Passes(s, {"people"}, 1)  BY <1>0, <3>2, <3>3, <3>4, SkipPasses
    <3> QED  BY <1>7, <3>5 DEF Passed
  <2> QED  BY <2>1, <2>2, <2>3
<1>8. CASE do \in {"FirstGroup", "FindGroup"}
  <2>1. Return(s) \/ \E v, w : Skip(s, GroupRead(h, v, w), 1)
    <3> DEFINE c == CallOf(s)
               v == IF groups[c.group].live THEN groups[c.group] ELSE NoGroup
               x == GroupRead(h, v, c.group)
    <3>1. Return(s) \/ Skip(s, x, 1)  BY <1>8, ActionOf DEF ReadGroup, GoOn, GroupRead
    <3> QED  BY <3>1, Zenon
  <2>2. CASE Return(s)
    <3>1. Passes(s, {"group", "uuid"}, 1)  BY <1>0, <2>2, ReturnPasses
    <3> QED  BY <1>8, <3>1 DEF Passed
  <2>3. CASE \E v, w : Skip(s, GroupRead(h, v, w), 1)
    <3>1. PICK v, w : Skip(s, GroupRead(h, v, w), 1)  BY <2>3
    <3> DEFINE x == GroupRead(h, v, w)
    <3>2. DOMAIN x = Fields /\ \A q \in Fields \ {"group", "uuid"} : x[q] = h[q]
      BY <1>0 DEF Fields, GroupRead
    <3>3. Skip(s, x, 1)  BY <3>1
    <3> HIDE DEF x
    <3>4. x.pc = h.pc  BY <3>2 DEF Fields
    <3>5. Passes(s, {"group", "uuid"}, 1)  BY <1>0, <3>2, <3>3, <3>4, SkipPasses
    <3> QED  BY <1>8, <3>5 DEF Passed
  <2> QED  BY <2>1, <2>2, <2>3
<1>9. CASE do = "Strike"
  <2>1. Return(s) \/ \E v : Skip(s, [h EXCEPT !.group = v], 1)  BY <1>9, ActionOf DEF StrikeMember, GoOn
  <2>2. CASE Return(s)
    <3>1. Passes(s, {"group"}, 1)  BY <1>0, <2>2, ReturnPasses
    <3> QED  BY <1>9, <3>1 DEF Passed
  <2>3. CASE \E v : Skip(s, [h EXCEPT !.group = v], 1)
    <3>1. PICK v : Skip(s, [h EXCEPT !.group = v], 1)  BY <2>3
    <3> DEFINE x == [h EXCEPT !.group = v]
    <3>2. DOMAIN x = Fields /\ \A q \in Fields \ {"group"} : x[q] = h[q]  BY <1>0, FieldChanged
    <3>3. Skip(s, x, 1)  BY <3>1
    <3> HIDE DEF x
    <3>4. x.pc = h.pc  BY <3>2 DEF Fields
    <3>5. Passes(s, {"group"}, 1)  BY <1>0, <3>2, <3>3, <3>4, SkipPasses
    <3> QED  BY <1>9, <3>5 DEF Passed
  <2> QED  BY <2>1, <2>2, <2>3
<1>10. CASE do = "Query"
  <2>1. \E v, w : Skip(s, IdsRead(h, v, w), 1)
    <3> DEFINE set == ListQuery(CallOf(s).list, CallOf(s).of)
               x == IdsRead(h, set, SetToSeq(set))
    <3>1. Skip(s, x, 1)  BY <1>10, ActionOf DEF QueryList, GoOn, IdsRead
    <3> QED  BY <3>1, Zenon
  <2>2. PICK v, w : Skip(s, IdsRead(h, v, w), 1)  BY <2>1
  <2> DEFINE x == IdsRead(h, v, w)
  <2>3. DOMAIN x = Fields /\ \A q \in Fields \ {"found", "ids"} : x[q] = h[q]  BY <1>0 DEF Fields, IdsRead
  <2>4. Skip(s, x, 1)  BY <2>2
  <2> HIDE DEF x
  <2>5. x.pc = h.pc  BY <2>3 DEF Fields
  <2>6. Passes(s, {"found", "ids"}, 1)  BY <1>0, <2>3, <2>4, <2>5, SkipPasses
  <2> QED  BY <1>10, <2>6 DEF Passed
<1>11. CASE do = "EachGroup"
  <2>1. Skip(s, h, 1) \/ Return(s) \/ \E v, w : Stay(s, RestRead(h, v, w))
    <3> DEFINE g == Head(h.found)
               w == IF OwnerOf[g] = h.req.owner THEN h.ids \ {g} ELSE h.ids
               x == RestRead(h, Tail(h.found), w)
    <3>1. Skip(s, h, 1) \/ Return(s) \/ Stay(s, x)  BY <1>11, ActionOf DEF ReadEachGroup, GoOn, RestRead
    <3> QED  BY <3>1, Zenon
  <2>2. CASE Skip(s, h, 1) \/ Return(s)
    <3>1. Passes(s, {}, 1)  BY <1>0, <2>2, SamePasses
    <3> QED  BY <1>11, <3>1 DEF Passed
  <2>3. CASE \E v, w : Stay(s, RestRead(h, v, w))
    <3>1. PICK v, w : Stay(s, RestRead(h, v, w))  BY <2>3
    <3> DEFINE x == RestRead(h, v, w)
    <3>2. DOMAIN x = Fields /\ \A q \in Fields \ {"found", "ids"} : x[q] = h[q]
      BY <1>0 DEF Fields, RestRead
    <3>3. Stay(s, x)  BY <3>1
    <3> HIDE DEF x
    <3>4. Passes(s, {"found", "ids"}, 0)  BY <1>0, <3>2, <3>3, StayPasses
    <3> QED  BY <1>11, <3>4 DEF Passed
  <2> QED  BY <2>1, <2>2, <2>3
<1>12. CASE do = "EachUser"
  <2>1. Skip(s, h, 1) \/ Return(s) \/ \E v : Stay(s, [h EXCEPT !.found = v])  BY <1>12, ActionOf DEF ReadEachUser, GoOn
  <2>2. CASE Skip(s, h, 1) \/ Return(s)
    <3>1. Passes(s, {}, 1)  BY <1>0, <2>2, SamePasses
    <3> QED  BY <1>12, <3>1 DEF Passed
  <2>3. CASE \E v : Stay(s, [h EXCEPT !.found = v])
    <3>1. PICK v : Stay(s, [h EXCEPT !.found = v])  BY <2>3
    <3> DEFINE x == [h EXCEPT !.found = v]
    <3>2. DOMAIN x = Fields /\ \A q \in Fields \ {"found", "ids"} : x[q] = h[q]  BY <1>0, FieldChanged
    <3>3. Stay(s, x)  BY <3>1
    <3> HIDE DEF x
    <3>4. Passes(s, {"found", "ids"}, 0)  BY <1>0, <3>2, <3>3, StayPasses
    <3> QED  BY <1>12, <3>4 DEF Passed
  <2> QED  BY <2>1, <2>2, <2>3
<1> QED
  <2>1. \/ do \in {"IfNone", "IfNoTelephone", "Get", "Update", "InsertUser", "InsertGroup", "UpdateGroup", "SetEx", "Forget"}
        \/ do \in {"SaveGroup", "SaveUser"} \/ do \in {"Insert", "Save", "Find", "FindEither"}
        \/ do \in {"First", "FirstOr"} \/ do = "EachFound" \/ do \in {"FirstUser", "FindUser", "FindUsers"}
        \/ do \in {"FirstGroup", "FindGroup"} \/ do \in {"Strike", "Query", "EachGroup", "EachUser"}
    <3>1. Fits(h.req, CallOf(s))  BY StepLeaves, Here
    <3>2. do \in Dos  BY <3>1 DEF Fits
    <3> QED  BY <3>2 DEF Dos
  <2> QED  BY <2>1, <1>1, <1>2, <1>3, <1>4, <1>5, <1>6, <1>7, <1>8, <1>9, <1>10, <1>11, <1>12
\* The fields of a handler that a call leaves alone.
LEMMA FieldsKept ==
  ASSUME Typed, NEW s \in Slots, Step(s), run'[s] # Idle
  PROVE  LET do == CallOf(s).do
         IN  /\ do \notin {"FirstUser", "FindUser", "FindUsers"} => run'[s].people = run[s].people
             /\ do \notin {"FirstGroup", "FindGroup", "Strike"} => run'[s].group = run[s].group
             /\ do \notin {"FirstGroup", "FindGroup"} => run'[s].uuid = run[s].uuid
             /\ do \notin Changing \cup {"EachFound"} => run'[s].held = run[s].held
             /\ do \notin {"Query", "EachGroup", "EachUser"} => run'[s].ids = run[s].ids
             /\ do \notin {"FirstOr", "SaveUser", "EachFound", "EachGroup", "EachUser"} => run'[s].pc = run[s].pc + 1
             /\ run'[s].req = run[s].req /\ run'[s].pc \in 1..Len(CallsOf[run[s].req])
<1> DEFINE do == CallOf(s).do
<1>0. run[s] # Idle /\ Passed(s)  BY StepLeaves, StepPasses
<1>1. do \in Dos  BY <1>0, Here DEF Fits
<1>2. run'[s].req = run[s].req /\ run'[s].pc \in 1..Len(CallsOf[run[s].req])
  BY StepIsTyped DEF StepTyped, Moved, SlotOK, OutlineAt
<1>3. /\ do \notin {"FirstUser", "FindUser", "FindUsers"} => run'[s].people = run[s].people
      /\ do \notin {"FirstGroup", "FindGroup", "Strike"} => run'[s].group = run[s].group
  BY <1>0, <1>1 DEF Passed, Passes, Fields, Dos
<1>4. /\ do \notin {"FirstGroup", "FindGroup"} => run'[s].uuid = run[s].uuid
      /\ do \notin Changing \cup {"EachFound"} => run'[s].held = run[s].held
  BY <1>0, <1>1 DEF Passed, Passes, Fields, Dos, Changing
<1>5. /\ do \notin {"Query", "EachGroup", "EachUser"} => run'[s].ids = run[s].ids
      /\ do \notin {"FirstOr", "SaveUser", "EachFound", "EachGroup", "EachUser"} => run'[s].pc = run[s].pc + 1
  BY <1>0, <1>1 DEF Passed, Passes, Fields, Dos
<1> QED  BY <1>2, <1>3, <1>4, <1>5

-----------------------------------------------------------------------------
(* One account for each telephone number. *)

LEMMA SameTel ==
  ASSUME NEW a, NEW b, OfTel(a) = OfTel(b)
  PROVE  a = b
BY DEF OfTel

\* Who has to do with an account.
LEMMA TelOps ==
  ASSUME NEW r \in Requests, NEW tel, OfTel(tel) \in AboutOf[r]
  PROVE  r.op \in UserOps \/ (r.op = "Register" /\ AboutOf[r] = {OfTel(TelOf[r.owner])})
<1> SUFFICES ASSUME r.op \notin UserOps, r.op # "Register"  PROVE FALSE
  BY AboutCases
<1>0. AboutOf[r] = About(r)  BY RequestOK
<1>1. \A u, x, g : OfTel(tel) # OfTalk(u, x) /\ OfTel(tel) # OfGroup(g) /\ OfTel(tel) # OfList(u) /\ OfTel(tel) # OfPair(u, x)
  BY DEF OfTel, OfTalk, OfGroup, OfList, OfPair
<1>2. OfTel(tel) \notin Pair(r) \cup Roster(r) \cup OwnersList(r)  BY <1>1 DEF Pair, Roster, OwnersList
<1>3. OfTel(tel) \notin {OfTalk(r.owner, r.contact)} /\ OfTel(tel) \notin {OfList(r.owner)}  BY <1>1
<1>4. AboutOf[r] \subseteq Pair(r) \cup Roster(r) \cup OwnersList(r) \cup {OfTalk(r.owner, r.contact)} \cup {OfList(r.owner)}
  BY <1>0 DEF About, UserOps
<1> QED  BY <1>2, <1>3, <1>4

\* A registration that is about to put the row in has found none.
Free(h) ==
  h.req.op = "Register" /\ h.pc = 2 => \A u \in Users : TelOf[u] = TelOf[h.req.owner] => ~users[u].live

\* The rows in hand are those of the table, as far as they are written back.
Fresh(h, x) ==
  h.req.op \in UserOps => \A u \in DOMAIN h.people : OfTel(TelOf[u]) = x =>
    /\ h.req.op # "DeleteUsers" => h.people[u].live /\ users[u].live
    /\ h.req.op \in {"UpdateUserInfo", "SetAdmin", "DeleteUsers"} => h.people[u].status = users[u].status

Single(x) ==
  \A u, v \in Users : u # v /\ OfTel(TelOf[u]) = x /\ OfTel(TelOf[v]) = x => ~(users[u].live /\ users[v].live)

TelephoneOK(x) ==
  /\ Single(x)
  /\ \A s \in Slots : On(s, x) => Free(run[s]) /\ Fresh(run[s], x)

LEMMA RegisterShape ==
  ASSUME NEW r \in Requests, r.op = "Register"
  PROVE  /\ CallsOf[r] = << IfNoTelephone(TelOf[r.owner]), InsertUser(r.owner) >> /\ Len(CallsOf[r]) = 2
         /\ CallsOf[r][1].do = "IfNoTelephone" /\ CallsOf[r][1].tel = TelOf[r.owner] /\ CallsOf[r][2].do = "InsertUser"
         /\ r.owner \in Users
<1>1. CallsOf[r] = Register(r.owner) /\ r.owner \in Users
  BY RequestOK DEF Calls, Lists, WellFormed
<1>2. CallsOf[r] = << IfNoTelephone(TelOf[r.owner]), InsertUser(r.owner) >>  BY <1>1 DEF Register
<1> QED  BY <1>1, <1>2 DEF IfNoTelephone, InsertUser

LEMMA ElsewhereTelephone ==
  ASSUME Typed, NEW x, TelephoneOK(x), Elsewhere(x)
  PROVE  TelephoneOK(x)'
<1>1. \A u \in Users : OfTel(TelOf[u]) = x => users'[u] = users[u]  BY DEF Elsewhere
<1>2. Single(x)'  BY <1>1 DEF TelephoneOK, Single
<1> SUFFICES ASSUME NEW s \in Slots, On(s, x)'  PROVE Free(run[s])' /\ Fresh(run[s], x)'
  BY <1>2 DEF TelephoneOK
<1>3. On(s, x) /\ run'[s] = run[s]  BY DEF Elsewhere
<1>4. Free(run[s]) /\ Fresh(run[s], x) /\ BodyOK(run[s]) /\ run[s].req \in Requests  BY <1>3, Here DEF TelephoneOK, On
<1>5. Free(run[s])'
  <2>1. run[s].req.op = "Register" => OfTel(TelOf[run[s].req.owner]) = x  BY <1>3, <1>4, AboutCases DEF On
  <2> QED  BY <1>1, <1>3, <1>4, <2>1 DEF Free
<1>6. Fresh(run[s], x)'
  <2>1. DOMAIN run[s].people \subseteq Users  BY <1>4 DEF BodyOK
  <2> QED  BY <1>1, <1>3, <1>4, <2>1 DEF Fresh
<1> QED  BY <1>5, <1>6

LEMMA BeginsTelephone ==
  ASSUME Typed, NEW x, TelephoneOK(x), NEW s \in Slots, Begins(s, x)
  PROVE  TelephoneOK(x)'
<1>1. users' = users  BY DEF Begins, tables
<1>2. Single(x)'  BY <1>1 DEF TelephoneOK, Single
<1>3. run'[s].pc = 1 /\ DOMAIN run'[s].people = {}  BY DEF Begins, NewHandler
<1>4. Free(run[s])' /\ Fresh(run[s], x)'  BY <1>3 DEF Free, Fresh
<1>5. \A t \in Slots : t # s => ~On(t, x)'  BY DEF Begins
<1> QED  BY <1>2, <1>4, <1>5 DEF TelephoneOK

\* With the handler itself looked after, the rest is quickly said.
LEMMA WorksTelephone ==
  ASSUME NEW x, NEW s \in Slots, Works(s, x), Single(x)', run'[s] # Idle => Free(run[s])' /\ Fresh(run[s], x)'
  PROVE  TelephoneOK(x)'
BY DEF Works, TelephoneOK, On

LEMMA RegisterKeeps ==
  ASSUME Typed, NEW tel, TelephoneOK(OfTel(tel)), NEW s \in Slots, Works(s, OfTel(tel)), run[s].req.op = "Register"
  PROVE  TelephoneOK(OfTel(tel))'
<1> DEFINE x == OfTel(tel)
           r == run[s].req
<1>0. /\ run[s] # Idle /\ r \in Requests /\ x \in AboutOf[r] /\ run[s].pc \in 1..Len(CallsOf[r])
      /\ CallOf(s) = CallsOf[r][run[s].pc] /\ Step(s) /\ StepTyped(s) /\ Fits(r, CallOf(s))
  BY Here DEF Works, On
<1>1. /\ Len(CallsOf[r]) = 2 /\ CallsOf[r][1].do = "IfNoTelephone" /\ CallsOf[r][1].tel = TelOf[r.owner]
      /\ CallsOf[r][2].do = "InsertUser" /\ r.owner \in Users
  BY <1>0, RegisterShape
<1>2. x = OfTel(TelOf[r.owner])  BY <1>0, AboutCases
<1>3. Single(x) /\ Free(run[s])  BY <1>0 DEF TelephoneOK, Works
<1>4. CASE run[s].pc = 1
  <2>1. CheckTelephoneExist(s) /\ users' = users  BY <1>0, <1>1, <1>4, ActionOf, Leaves
  <2>2. Single(x)'  BY <1>3, <2>1 DEF Single
  <2>3. ASSUME run'[s] # Idle  PROVE Free(run[s])' /\ Fresh(run[s], x)'
    <3>1. run'[s].req = r  BY <1>0, <2>3 DEF StepTyped, Moved
    <3>2. \A u \in Users : TelOf[u] = TelOf[r.owner] => ~users[u].live
      <4>1. ~Return(s)  BY <2>3, Returns DEF Typed, Handlers
      <4> QED  BY <1>0, <1>1, <1>4, <2>1, <4>1 DEF CheckTelephoneExist
    <3> QED  BY <2>1, <3>1, <3>2 DEF Free, Fresh, UserOps
  <2> QED  BY <2>2, <2>3, WorksTelephone
<1>5. CASE run[s].pc = 2
  <2>1. InsertUserRow(s) /\ CallOf(s).do = "InsertUser"  BY <1>0, <1>1, <1>5, ActionOf
  <2>2. CallOf(s).who = r.owner  BY <1>0, <2>1 DEF Fits, UserCall
  <2>3. users' = [users EXCEPT ![r.owner] = [live |-> TRUE, status |-> "NORMAL"]]  BY <2>1, <2>2 DEF InsertUserRow
  <2>4. \A u \in Users : OfTel(TelOf[u]) = x => ~users[u].live
    <3>1. \A u \in Users : TelOf[u] = TelOf[r.owner] => ~users[u].live  BY <1>3, <1>5 DEF Free
    <3> QED  BY <1>2, <3>1, SameTel
  <2>5. \A u \in Users : u # r.owner => users'[u] = users[u]  BY <2>3 DEF Typed
  <2>6. Single(x)'  BY <2>4, <2>5 DEF Single
  <2>7. run'[s] = Idle
    <3> SUFFICES ASSUME run'[s] # Idle  PROVE FALSE
      OBVIOUS
    <3>1. run'[s].pc = run[s].pc + 1  BY <1>0, <2>1, FieldsKept
    <3>2. run'[s].pc \in 1..Len(CallsOf[r])  BY <1>0, FieldsKept
    <3> QED  BY <1>1, <1>5, <3>1, <3>2
  <2> QED  BY <2>6, <2>7, WorksTelephone
<1> QED  BY <1>0, <1>1, <1>4, <1>5

\* Reading the rows of accounts: those in hand are those of the table, and live.
LEMMA PeopleRead ==
  ASSUME Typed, NEW s \in Slots, Step(s), CallOf(s).do \in {"FirstUser", "FindUsers"}, run'[s] # Idle
  PROVE  /\ \A u \in DOMAIN run'[s].people : run'[s].people[u] = users[u] /\ users[u].live
         /\ CallOf(s).do = "FirstUser" => users[CallOf(s).who].live /\ users[CallOf(s).who].status \in CallOf(s).among
<1> DEFINE c == CallOf(s)
<1>0. run[s] # Idle /\ BodyOK(run[s]) /\ DOMAIN run = Slots  BY StepLeaves, Here
<1>1. CASE c.do = "FirstUser"
  <2> DEFINE p == [v \in {c.who} |-> users[c.who]]
             h == [run[s] EXCEPT !.people = p]
  <2>1. ReadUser(s)  BY <1>1, ActionOf
  <2>2. ~Return(s)  BY <1>0, Returns
  <2>3. users[c.who].live /\ users[c.who].status \in c.among /\ Skip(s, h, 1)  BY <1>1, <2>1, <2>2 DEF ReadUser, GoOn
  <2>4. h.people = p  BY <1>0 DEF BodyOK, Fields
  <2>5. run'[s].people = h.people
    <3> HIDE DEF p
    <3>1. run' = [run EXCEPT ![s] = [h EXCEPT !.pc = @ + 1]]  BY <2>2, <2>3 DEF Skip
    <3> QED  BY <1>0, <3>1 DEF BodyOK, Fields
  <2> HIDE DEF h
  <2>6. run'[s].people = p  BY <2>4, <2>5
  <2> QED  BY <2>3, <2>6
<1>2. CASE c.do = "FindUsers"
  <2> DEFINE found == {u \in ToSet(c.uuids) : users[u].live}
             p == [u \in found |-> users[u]]
             h == [run[s] EXCEPT !.people = p]
  <2>1. ReadUsers(s)  BY <1>2, ActionOf
  <2>2. ~Return(s)  BY <1>0, Returns
  <2>3. Skip(s, h, 1)  BY <1>2, <2>1, <2>2 DEF ReadUsers, GoOn
  <2>4. h.people = p  BY <1>0 DEF BodyOK, Fields
  <2>5. run'[s].people = h.people
    <3> HIDE DEF p
    <3>1. run' = [run EXCEPT ![s] = [h EXCEPT !.pc = @ + 1]]  BY <2>2, <2>3 DEF Skip
    <3> QED  BY <1>0, <3>1 DEF BodyOK, Fields
  <2> HIDE DEF h
  <2>6. run'[s].people = p  BY <2>4, <2>5
  <2> QED  BY <1>2, <2>6
<1> QED  BY <1>1, <1>2

LEMMA ReadKeepsFresh ==
  ASSUME Typed, NEW x, NEW s \in Slots, Works(s, x), run[s].req.op \in UserOps,
         CallOf(s).do \in {"FirstUser", "FindUsers"}, run'[s] # Idle
  PROVE  Fresh(run[s], x)'
<1>1. Step(s) /\ StepTyped(s)  BY DEF Works
<1>2. run'[s].req = run[s].req  BY <1>1 DEF StepTyped, Moved
<1>3. users' = users  BY <1>1, Leaves
<1>4. \A u \in DOMAIN run'[s].people : run'[s].people[u] = users[u] /\ users[u].live  BY <1>1, PeopleRead
<1> QED  BY <1>2, <1>3, <1>4 DEF Fresh

LEMMA SaveKeepsTelephone ==
  ASSUME Typed, NEW x, TelephoneOK(x), NEW s \in Slots, Works(s, x), CallOf(s).do = "SaveUser"
  PROVE  TelephoneOK(x)'
<1> DEFINE r == run[s].req
           c == CallOf(s)
           p == run[s].people
<1>0. /\ run[s] # Idle /\ r \in Requests /\ BodyOK(run[s]) /\ DOMAIN run = Slots /\ Step(s) /\ StepTyped(s) /\ Fits(r, c)
  BY Here DEF Works, On
<1>1. /\ r.op \in UserOps /\ c.who \in Users
      /\ c.how = CASE r.op = "AbleUsers" -> "able" [] r.op = "DisableUsers" -> "disable"
                    [] r.op = "DeleteUsers" -> "delete" [] r.op \in {"UpdateUserInfo", "SetAdmin"} -> "same"
  BY <1>0 DEF Fits, UserCall
<1>1a. /\ c.how \in {"able", "disable", "delete", "same"} /\ (c.how = "delete" <=> r.op = "DeleteUsers")
       /\ r.op \in {"UpdateUserInfo", "SetAdmin"} => c.how = "same"
  BY <1>1 DEF UserOps
<1>2. Single(x) /\ Fresh(run[s], x)  BY DEF TelephoneOK, Works
<1>3. DOMAIN p \subseteq Users /\ \A u \in DOMAIN p : p[u] \in UserRow  BY <1>0 DEF BodyOK
<1>4. SaveUserRow(s)  BY <1>0, ActionOf
<1>5. run'[s] # Idle => run'[s].people = p /\ run'[s].req = r
  <2>1. Passes(s, {}, 1) \/ Passes(s, {}, c.rest + 1)  BY <1>0, StepPasses DEF Passed
  <2>2. run'[s] # Idle => run'[s].people = p  BY <2>1 DEF Passes, Fields
  <2> QED  BY <1>0, <2>2 DEF StepTyped, Moved
<1>6. \A u \in Users : \/ users'[u] = users[u]
                       \/ u = c.who /\ u \in DOMAIN p /\ users'[u] = ChangedUser(p[u], c.how)
  BY <1>1, <1>4 DEF SaveUserRow, Typed
<1> HIDE DEF r, c, p
<1>7. \A u \in Users : OfTel(TelOf[u]) = x =>
        /\ users'[u].live => users[u].live
        /\ u \in DOMAIN p =>
             /\ r.op # "DeleteUsers" => p[u].live /\ users'[u].live
             /\ r.op \in {"UpdateUserInfo", "SetAdmin", "DeleteUsers"} => p[u].status = users'[u].status
  <2> TAKE u \in Users
  <2> HAVE OfTel(TelOf[u]) = x
  <2>1. u \in DOMAIN p =>
             /\ r.op # "DeleteUsers" => p[u].live /\ users[u].live
             /\ r.op \in {"UpdateUserInfo", "SetAdmin", "DeleteUsers"} => p[u].status = users[u].status
    BY <1>1, <1>2 DEF Fresh, r, p
  <2>2. CASE users'[u] = users[u]  BY <2>1, <2>2
  <2>3. CASE u \in DOMAIN p /\ users'[u] = ChangedUser(p[u], c.how)
    <3> DEFINE new == ChangedUser(p[u], c.how)
    <3>1. p[u] \in UserRow  BY <1>3, <2>3
    <3>2. /\ c.how = "same" => new = p[u]
          /\ c.how = "able" => new.live = p[u].live
          /\ c.how = "disable" => new.live = p[u].live
          /\ c.how = "delete" => ~new.live /\ new.status = p[u].status
      BY <1>1a, <3>1, ChangedUserType
    <3>3. users'[u] = new  BY <2>3
    <3> HIDE DEF new
    <3>4. CASE r.op = "DeleteUsers"  BY <1>1a, <2>1, <2>3, <3>2, <3>3, <3>4
    <3>5. CASE r.op \in {"UpdateUserInfo", "SetAdmin"}  BY <1>1a, <2>1, <2>3, <3>2, <3>3, <3>5
    <3>6. CASE r.op \notin {"UpdateUserInfo", "SetAdmin", "DeleteUsers"}  BY <1>1a, <2>1, <2>3, <3>2, <3>3, <3>6
    <3> QED  BY <3>4, <3>5, <3>6
  <2> QED  BY <1>6, <2>2, <2>3
<1>8. Single(x)'  BY <1>2, <1>7 DEF Single
<1>9. run'[s] # Idle => Free(run[s])' /\ Fresh(run[s], x)'
  <2> SUFFICES ASSUME run'[s] # Idle  PROVE Free(run[s])' /\ Fresh(run[s], x)'
    OBVIOUS
  <2>1. run'[s].people = p /\ run'[s].req = r  BY <1>5
  <2>2. Free(run[s])'  BY <1>1, <2>1 DEF Free, UserOps
  <2>3. Fresh(run[s], x)'  BY <1>3, <1>7, <2>1 DEF Fresh
  <2> QED  BY <2>2, <2>3
<1> QED  BY <1>8, <1>9, WorksTelephone

LEMMA UserOpsKeep ==
  ASSUME Typed, NEW x, TelephoneOK(x), NEW s \in Slots, Works(s, x), run[s].req.op \in UserOps
  PROVE  TelephoneOK(x)'
<1> DEFINE r == run[s].req
           do == CallOf(s).do
<1>0. /\ run[s] # Idle /\ r \in Requests /\ Step(s) /\ StepTyped(s) /\ Fits(r, CallOf(s))
  BY Here DEF Works, On
<1>1. do \notin {"FindUser", "InsertUser"}  BY <1>0 DEF Fits, UserCall, UserOps
<1>2. Single(x) /\ Fresh(run[s], x)  BY DEF TelephoneOK, Works
<1>3. CASE do = "SaveUser"  BY <1>3, SaveKeepsTelephone
<1>4. CASE do # "SaveUser"
  <2>1. users' = users  BY <1>0, <1>1, <1>4, Leaves
  <2>2. Single(x)'  BY <1>2, <2>1 DEF Single
  <2>3. run'[s] # Idle => run'[s].req = r  BY <1>0 DEF StepTyped, Moved
  <2>4. run'[s] # Idle => Free(run[s])'  BY <2>3 DEF Free, UserOps
  <2>5. run'[s] # Idle => Fresh(run[s], x)'
    <3>1. CASE do \in {"FirstUser", "FindUsers"}  BY <3>1, ReadKeepsFresh
    <3>2. CASE do \notin {"FirstUser", "FindUsers"}
      <4>1. run'[s] # Idle => run'[s].people = run[s].people  BY <1>0, <1>1, <1>4, <3>2, FieldsKept
      <4> QED  BY <1>2, <2>1, <2>3, <4>1 DEF Fresh
    <3> QED  BY <3>1, <3>2
  <2> QED  BY <2>2, <2>4, <2>5, WorksTelephone
<1> QED  BY <1>3, <1>4

LEMMA TelephoneStep ==
  ASSUME Typed, Apart, [Next]_vars, NEW tel, OfTel(tel) \notin disturbed', TelephoneOK(OfTel(tel))
  PROVE  TelephoneOK(OfTel(tel))'
<1>1. CASE Elsewhere(OfTel(tel))  BY <1>1, ElsewhereTelephone
<1>2. ASSUME NEW s \in Slots, Begins(s, OfTel(tel))  PROVE TelephoneOK(OfTel(tel))'  BY <1>2, BeginsTelephone
<1>3. ASSUME NEW s \in Slots, Works(s, OfTel(tel))  PROVE TelephoneOK(OfTel(tel))'
  <2>1. run[s].req \in Requests /\ OfTel(tel) \in AboutOf[run[s].req]  BY <1>3, Here DEF Works, On
  <2>2. run[s].req.op \in UserOps \/ run[s].req.op = "Register"  BY <2>1, TelOps
  <2> QED  BY <1>3, <2>2, RegisterKeeps, UserOpsKeep
<1> QED  BY <1>1, <1>2, <1>3, StepAbout

TelephonesOK == \A u \in Users : OfTel(TelOf[u]) \notin disturbed => TelephoneOK(OfTel(TelOf[u]))

LEMMA InitTelephones == Init => TelephonesOK
<1> SUFFICES ASSUME Init, NEW u \in Users  PROVE TelephoneOK(OfTel(TelOf[u]))
  BY DEF TelephonesOK
<1>1. \A s \in Slots : ~On(s, OfTel(TelOf[u]))  BY DEF Init, On
<1>2. \A v \in Users : users[v].live => v \in Users \ Newcomers  BY DEF Init
<1>3. \A v, w \in Users : OfTel(TelOf[v]) = OfTel(TelOf[w]) => TelOf[v] = TelOf[w]  BY SameTel
<1>4. Single(OfTel(TelOf[u]))  BY <1>2, <1>3, MembershipAssumption DEF Single
<1> QED  BY <1>1, <1>4 DEF TelephoneOK

LEMMA TelephonesStep == Typed /\ Apart /\ TelephonesOK /\ [Next]_vars => TelephonesOK'
<1> SUFFICES ASSUME Typed, Apart, TelephonesOK, [Next]_vars, NEW u \in Users, OfTel(TelOf[u]) \notin disturbed'
             PROVE  TelephoneOK(OfTel(TelOf[u]))'
  BY DEF TelephonesOK
<1>1. OfTel(TelOf[u]) \notin disturbed  BY DisturbedGrows
<1> QED  BY <1>1, TelephoneStep DEF TelephonesOK

LEMMA AlwaysTelephones == Spec => [](Typed /\ Apart /\ TelephonesOK)
<1>1. Init => Apart  BY DEF Init, Apart
<1> QED  BY <1>1, InitTyped, TypedStep, ApartStep, InitTelephones, TelephonesStep, PTL DEF Spec

\* At all times and whatever the handlers are doing, two users with the same
\* telephone number do not both have an account, unless requests about that number
\* overlapped or failed: Register looks first and inserts later.
THEOREM TelephoneHasOneAccount == Spec => []OneAccountPerTelephone
<1>1. TelephonesOK => OneAccountPerTelephone
  <2> SUFFICES ASSUME TelephonesOK, NEW u \in Users, NEW v \in Users, u # v, TelOf[u] = TelOf[v],
                      Quiet(OfTel(TelOf[u]))
               PROVE  ~(users[u].live /\ users[v].live)
    BY DEF OneAccountPerTelephone
  <2>1. Single(OfTel(TelOf[u]))  BY DEF TelephonesOK, TelephoneOK, Quiet
  <2> QED  BY <2>1 DEF Single
<1> QED  BY <1>1, AlwaysTelephones, PTL

\* What a step may do to an account.
LEMMA AccountStep ==
  ASSUME Typed, Apart, TelephonesOK, NEW s \in Slots, Step(s), NEW u \in Users, OfTel(TelOf[u]) \notin disturbed
  PROVE  /\ users[u].live /\ users[u].status = "DISABLE" /\ users'[u].status = "NORMAL" => run[s].req.op = "AbleUsers"
         /\ ~users[u].live /\ users'[u].live => run[s].req.op = "Register"
<1> DEFINE x == OfTel(TelOf[u])
           r == run[s].req
           c == CallOf(s)
           p == run[s].people
<1>0. /\ run[s] # Idle /\ r \in Requests /\ BodyOK(run[s]) /\ StepTyped(s) /\ Fits(r, c)
      /\ run[s].pc \in 1..Len(CallsOf[r]) /\ c = CallsOf[r][run[s].pc]
  BY StepLeaves, Here, StepIsTyped
<1>1. CASE ~On(s, x)
  <2>1. users'[u] = users[u]  BY <1>0, <1>1 DEF StepTyped, UsersFrame, On
  <2> QED  BY <2>1
<1>2. CASE On(s, x)
  <2>0. Free(run[s]) /\ Fresh(run[s], x)  BY <1>2 DEF TelephonesOK, TelephoneOK
  <2>1. CASE c.do \notin {"InsertUser", "SaveUser"}
    <3>1. users' = users  BY <2>1, Leaves
    <3> QED  BY <3>1
  <2>2. CASE c.do = "InsertUser"
    <3>1. r.op = "Register" /\ c.who = r.owner  BY <1>0, <2>2 DEF Fits, UserCall
    <3>2. run[s].pc = 2
      <4>1. Len(CallsOf[r]) = 2 /\ CallsOf[r][1].do = "IfNoTelephone"  BY <1>0, <3>1, RegisterShape
      <4> QED  BY <1>0, <2>2, <4>1
    <3>3. users[u].live => u # r.owner  BY <2>0, <3>1, <3>2 DEF Free
    <3>4. users' = [users EXCEPT ![r.owner] = [live |-> TRUE, status |-> "NORMAL"]]
      BY <2>2, <3>1, ActionOf DEF InsertUserRow
    <3>5. u # r.owner => users'[u] = users[u]  BY <3>4 DEF Typed
    <3> QED  BY <3>1, <3>3, <3>5
  <2>3. CASE c.do = "SaveUser"
    <3>1. /\ r.op \in UserOps /\ c.who \in Users
          /\ c.how = CASE r.op = "AbleUsers" -> "able" [] r.op = "DisableUsers" -> "disable"
                    [] r.op = "DeleteUsers" -> "delete" [] r.op \in {"UpdateUserInfo", "SetAdmin"} -> "same"
      BY <1>0, <2>3 DEF Fits, UserCall
    <3>2. /\ c.how \in {"able", "disable", "delete", "same"} /\ (c.how = "delete" <=> r.op = "DeleteUsers")
          /\ (c.how = "able" <=> r.op = "AbleUsers")
          /\ c.how = "same" => r.op \in {"UpdateUserInfo", "SetAdmin"}
      BY <3>1 DEF UserOps
    <3>3. SaveUserRow(s)  BY <2>3, ActionOf
    <3>4. users'[u] = users[u] \/ (u \in DOMAIN p /\ users'[u] = ChangedUser(p[u], c.how))
      BY <3>1, <3>3 DEF SaveUserRow, Typed
    <3>5. CASE users'[u] = users[u]  BY <3>5
    <3>6. CASE u \in DOMAIN p /\ users'[u] = ChangedUser(p[u], c.how)
      <4> DEFINE new == ChangedUser(p[u], c.how)
      <4>1. p[u] \in UserRow  BY <1>0, <3>6 DEF BodyOK
      <4>2. /\ c.how = "same" => new = p[u]
            /\ c.how = "disable" => new.status = "DISABLE"
            /\ c.how = "delete" => ~new.live /\ new.status = p[u].status
        BY <3>2, <4>1, ChangedUserType
      <4>3. /\ r.op # "DeleteUsers" => p[u].live /\ users[u].live
            /\ r.op \in {"UpdateUserInfo", "SetAdmin", "DeleteUsers"} => p[u].status = users[u].status
        BY <2>0, <3>1, <3>6 DEF Fresh
      <4>4. users'[u] = new  BY <3>6
      <4> HIDE DEF new, c, p
      <4>5. CASE c.how = "able"  BY <3>2, <4>3, <4>5
      <4>6. CASE c.how = "disable"  BY <3>2, <4>2, <4>3, <4>4, <4>6
      <4>7. CASE c.how = "delete"  BY <3>2, <4>2, <4>3, <4>4, <4>7
      <4>8. CASE c.how = "same"  BY <3>2, <4>2, <4>3, <4>4, <4>8
      <4> QED  BY <3>2, <4>5, <4>6, <4>7, <4>8
    <3> QED  BY <3>4, <3>5, <3>6
  <2> QED  BY <2>1, <2>2, <2>3
<1> QED  BY <1>1, <1>2

\* No step enables a disabled account but one of AbleUsers, and none brings a
\* deleted one back but one of Register, unless requests about its telephone number
\* overlapped or failed: the handlers that write the whole row back write what is
\* in the table.
THEOREM AccountsStay == Spec => AccountStays
<1> DEFINE Step1 == \A u \in Users : OfTel(TelOf[u]) \notin disturbed =>
       /\ users[u].live /\ users[u].status = "DISABLE" /\ users'[u].status = "NORMAL" =>
            \E s \in Running : run[s].req.op = "AbleUsers"
       /\ ~users[u].live /\ users'[u].live => \E s \in Running : run[s].req.op = "Register"
<1>1. Typed /\ Apart /\ TelephonesOK /\ [Next]_vars => [Step1]_vars
  <2> SUFFICES ASSUME Typed, Apart, TelephonesOK, Next, NEW u \in Users, OfTel(TelOf[u]) \notin disturbed
               PROVE  /\ users[u].live /\ users[u].status = "DISABLE" /\ users'[u].status = "NORMAL" =>
                           \E s \in Running : run[s].req.op = "AbleUsers"
                      /\ ~users[u].live /\ users'[u].live => \E s \in Running : run[s].req.op = "Register"
    OBVIOUS
  <2>1. ASSUME NEW s \in Slots, Step(s)
        PROVE  /\ users[u].live /\ users[u].status = "DISABLE" /\ users'[u].status = "NORMAL" =>
                    \E q \in Running : run[q].req.op = "AbleUsers"
               /\ ~users[u].live /\ users'[u].live => \E q \in Running : run[q].req.op = "Register"
    <3>1. s \in Running  BY <2>1, StepLeaves DEF Running
    <3> QED  BY <2>1, <3>1, AccountStep
  <2>2. ASSUME NEW s \in Slots, Submit(s) \/ Fault(s)  PROVE users' = users  BY <2>2 DEF Submit, Fault, tables
  <2>3. ASSUME NEW e \in cache, Expire(e)  PROVE users' = users  BY <2>3 DEF Expire, tables
  <2> QED  BY <2>1, <2>2, <2>3 DEF Next
<1>2. [][Step1]_vars <=> AccountStays  BY PTL DEF AccountStays
<1> QED  BY <1>1, <1>2, AlwaysTelephones, PTL DEF Spec
===============================================================================
