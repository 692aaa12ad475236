---------------------------- MODULE MCMembership ----------------------------
\* Instances of Membership for TLC: ann and bob have accounts and ann owns the one
\* group; cat and dan may register, with one telephone between them.
EXTENDS Membership

CONSTANTS ann, bob, cat, dan, group, s1, s2

Symmetry == Permutations(Slots)
Owner     == [g \in Groups |-> ann]
Telephone == [u \in Users |-> IF u = dan THEN cat ELSE u]

Req(op, o, c)  == [op |-> op, owner |-> o, contact |-> c, uuids |-> <<>>, status |-> "NORMAL"]
Removal(us)    == [Req("RemoveGroupMembers", ann, group) EXCEPT !.uuids = us]
Switch(st)     == [Req("SetGroupsStatus", ann, ann) EXCEPT !.uuids = <<group>>, !.status = st]
Purge          == [Req("DeleteGroups", ann, ann) EXCEPT !.uuids = <<group>>]
List(l, u)     == Req(l, u, u)

Create  == {Req("CreateGroup", ann, group)}
Enter   == {Req("EnterGroupDirectly", group, bob)}
Apply   == {Req("ApplyContact", bob, group)}
Pass    == {Req("PassContactApply", group, bob)}
Deny    == {Req("RefuseContactApply", group, bob), Req("BlackApply", group, bob)}
Part    == {Req("LeaveGroup", bob, group), Removal(<<bob>>), Removal(<<bob, ann>>)}
End     == {Req("DismissGroup", ann, group), Purge}
Rename  == {Req("UpdateGroupInfo", ann, group)}
Switches == {Switch("DISABLE"), Switch("NORMAL")}
MyGroups == {List("contact_mygroup_list_", ann)}
Joined   == {List("my_joined_group_list_", bob)}
Visit    == {Req("OpenSession", bob, group), Req("DeleteSession", bob, group)}

Befriend == {Req("ApplyContact", ann, bob)}
Accept   == {Req("PassContactApply", bob, ann)}
Decline  == {Req("RefuseContactApply", bob, ann), Req("BlackApply", bob, ann)}
Quarrel  == {Req("BlackContact", ann, bob), Req("BlackContact", bob, ann),
             Req("CancelBlackContact", ann, bob), Req("DeleteContact", ann, bob)}
Chat     == {Req("OpenSession", ann, bob), Req("DeleteSession", ann, bob)}
Friends  == {List("contact_user_list_", ann), List("session_list_", ann)}

Users1(op, u) == {[Req(op, u, u) EXCEPT !.uuids = <<u>>]}
SignUp   == {Req("Register", cat, cat)}
SignUp2  == {Req("Register", dan, dan)}
Ban      == Users1("DisableUsers", bob)
Unban    == Users1("AbleUsers", bob)
Erase    == Users1("DeleteUsers", bob)
Edit     == {Req("UpdateUserInfo", bob, bob)}
Call     == {Req("OpenSession", ann, bob), Req("OpenSession", bob, ann)}

AllScripts ==
  << << Create, Enter \cup Apply, Enter \cup Pass \cup Deny, Part \cup Pass \cup Apply \cup Rename >>,
     << Create, Enter \cup Apply, End \cup Switches \cup Visit \cup Joined, Pass \cup Part \cup End >>,
     << Create, MyGroups, End \cup Enter, MyGroups \cup End >>,
     << Befriend, Accept \cup Decline \cup Befriend, Accept \cup Quarrel \cup Chat,
        Quarrel \cup Befriend \cup Friends >>,
     << Create, Enter, Enter \cup Joined, Part, Enter >>,
     << Befriend, Accept, Quarrel \cup Chat, Quarrel \cup Chat \cup Accept >>,
     << SignUp, SignUp2 \cup Users1("SetAdmin", cat), Users1("DeleteUsers", cat), SignUp2 >>,
     << Call, Ban \cup Erase, Unban \cup Edit \cup Call, Call \cup Ban >>,
     << Create, Enter \cup Befriend, Accept \cup Erase, Erase \cup Friends \cup Accept >>,
     << Befriend, Accept, Erase, Friends \cup {Req("ApplyContact", bob, ann)} >> >>
=============================================================================
