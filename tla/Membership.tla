------------------------------ MODULE Membership ------------------------------
(***************************************************************************)
(* Groups, friends, applications and sessions: the services group_info,    *)
(* user_contact and session under src/internal/service/gorm, together with *)
(* the accounts of the users they are about.                               *)
(*                                                                         *)
(* The first half of the module writes each handler as its list of calls   *)
(* (ServiceCalls); the second half says what a call does to the tables, to *)
(* the lists kept in Redis and to the variables of the handler.            *)
(***************************************************************************)
EXTENDS Accounts

CONSTANTS
  Slots,          \* handlers that can run at the same time
  Scripts,        \* bound: a script is a sequence of sets, the n-th request is from the n-th set
  MaxFaults       \* bound: calls to MySQL or Redis that return an error

\* The requests the routes let through.  One that is not about its own caller names
\* users and groups by the ids of their rows; the pages of the front end offer to
\* dismiss a group to its owner only.  Nothing is said about who the callers are.
WellFormed(r) ==
  /\ r \in Request
  /\ \/ /\ r.op \in {"Register", "UpdateUserInfo"} \cup (Lists \ {"my_joined_group_list_ "})
        /\ r.owner \in Users
     \/ /\ r.op \in {"AbleUsers", "DisableUsers", "DeleteUsers", "SetAdmin"}
        /\ r.uuids \in Seq(Users)
     \/ r.op = "DeleteGroups" /\ r.uuids \in Seq(Groups)
     \/ r.op = "SetGroupsStatus" /\ r.uuids \in Seq(Groups) \ {<<>>}
     \/ /\ r.op \in {"CreateGroup", "DismissGroup"}
        /\ r.contact \in Groups /\ r.owner = OwnerOf[r.contact]
     \/ /\ r.op \in {"LeaveGroup", "UpdateGroupInfo", "RemoveGroupMembers"}
        /\ r.owner \in Users /\ r.contact \in Groups /\ r.uuids \in Seq(Users)
     \/ r.op = "EnterGroupDirectly" /\ r.owner \in Groups /\ r.contact \in Users
     \/ r.op \in {"ApplyContact", "OpenSession", "DeleteSession"} /\ r.owner \in Users
     \/ r.op \in {"PassContactApply", "RefuseContactApply", "BlackApply"} /\ r.contact \in Users
     \/ /\ r.op \in {"BlackContact", "CancelBlackContact", "DeleteContact"}
        /\ r.owner \in Users /\ r.contact \in Users

\* The uuid of a group is made when it is created: it is created once.
ASSUME ScriptAssumption ==
  /\ MaxFaults \in Nat
  /\ Scripts \in Seq(Seq(SUBSET Request))
  /\ \A i \in DOMAIN Scripts : \A p, q \in DOMAIN Scripts[i] :
       \A r \in Scripts[i][p] : \A x \in Scripts[i][q] :
         /\ WellFormed(r)
         /\ r.op = "CreateGroup" /\ x.op = "CreateGroup" /\ r.contact = x.contact => p = q

VARIABLES
  users,      \* the table user_info
  rows,       \* the tables user_contact, contact_apply and session, in order of id
  groups,     \* the table group_info
  cache,      \* the lists in Redis: entries [list, of, ids]
  run,        \* what each handler is doing
  script, sent, faults,
  disturbed,  \* history: what overlapping or failed requests were about
  miscounted, \* history: groups that someone left who was not on the list exactly once
  ghosts      \* history: users who made a request while they had no account

vars == <<users, rows, groups, cache, run, script, sent, faults, disturbed, miscounted, ghosts>>
tables == <<users, rows, groups>>
bounds == <<script, sent, faults>>
history == <<disturbed, miscounted, ghosts>>
-----------------------------------------------------------------------------
(* group_info_service.go *)

CreateGroup(o, g) ==
  << InsertGroup(g), Insert("contact", o, g, "NORMAL"), Forget("contact_mygroup_list_", o) >>

\* Mutant: the row in user_contact is forgotten.
LeaveGroupKeepsContact(u, g) ==
  << FirstGroup(g, GroupSts), SaveGroup("leave", u),
     Hide("session", u, g), Hide("apply", u, g),
     Forget("group_session_list_", u), Forget("my_joined_group_list_ ", u) >>

\* The key of the last call has a blank no list is stored under.
LeaveGroup(u, g) ==
  << FirstGroup(g, GroupSts), SaveGroup("leave", u),
     Hide("session", u, g),
     Delete("contact", u, g, {"QUIT_GROUP"}),
     Hide("apply", u, g),
     Forget("group_session_list_", u), Forget("my_joined_group_list_ ", u) >>

\* Mutant: applications outlive the group.
HideGroupKeepsApplies(g) ==
  << UpdateGroup(g, "deleted_at"),
     Find("session", Users, g), EachFound("session", "hide"),
     Find("contact", Users, g), EachFound("contact", "hide") >>

\* What DismissGroup and DeleteGroups do to one group.
HideGroup(g) ==
  << UpdateGroup(g, "deleted_at"),
     Find("session", Users, g), EachFound("session", "hide"),
     Find("contact", Users, g), EachFound("contact", "hide"),
     Find("apply", Users, g), EachFound("apply", "hide") >>

\* Mutant: the owner's list of groups is not forgotten.
DismissGroupKeepsList(o, g) ==
  HideGroup(g) \o << Forget("group_session_list_", o), ForgetAll("my_joined_group_list_") >>

DismissGroup(o, g) ==
  HideGroup(g) \o
  << Forget("contact_mygroup_list_", o), Forget("group_session_list_", o),
     ForgetAll("my_joined_group_list_") >>

\* The lists of joined groups are left as they are.
DeleteGroups(gs) ==
  FlattenSeq([i \in DOMAIN gs |-> HideGroup(gs[i])]) \o
  << ForgetAll("contact_mygroup_list_"), ForgetAll("group_session_list_") >>

\* ownerId is the id of the group, so no list of the user is forgotten.
EnterGroupDirectly(g, u) ==
  << FirstGroup(g, GroupSts), SaveGroup("enter", u), Insert("contact", u, g, "NORMAL"),
     Forget("group_session_list_", g), Forget("my_joined_group_list_", g) >>

SetGroupsStatus(gs, st) ==
  FlattenSeq([i \in DOMAIN gs |->
    <<UpdateGroup(gs[i], st)>> \o
    IF st = "DISABLE" THEN <<Find("session", Users, gs[i]), EachFound("session", "hide")>>
                      ELSE <<>>])

\* Name, notice and picture do not matter here; the whole row is written back.
UpdateGroupInfo(g) ==
  << FirstGroup(g, GroupSts), SaveGroup("same", OwnerOf[g]),
     Find("session", Users, g), EachFound("session", "save") >>

\* The owner among the ids ends the handler there: the rows of those before him
\* are gone, the member list is not written.
RemoveGroupMembers(o, g, us) ==
  LET upTo == SelectInSeq(us, LAMBDA u : u = o)
      gone == IF upTo = 0 THEN us ELSE SubSeq(us, 1, upTo - 1)
  IN  << FirstGroup(g, GroupSts) >> \o
      FlattenSeq([i \in DOMAIN gone |->
        << Strike(gone[i]), Hide("session", gone[i], g), Hide("contact", gone[i], g),
           Hide("apply", gone[i], g) >>]) \o
      IF upTo # 0 THEN <<>>
      ELSE << SaveGroup("same", o), ForgetAll("group_session_list_"),
              ForgetAll("my_joined_group_list_") >>
-----------------------------------------------------------------------------
(* user_contact_service.go *)

\* Mutant: a blacklisted applicant is not turned away.
ApplyContactAnyStatus(u, c) ==
  << IF c \in Users THEN FirstUser(c, {"NORMAL"}) ELSE FirstGroup(c, {"NORMAL"}),
     FirstOr("apply", u, c, ApplySts), Insert("apply", u, c, "PENDING"), Save("apply", {"PENDING"}) >>

\* A new application to a group does not turn an answered one into a pending one.
ApplyContact(u, c) ==
  IF c \in Users
    THEN << FirstUser(c, {"NORMAL"}), FirstOr("apply", u, c, ApplySts \ {"BLACK"}),
            Insert("apply", u, c, "PENDING"), Save("apply", {"PENDING"}) >>
    ELSE << FirstGroup(c, {"NORMAL"}), FirstOr("apply", u, c, ApplySts),
            Insert("apply", u, c, "PENDING"), Save("apply", {}) >>

\* owner is the user or the group applied to, contact the applicant.
PassContactApply(o, c) ==
  << First("apply", c, o, ApplySts) >> \o
  IF o \in Users
    THEN << FindUser(c, {"NORMAL"}), Save("apply", {"AGREE"}),
            Insert("contact", o, c, "NORMAL"), Insert("contact", c, o, "NORMAL"),
            Forget("contact_user_list_", o) >>
    ELSE << FindGroup(o, {"NORMAL"}), Save("apply", {"AGREE"}),
            Insert("contact", c, o, "NORMAL"), SaveGroup("pass", c),
            Forget("my_joined_group_list_", o) >>

RefuseContactApply(o, c) == << First("apply", c, o, ApplySts), Save("apply", {"REFUSE"}) >>

BlackApply(o, c) == << First("apply", c, o, ApplySts), Save("apply", {"BLACK"}) >>

BlackContact(o, c) ==
  << Update("contact", o, c, "BLACK"), Update("contact", c, o, "BE_BLACK"), Hide("session", o, c) >>

\* Mutant: only one's own side is taken back.
CancelBlackContactOneSide(o, c) ==
  << First("contact", o, c, {"BLACK"}), First("contact", c, o, {"BE_BLACK"}),
     Save("contact", {"NORMAL"}) >>

CancelBlackContact(o, c) ==
  << First("contact", o, c, {"BLACK"}), First("contact", c, o, {"BE_BLACK"}),
     Save("contact", {"NORMAL"}), Save("contact", {"NORMAL"}) >>

DeleteContact(o, c) ==
  << Delete("contact", o, c, {"DELETE"}), Delete("contact", c, o, {"BE_DELETE"}),
     Hide("session", o, c), Hide("session", c, o),
     Hide("apply", c, o), Hide("apply", o, c),
     Forget("contact_user_list_", o) >>
-----------------------------------------------------------------------------
(* session_service.go *)

CreateSession(u, c) ==
  << FirstUser(u, UserSts),
     IF c \in Users THEN FirstUser(c, {"NORMAL"}) ELSE FirstGroup(c, {"NORMAL"}),
     Insert("session", u, c, "OPEN"),
     Forget("group_session_list_", u), Forget("session_list_", u) >>

\* Mutant: nobody looks for the session that is there.
OpenSessionBlind(u, c) == CreateSession(u, c)

OpenSession(u, c) == <<IfNone("session", u, c)>> \o CreateSession(u, c)

\* The client names the session it shows for this contact.
DeleteSession(u, c) ==
  << Find("session", {u}, c), EachFound("session", "hide"),
     Forget("group_session_list_", u), Forget("session_list_", u) >>
-----------------------------------------------------------------------------
(* The read-through lists: what a miss reads from the tables. *)
LiveRows(t)    == {i \in DOMAIN rows[t] : rows[t][i].live}
RowsOf(t, u)   == {rows[t][i] : i \in {i \in LiveRows(t) : rows[t][i].user = u}}
GroupsOf(set)  == {r.to : r \in set} \cap Groups
UsersOf(set)   == {r.to : r \in set} \cap Users

LoadMyGroup(o)         == {g \in Groups : groups[g].live /\ OwnerOf[g] = o}
LoadMyJoinedGroup(u)   == GroupsOf({r \in RowsOf("contact", u) : r.status # "QUIT_GROUP"})
GetUserList(u)         == UsersOf({r \in RowsOf("contact", u) : r.status # "DELETE"})
GetUserSessionList(u)  == UsersOf(RowsOf("session", u))
GetGroupSessionList(u) == GroupsOf(RowsOf("session", u))

ListQuery(list, u) ==
  CASE list = "contact_mygroup_list_"  -> LoadMyGroup(u)
    [] list = "my_joined_group_list_"  -> LoadMyJoinedGroup(u)
    [] list = "contact_user_list_"     -> GetUserList(u)
    [] list = "session_list_"          -> GetUserSessionList(u)
    [] list = "group_session_list_"    -> GetGroupSessionList(u)

\* LoadMyJoinedGroup also reads the row of each group, to leave out the user's
\* own, and GetUserList the row of each friend.
LoadList(list, u) ==
  <<Get(list, u), Query(list, u)>> \o
  (CASE list = "my_joined_group_list_" -> <<EachGroup>>
     [] list = "contact_user_list_"    -> <<EachUser>>
     [] OTHER                          -> <<>>) \o
  <<SetEx(list, u)>>
-----------------------------------------------------------------------------
Calls(r) ==
  CASE r.op = "Register"           -> Register(r.owner)
    [] r.op = "UpdateUserInfo"     -> UpdateUserInfo(r.owner)
    [] r.op = "AbleUsers"          -> AbleUsers(r.uuids)
    [] r.op = "DisableUsers"       -> DisableUsers(r.uuids)
    [] r.op = "DeleteUsers"        -> DeleteUsers(r.uuids)
    [] r.op = "SetAdmin"           -> SetAdmin(r.uuids)
    [] r.op = "CreateGroup"        -> CreateGroup(r.owner, r.contact)
    [] r.op = "LeaveGroup"         -> LeaveGroup(r.owner, r.contact)
    [] r.op = "DismissGroup"       -> DismissGroup(r.owner, r.contact)
    [] r.op = "DeleteGroups"       -> DeleteGroups(r.uuids)
    [] r.op = "EnterGroupDirectly" -> EnterGroupDirectly(r.owner, r.contact)
    [] r.op = "SetGroupsStatus"    -> SetGroupsStatus(r.uuids, r.status)
    [] r.op = "UpdateGroupInfo"    -> UpdateGroupInfo(r.contact)
    [] r.op = "RemoveGroupMembers" -> RemoveGroupMembers(r.owner, r.contact, r.uuids)
    [] r.op = "ApplyContact"       -> ApplyContact(r.owner, r.contact)
    [] r.op = "PassContactApply"   -> PassContactApply(r.owner, r.contact)
    [] r.op = "RefuseContactApply" -> RefuseContactApply(r.owner, r.contact)
    [] r.op = "BlackApply"         -> BlackApply(r.owner, r.contact)
    [] r.op = "BlackContact"       -> BlackContact(r.owner, r.contact)
    [] r.op = "CancelBlackContact" -> CancelBlackContact(r.owner, r.contact)
    [] r.op = "DeleteContact"      -> DeleteContact(r.owner, r.contact)
    [] r.op = "OpenSession"        -> OpenSession(r.owner, r.contact)
    [] r.op = "DeleteSession"      -> DeleteSession(r.owner, r.contact)
    [] r.op \in Lists              -> LoadList(r.op, r.owner)

Requests == UNION {UNION ToSet(Scripts[i]) : i \in DOMAIN Scripts}
\* Constant functions, so that TLC works out the calls of a request once.
CallsOf == [r \in Requests |-> Calls(r)]
-----------------------------------------------------------------------------
(* What a request is about.  Two handlers overlap when they run at the same *)
(* time and are about the same thing: a group, a pair of users, the sessions *)
(* of one user with one contact, the list of groups of an owner, the account *)
(* (or accounts) with a telephone number.                                    *)
GroupsIn(r)   == ({r.owner, r.contact} \cup ToSet(r.uuids)) \cap Groups
OfGroup(g)    == <<"group", g>>
OfPair(u, v)  == <<"pair", {u, v}>>
OfTalk(u, x)  == <<"talk", u, x>>
OfList(u)     == <<"list", u>>
OfTel(tel)    == <<"telephone", tel>>
UserOps       == {"UpdateUserInfo", "AbleUsers", "DisableUsers", "DeleteUsers", "SetAdmin"}
Subjects(r)   == IF r.op = "UpdateUserInfo" THEN {r.owner} ELSE ToSet(r.uuids)

Pair(r) ==
  IF {r.owner, r.contact} \subseteq Users
    THEN {OfPair(r.owner, r.contact), OfTalk(r.owner, r.contact), OfTalk(r.contact, r.owner)}
    ELSE {}
Roster(r)     == {OfGroup(g) : g \in GroupsIn(r)} \cup {OfTalk(u, g) : u \in Users, g \in GroupsIn(r)}
OwnersList(r) == {OfList(OwnerOf[g]) : g \in GroupsIn(r)}
Account(r)    == {OfTel(TelOf[u]) : u \in Subjects(r)}
Talks(r)      == UNION {{OfTalk(u, x), OfTalk(x, u)} : u \in Subjects(r), x \in Ids}
Ties(r)       == {OfPair(u, v) : u \in Subjects(r), v \in Users} \cup {OfGroup(g) : g \in Groups}

About(r) ==
  CASE r.op \in {"OpenSession", "DeleteSession"} -> {OfTalk(r.owner, r.contact)}
    [] r.op = "Register"                         -> {OfTel(TelOf[r.owner])}
    [] r.op = "DeleteUsers"                      -> Account(r) \cup Talks(r) \cup Ties(r)
    [] r.op \in UserOps \ {"DeleteUsers"}        -> Account(r) \cup Talks(r)
    [] r.op = "contact_mygroup_list_"            -> {OfList(r.owner)}
    [] r.op \in Lists \ {"contact_mygroup_list_"} -> {}
    [] r.op \in {"CreateGroup", "DismissGroup", "DeleteGroups"} -> Roster(r) \cup OwnersList(r)
    [] OTHER -> Pair(r) \cup Roster(r)
AboutOf == [r \in Requests |-> About(r)]

\* No handler: one that runs is at its first call or further.
Idle     == [pc |-> 0]
Running  == {s \in Slots : run[s] # Idle}
Busy     == UNION {AboutOf[run[s].req] : s \in Running}
Quiet(x) == x \notin disturbed \cup Busy

Init ==
  /\ users = [u \in Users |-> [live |-> u \notin Newcomers, status |-> "NORMAL"]]
  /\ rows = [t \in Tables |-> <<>>]
  /\ groups = [g \in Groups |-> NoGroup]
  /\ cache = {}
  /\ run = [s \in Slots |-> Idle]
  /\ script \in DOMAIN Scripts
  /\ sent = 0
  /\ faults = 0
  /\ disturbed = {}
  /\ miscounted = {}
  /\ ghosts = {}

\* Who makes a request: a browser goes on after the account is deleted, and no
\* handler asks who is calling.
Actor(r) == IF r.op = "EnterGroupDirectly" THEN r.contact ELSE r.owner

Submit(s) ==
  /\ run[s] = Idle
  /\ sent < Len(Scripts[script])
  /\ \E r \in Scripts[script][sent + 1] :
       /\ run' = [run EXCEPT ![s] = [req |-> r, pc |-> 1, held |-> <<>>, found |-> <<>>,
                                     people |-> <<>>, uuid |-> Idle, group |-> NoGroup, ids |-> {}]]
       /\ disturbed' = disturbed \cup (Busy \cap AboutOf[r])
       /\ ghosts' = ghosts \cup {u \in Users : u = Actor(r) /\ r.op # "Register" /\ ~users[u].live}
  /\ sent' = sent + 1
  /\ UNCHANGED <<tables, cache, script, faults, miscounted>>
-----------------------------------------------------------------------------
CallOf(s)  == CallsOf[run[s].req][run[s].pc]
At(s, do)  == run[s] # Idle /\ CallOf(s).do = do

\* The handler returns.
Return(s) == run' = [run EXCEPT ![s] = Idle]
\* The handler goes on with variables h, n calls further.
Skip(s, h, n) ==
  IF h.pc + n > Len(CallsOf[h.req]) THEN Return(s)
                                  ELSE run' = [run EXCEPT ![s] = [h EXCEPT !.pc = @ + n]]
GoOn(s, h) == Skip(s, h, 1)
Stay(s, h) == run' = [run EXCEPT ![s] = h]
Matching(c) == {i \in LiveRows(c.table) : rows[c.table][i].user = c.user /\ rows[c.table][i].to = c.to}
FirstId(c)  == CHOOSE i \in Matching(c) : \A j \in Matching(c) : i <= j
Held(t, i)  == [table |-> t, id |-> i, row |-> rows[t][i]]
\* The row with status st, unless st is empty; dead rows are brought back.
Put(row, st, alive) ==
  [row EXCEPT !.status = IF st = {} THEN @ ELSE CHOOSE x \in st : TRUE, !.live = alive]

ReadRow(s) ==
  LET c == CallOf(s)
      h == run[s]
  IN  /\ At(s, "First") \/ At(s, "FirstOr")
      /\ \/ /\ Matching(c) = {}
            /\ IF c.do = "First" THEN Return(s) ELSE GoOn(s, h)
         \/ /\ Matching(c) # {}
            /\ IF rows[c.table][FirstId(c)].status \notin c.among THEN Return(s)
               ELSE Skip(s, [h EXCEPT !.held = Append(@, Held(c.table, FirstId(c)))],
                         IF c.do = "First" THEN 1 ELSE 2)
      /\ UNCHANGED <<tables, cache, bounds, history>>

FindSession(s) ==
  /\ At(s, "IfNone")
  /\ IF Matching(CallOf(s)) = {} THEN GoOn(s, run[s]) ELSE Return(s)
  /\ UNCHANGED <<tables, cache, bounds, history>>

InsertRow(s) ==
  LET c   == CallOf(s)
      row == [user |-> c.user, to |-> c.to, status |-> c.status, live |-> TRUE]
  IN  /\ At(s, "Insert")
      /\ rows' = [rows EXCEPT ![c.table] = Append(@, row)]
      /\ GoOn(s, [run[s] EXCEPT !.held =
                    Append(@, [table |-> c.table, id |-> Len(rows[c.table]) + 1, row |-> row])])
      /\ UNCHANGED <<users, groups, cache, bounds, history>>

\* GORM's Save writes every column as it was read, deleted_at included: a row
\* deleted in the meantime is back.
SaveRow(s) ==
  LET c == CallOf(s)
      r == Head(run[s].held)
  IN  /\ At(s, "Save")
      /\ rows' = [rows EXCEPT ![c.table][r.id] = Put(r.row, c.status, TRUE)]
      /\ GoOn(s, [run[s] EXCEPT !.held = Tail(@)])
      /\ UNCHANGED <<users, groups, cache, bounds, history>>

UpdateRows(s) ==
  LET c == CallOf(s)
  IN  /\ At(s, "Update")
      /\ rows' = [rows EXCEPT ![c.table] =
                    [i \in DOMAIN @ |-> IF i \in Matching(c) THEN Put(@[i], c.status, c.live) ELSE @[i]]]
      /\ GoOn(s, run[s])
      /\ UNCHANGED <<users, groups, cache, bounds, history>>

FoundBy(c) ==
  LET asked(r) == IF c.do = "Find" THEN r.user \in c.from /\ r.to = c.to ELSE c.who \in {r.user, r.to}
  IN  {i \in LiveRows(c.table) : asked(rows[c.table][i])}
\* The n-th of a set of ids.
Nth(ids, n) == CHOOSE i \in ids : Cardinality({j \in ids : j < i}) = n - 1

FindRows(s) ==
  LET c == CallOf(s)
  IN  /\ At(s, "Find") \/ At(s, "FindEither")
      /\ GoOn(s, [run[s] EXCEPT !.held = [n \in 1..Cardinality(FoundBy(c)) |->
                                            Held(c.table, Nth(FoundBy(c), n))]])
      /\ UNCHANGED <<tables, cache, bounds, history>>

\* One row per step; "hide" sets deleted_at, "save" writes the row back as read.
EachRow(s) ==
  LET c == CallOf(s)
      h == run[s]
      r == Head(h.held)
  IN  /\ At(s, "EachFound")
      /\ IF h.held = <<>> THEN GoOn(s, h) /\ UNCHANGED rows
         ELSE /\ rows' = [rows EXCEPT ![c.table][r.id] =
                            IF c.how = "save" THEN r.row ELSE [@ EXCEPT !.live = FALSE]]
              /\ Stay(s, [h EXCEPT !.held = Tail(@)])
      /\ UNCHANGED <<users, groups, cache, bounds, history>>

-----------------------------------------------------------------------------
\* Find, unlike First, goes on without a row: status 0 is NORMAL.
ReadUser(s) ==
  LET c == CallOf(s)
      u == users[c.who]
  IN  /\ At(s, "FirstUser") \/ At(s, "FindUser")
      /\ IF (u.live /\ u.status \in c.among) \/ (~u.live /\ c.do = "FindUser")
           THEN GoOn(s, [run[s] EXCEPT !.people = [v \in {c.who} |-> u]])
           ELSE Return(s)
      /\ UNCHANGED <<tables, cache, bounds, history>>

ReadUsers(s) ==
  LET found == {u \in ToSet(CallOf(s).uuids) : users[u].live}
  IN  /\ At(s, "FindUsers")
      /\ GoOn(s, [run[s] EXCEPT !.people = [u \in found |-> users[u]]])
      /\ UNCHANGED <<tables, cache, bounds, history>>

CheckTelephoneExist(s) ==
  /\ At(s, "IfNoTelephone")
  /\ IF \E u \in Users : users[u].live /\ TelOf[u] = CallOf(s).tel THEN Return(s) ELSE GoOn(s, run[s])
  /\ UNCHANGED <<tables, cache, bounds, history>>

InsertUserRow(s) ==
  /\ At(s, "InsertUser")
  /\ users' = [users EXCEPT ![CallOf(s).who] = [live |-> TRUE, status |-> "NORMAL"]]
  /\ GoOn(s, run[s])
  /\ UNCHANGED <<rows, groups, cache, bounds, history>>

ChangedUser(u, how) ==
  CASE how = "able"    -> [u EXCEPT !.status = "NORMAL"]
    [] how = "disable" -> [u EXCEPT !.status = "DISABLE"]
    [] how = "delete"  -> [u EXCEPT !.live = FALSE]
    [] how = "same"    -> u

\* As for the other tables, the whole row is written as it was read: an account
\* deleted or disabled in the meantime is back.
SaveUserRow(s) ==
  LET c == CallOf(s)
      p == run[s].people
  IN  /\ At(s, "SaveUser")
      /\ IF c.who \in DOMAIN p
           THEN GoOn(s, run[s]) /\ users' = [users EXCEPT ![c.who] = ChangedUser(p[c.who], c.how)]
           ELSE Skip(s, run[s], c.rest + 1) /\ UNCHANGED users
      /\ UNCHANGED <<rows, groups, cache, bounds, history>>
-----------------------------------------------------------------------------
InsertGroupRow(s) ==
  LET g == CallOf(s).group
  IN  /\ At(s, "InsertGroup")
      /\ groups' = [groups EXCEPT ![g] = [live |-> TRUE, members |-> <<OwnerOf[g]>>, cnt |-> 1,
                                          status |-> "NORMAL"]]
      /\ GoOn(s, run[s])
      /\ UNCHANGED <<users, rows, cache, bounds, history>>

\* Find, unlike First, goes on without a row.
ReadGroup(s) ==
  LET c == CallOf(s)
      g == IF groups[c.group].live THEN groups[c.group] ELSE NoGroup
  IN  /\ At(s, "FirstGroup") \/ At(s, "FindGroup")
      /\ IF g.status \in c.among /\ (g.live \/ c.do = "FindGroup")
           THEN GoOn(s, [run[s] EXCEPT !.group = g, !.uuid = c.group])
           ELSE Return(s)
      /\ UNCHANGED <<tables, cache, bounds, history>>

\* The loop of RemoveGroupMembers takes elements out of the slice it ranges
\* over: the range goes on over the old length, the tail of the array keeps old
\* elements, and cutting beyond the new length panics.
StrikeAt(acc, u, i) ==
  IF ~acc.ok \/ acc.array[i] # u THEN acc
  ELSE IF i > acc.len THEN [acc EXCEPT !.ok = FALSE]
  ELSE [acc EXCEPT !.len = @ - 1,
                   !.array = [k \in DOMAIN @ |-> IF k \in i..(acc.len - 1) THEN @[k + 1] ELSE @[k]]]

StrikeOut(members, u) ==
  LET after[i \in 0..Len(members)] ==
        IF i = 0 THEN [array |-> members, len |-> Len(members), ok |-> TRUE]
                 ELSE StrikeAt(after[i - 1], u, i)
      end == after[Len(members)]
  IN  [ok |-> end.ok, members |-> SubSeq(end.array, 1, end.len)]

StrikeMember(s) ==
  LET c   == CallOf(s)
      g   == run[s].group
      out == StrikeOut(g.members, c.who)
  IN  /\ At(s, "Strike")
      /\ IF out.ok THEN GoOn(s, [run[s] EXCEPT !.group = [g EXCEPT !.members = out.members, !.cnt = @ - 1]])
                   ELSE Return(s)
      /\ miscounted' = IF \E i \in DOMAIN g.members : out.members = RemoveAt(g.members, i)
                         THEN miscounted ELSE miscounted \cup {run[s].uuid}
      /\ UNCHANGED <<tables, cache, bounds, disturbed, ghosts>>

\* The row a handler writes back, from the row it has read.
Changed(g, how, u) ==
  CASE how = "enter" -> [g EXCEPT !.members = Append(@, u), !.cnt = @ + 1]
    [] how = "pass"  -> [g EXCEPT !.members = Append(@, u), !.cnt = Len(g.members) + 1]
    [] how = "leave" -> [g EXCEPT !.members = RemoveFirst(@, u), !.cnt = @ - 1]
    [] OTHER         -> g

\* Mutant: the count is added to in the database instead of written back.
SaveGroupRowCountsApart(s) ==
  LET c   == CallOf(s)
      g   == run[s].group
      new == Changed(g, c.how, c.who)
  IN  /\ At(s, "SaveGroup")
      /\ IF ~g.live THEN Return(s) /\ UNCHANGED <<groups, miscounted>>
         ELSE /\ groups' = [groups EXCEPT ![run[s].uuid] =
                              [new EXCEPT !.cnt = groups[run[s].uuid].cnt + new.cnt - g.cnt]]
              /\ miscounted' = IF c.how = "leave" /\ ~Contains(g.members, c.who)
                                 THEN miscounted \cup {run[s].uuid} ELSE miscounted
              /\ GoOn(s, run[s])
      /\ UNCHANGED <<users, rows, cache, bounds, disturbed, ghosts>>

\* A group that was not found has no member list to decode: the handler returns.
SaveGroupRow(s) ==
  LET c == CallOf(s)
      g == run[s].group
  IN  /\ At(s, "SaveGroup")
      /\ IF ~g.live THEN Return(s) /\ UNCHANGED <<groups, miscounted>>
         ELSE /\ groups' = [groups EXCEPT ![run[s].uuid] = Changed(g, c.how, c.who)]
              /\ miscounted' = IF c.how = "leave" /\ ~Contains(g.members, c.who)
                                 THEN miscounted \cup {run[s].uuid} ELSE miscounted
              /\ GoOn(s, run[s])
      /\ UNCHANGED <<users, rows, cache, bounds, disturbed, ghosts>>

UpdateGroupRow(s) ==
  LET c == CallOf(s)
  IN  /\ At(s, "UpdateGroup")
      /\ groups' = IF ~groups[c.group].live THEN groups
                   ELSE IF c.field = "deleted_at" THEN [groups EXCEPT ![c.group].live = FALSE]
                   ELSE [groups EXCEPT ![c.group].status = c.field]
      /\ GoOn(s, run[s])
      /\ UNCHANGED <<users, rows, cache, bounds, history>>
-----------------------------------------------------------------------------
Entries(c) == {e \in cache : e.list = c.list /\ e.of \in c.of}

GetKey(s) ==
  /\ At(s, "Get")
  /\ IF \E e \in cache : e.list = CallOf(s).list /\ e.of = CallOf(s).of
       THEN Return(s) ELSE GoOn(s, run[s])
  /\ UNCHANGED <<tables, cache, bounds, history>>

QueryList(s) ==
  LET c == CallOf(s)
  IN  /\ At(s, "Query")
      /\ GoOn(s, [run[s] EXCEPT !.ids = ListQuery(c.list, c.of), !.found = SetToSeq(ListQuery(c.list, c.of))])
      /\ UNCHANGED <<tables, cache, bounds, history>>

\* The handler gives up at a group that is gone.
ReadEachGroup(s) ==
  LET h == run[s]
      g == Head(h.found)
  IN  /\ At(s, "EachGroup")
      /\ IF h.found = <<>> THEN GoOn(s, h)
         ELSE IF ~groups[g].live THEN Return(s)
         ELSE Stay(s, [h EXCEPT !.found = Tail(@),
                                !.ids = IF OwnerOf[g] = h.req.owner THEN @ \ {g} ELSE @])
      /\ UNCHANGED <<tables, cache, bounds, history>>

\* And at a friend who is gone.
ReadEachUser(s) ==
  LET h == run[s]
  IN  /\ At(s, "EachUser")
      /\ IF h.found = <<>> THEN GoOn(s, h)
         ELSE IF ~users[Head(h.found)].live THEN Return(s)
         ELSE Stay(s, [h EXCEPT !.found = Tail(@)])
      /\ UNCHANGED <<tables, cache, bounds, history>>

\* Mutant: a list is stored beside the one that is there.
SetKeyExBeside(s) ==
  LET c == CallOf(s)
  IN  /\ At(s, "SetEx")
      /\ cache' = cache \cup {[list |-> c.list, of |-> c.of, ids |-> run[s].ids]}
      /\ GoOn(s, run[s])
      /\ UNCHANGED <<tables, bounds, history>>

SetKeyEx(s) ==
  LET c == CallOf(s)
  IN  /\ At(s, "SetEx")
      /\ cache' = {e \in cache : e.list # c.list \/ e.of # c.of}
                    \cup {[list |-> c.list, of |-> c.of, ids |-> run[s].ids]}
      /\ GoOn(s, run[s])
      /\ UNCHANGED <<tables, bounds, history>>

DelKeys(s) ==
  /\ At(s, "Forget")
  /\ cache' = cache \ Entries(CallOf(s))
  /\ GoOn(s, run[s])
  /\ UNCHANGED <<tables, bounds, history>>

\* An entry lives REDIS_TIMEOUT minutes.
Expire(e) ==
  /\ cache' = cache \ {e}
  /\ UNCHANGED <<tables, run, bounds, history>>

\* MySQL or Redis returns an error: a handler gives up, but goes on after a list
\* it could not delete or store, and, with an empty row, after PassContactApply's
\* Find.
Fault(s) ==
  /\ s \in Running
  /\ CallOf(s).do # "Strike"
  /\ faults < MaxFaults
  /\ faults' = faults + 1
  /\ IF CallOf(s).do \in {"Forget", "SetEx", "FindUser", "FindGroup"} THEN GoOn(s, run[s]) ELSE Return(s)
  /\ disturbed' = disturbed \cup AboutOf[run[s].req]
  /\ UNCHANGED <<tables, cache, script, sent, miscounted, ghosts>>
-----------------------------------------------------------------------------
Step(s) ==
  \/ ReadRow(s) \/ FindSession(s) \/ InsertRow(s) \/ SaveRow(s) \/ UpdateRows(s)
  \/ FindRows(s) \/ EachRow(s)
  \/ ReadUser(s) \/ ReadUsers(s) \/ CheckTelephoneExist(s) \/ InsertUserRow(s) \/ SaveUserRow(s)
  \/ InsertGroupRow(s) \/ ReadGroup(s) \/ StrikeMember(s) \/ SaveGroupRow(s) \/ UpdateGroupRow(s)
  \/ GetKey(s) \/ QueryList(s) \/ ReadEachGroup(s) \/ ReadEachUser(s) \/ SetKeyEx(s) \/ DelKeys(s)

Next ==
  \/ \E s \in Slots : Submit(s) \/ Step(s) \/ Fault(s)
  \/ \E e \in cache : Expire(e)

Spec == Init /\ [][Next]_vars
-----------------------------------------------------------------------------
TypeOK ==
  /\ users \in [Users -> UserRow]
  /\ \A t \in Tables : rows[t] \in Seq(Row)
  /\ groups \in [Groups -> GroupRow]
  /\ cache \subseteq [list : Lists, of : Users, ids : SUBSET Ids]
  /\ \A e, f \in cache : e.list = f.list /\ e.of = f.of => e = f
  /\ \A s \in Running : run[s].pc \in 1..Len(CallsOf[run[s].req])
  /\ sent \in 0..Len(Scripts[script])
  /\ faults \in 0..MaxFaults
  /\ miscounted \subseteq Groups
  /\ ghosts \subseteq Users

Between(u, x)     == IF x \in Users THEN OfPair(u, x) ELSE OfGroup(x)
LiveTo(t, x)      == {rows[t][i] : i \in {i \in LiveRows(t) : rows[t][i].to = x}}
LiveFrom(t, u, x) == {i \in LiveRows(t) : rows[t][i].user = u /\ rows[t][i].to = x}

\* Who has a group among his contacts is on the member list of that group, and
\* the group exists: entering, leaving, removal, passed applications, dismissal
\* keep user_contact and group_info together, unless requests about the group
\* overlapped or one failed half-way.
JoinedIsListed ==
  \A g \in Groups : Quiet(OfGroup(g)) =>
    \A r \in LiveTo("contact", g) : groups[g].live /\ Contains(groups[g].members, r.user)

\* What the row of one friend says when the other's says st.
Mirror(st) == CASE st = "BLACK" -> "BE_BLACK" [] st = "BE_BLACK" -> "BLACK" [] OTHER -> st

\* Friendship is mutual, row by row in the order of the table: both rows are
\* normal, or one has blacklisted the other and the other is blacklisted, so that
\* one of the two can take it back.
FriendshipMutual ==
  \A u, v \in Users : u # v /\ Quiet(OfPair(u, v)) =>
    LET mine   == LiveFrom("contact", u, v)
        theirs == LiveFrom("contact", v, u)
    IN  \E f \in [mine -> theirs] :
          /\ \A j \in theirs : \E i \in mine : f[i] = j
          /\ \A i, k \in mine : i < k => f[i] < f[k]
          /\ \A i \in mine : rows["contact"][f[i]].status = Mirror(rows["contact"][i].status)

\* A user has at most one session with a contact and at most one application to
\* it, though the handlers look first and insert later.
OneRow ==
  \A u \in Users : \A x \in Ids :
    /\ Quiet(OfTalk(u, x)) => \A i, j \in LiveFrom("session", u, x) : i = j
    /\ Quiet(Between(u, x)) => \A i, j \in LiveFrom("apply", u, x) : i = j

\* A dismissed group is gone for good, with its contacts, applications and
\* sessions.
DismissedLeavesNothing ==
  \A g \in Groups : ~groups[g].live =>
    /\ Quiet(OfGroup(g)) => LiveTo("contact", g) \cup LiveTo("apply", g) = {}
    /\ \A u \in Users : Quiet(OfTalk(u, g)) => LiveFrom("session", u, g) = {}

\* The list of his own groups an owner is shown is the list in the table, unless
\* the group was dismissed while somebody else's handler had its row in hand: that
\* handler writes it back, and nobody forgets the list once more.
MyGroupsFresh ==
  \A e \in cache :
    /\ e.list = "contact_mygroup_list_" /\ Quiet(OfList(e.of))
    /\ \A g \in Groups : OwnerOf[g] = e.of => OfGroup(g) \notin disturbed
    => e.ids = LoadMyGroup(e.of)

\* The count of a group agrees with its member list whatever overlaps and
\* whatever is lost: both are written back from the same reading.  Only somebody
\* leaving who is not on the list exactly once breaks it.
CountMatchesList ==
  \A g \in Groups : groups[g].live /\ g \notin miscounted => groups[g].cnt = Len(groups[g].members)

\* A blacklisted applicant cannot apply his way back: an application that was
\* blacklisted is never pending again.
BlackStaysBlack ==
  [][\A i \in DOMAIN rows["apply"] :
       LET r == rows["apply"][i]
       IN  r.status = "BLACK" /\ Between(r.user, r.to) \notin disturbed => rows'["apply"][i].status # "PENDING"]_vars

\* A telephone number has one account, though the table does not insist on it:
\* two rows need two registrations at the same time, or a deleted account that a
\* handler in flight writes back.
OneAccountPerTelephone ==
  \A u, v \in Users : u # v /\ TelOf[u] = TelOf[v] /\ Quiet(OfTel(TelOf[u])) =>
    ~(users[u].live /\ users[v].live)

\* A deleted account leaves no session in either direction, and no contact or
\* application of its own or of others to it, unless its owner's browser went on
\* making requests.
DeletedLeavesNothing ==
  \A u \in Users : ~users[u].live => \A x \in Ids :
    LET rowsOf(t) == {i \in LiveRows(t) : {rows[t][i].user, rows[t][i].to} = {u, x}}
    IN  /\ Quiet(OfTalk(u, x)) /\ Quiet(OfTalk(x, u)) => rowsOf("session") = {}
        /\ Quiet(Between(u, x)) /\ u \notin ghosts => rowsOf("contact") \cup rowsOf("apply") = {}

\* Nobody has a session open with a disabled user: those he had are hidden after
\* the status is written, and a new one is refused.
DisabledIsNotCalled ==
  \A u, x \in Users : users[u].live /\ users[u].status = "DISABLE" /\ Quiet(OfTalk(x, u)) =>
    LiveFrom("session", x, u) = {}

\* A disabled account is enabled by AbleUsers only, and a deleted one does not
\* come back: the rows that other handlers write back as they read them do not
\* undo either, unless the handlers overlapped.
AccountStays ==
  [][\A u \in Users : OfTel(TelOf[u]) \notin disturbed =>
       /\ users[u].live /\ users[u].status = "DISABLE" /\ users'[u].status = "NORMAL" =>
            \E s \in Running : run[s].req.op = "AbleUsers"
       /\ ~users[u].live /\ users'[u].live => \E s \in Running : run[s].req.op = "Register"]_vars
=============================================================================
