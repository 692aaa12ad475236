----------------------------- MODULE ServiceCalls -----------------------------
(***************************************************************************)
(* The services user_info, group_info, user_contact and session under      *)
(* src/internal/service/gorm work without transactions: a handler is a     *)
(* list of calls to MySQL and Redis, and handlers of different requests    *)
(* interleave between any two calls.  This module has the tables and the   *)
(* vocabulary of calls; Accounts and Membership write each handler as its  *)
(* list of calls, and Membership says what a call does.                    *)
(***************************************************************************)
EXTENDS Integers, SequencesExt

CONSTANTS
  Users, Groups,
  Newcomers,      \* the users who have no account yet
  TelOf,          \* the telephone a user registers with
  OwnerOf         \* the user who creates a group

Tables     == {"contact", "apply", "session"}
Lists      == {"contact_mygroup_list_", "my_joined_group_list_", "my_joined_group_list_ ",
               "contact_user_list_", "session_list_", "group_session_list_"}
Ids        == Users \cup Groups
ContactSts == {"NORMAL", "BE_BLACK", "BLACK", "BE_DELETE", "DELETE", "QUIT_GROUP"}
ApplySts   == {"PENDING", "AGREE", "REFUSE", "BLACK"}
GroupSts   == {"NORMAL", "DISABLE"}
UserSts    == {"NORMAL", "DISABLE"}
RowSts     == ContactSts \cup ApplySts \cup {"OPEN"}
Row        == [user : Users, to : Ids, status : RowSts, live : BOOLEAN]
GroupRow   == [live : BOOLEAN, members : Seq(Users), cnt : Int, status : GroupSts]
NoGroup    == [live |-> FALSE, members |-> <<>>, cnt |-> 0, status |-> "NORMAL"]
UserRow    == [live : BOOLEAN, status : UserSts]

\* owner and contact are the parameters ownerId and contactId (or userId and
\* groupId) of the handler; uuids is its list of ids, where it has one.
Request == [op : STRING, owner : Ids, contact : Ids, uuids : Seq(Ids), status : GroupSts]

ASSUME MembershipAssumption ==
  /\ OwnerOf \in [Groups -> Users]
  /\ Users \cap Groups = {}
  /\ Newcomers \subseteq Users
  /\ DOMAIN TelOf = Users
  /\ \A u, v \in Users \ Newcomers : TelOf[u] = TelOf[v] => u = v
-----------------------------------------------------------------------------
(* A soft-deleted row is invisible to all of these.  First ends the handler *)
(* when there is no such row, or when its status is not among those listed. *)
First(t, u, c, among)   == [do |-> "First", table |-> t, user |-> u, to |-> c, among |-> among]
\* Skips the next call when there is such a row.
FirstOr(t, u, c, among) == [do |-> "FirstOr", table |-> t, user |-> u, to |-> c, among |-> among]
IfNone(t, u, c)         == [do |-> "IfNone", table |-> t, user |-> u, to |-> c]
Insert(t, u, c, st)     == [do |-> "Insert", table |-> t, user |-> u, to |-> c, status |-> st]
Save(t, st)             == [do |-> "Save", table |-> t, status |-> st]
Update(t, u, c, st)     == [do |-> "Update", table |-> t, user |-> u, to |-> c, status |-> {st},
                            live |-> TRUE]
Delete(t, u, c, st)     == [do |-> "Update", table |-> t, user |-> u, to |-> c, status |-> st,
                            live |-> FALSE]
Hide(t, u, c)           == Delete(t, u, c, {})
\* The rows that lead from one of a set of users to c, in order of id.
Find(t, from, c)        == [do |-> "Find", table |-> t, from |-> from, to |-> c]
\* The rows with u on one side.
FindEither(t, u)        == [do |-> "FindEither", table |-> t, who |-> u]
EachFound(t, how)       == [do |-> "EachFound", table |-> t, how |-> how]

\* First and Find on user_info; among is as for First.
FirstUser(u, among)   == [do |-> "FirstUser", who |-> u, among |-> among]
FindUser(u, among)    == [do |-> "FindUser", who |-> u, among |-> among]
FindUsers(us)         == [do |-> "FindUsers", uuids |-> us]
IfNoTelephone(tel)    == [do |-> "IfNoTelephone", tel |-> tel]
InsertUser(u)         == [do |-> "InsertUser", who |-> u]
\* Writes the row of u back, changed; skips the n calls that follow it when u
\* was not found.
SaveUser(u, how, n)   == [do |-> "SaveUser", who |-> u, how |-> how, rest |-> n]

InsertGroup(g)        == [do |-> "InsertGroup", group |-> g]
FirstGroup(g, among)  == [do |-> "FirstGroup", group |-> g, among |-> among]
FindGroup(g, among)   == [do |-> "FindGroup", group |-> g, among |-> among]
Strike(u)             == [do |-> "Strike", who |-> u]
SaveGroup(how, u)     == [do |-> "SaveGroup", how |-> how, who |-> u]
UpdateGroup(g, field) == [do |-> "UpdateGroup", group |-> g, field |-> field]

Get(list, u)       == [do |-> "Get", list |-> list, of |-> u]
Query(list, u)     == [do |-> "Query", list |-> list, of |-> u]
EachGroup          == [do |-> "EachGroup"]
EachUser           == [do |-> "EachUser"]
SetEx(list, u)     == [do |-> "SetEx", list |-> list, of |-> u]
Forget(list, id)   == [do |-> "Forget", list |-> list, of |-> {id}]
ForgetAll(list)    == [do |-> "Forget", list |-> list, of |-> Ids]
=============================================================================
