------------------------------- MODULE Accounts -------------------------------
(***************************************************************************)
(* User accounts: user_info_service.go, each handler as its list of calls  *)
(* (ServiceCalls).  Login, GetUserInfo and GetUserInfoList only read.      *)
(* Names, passwords and the flag isAdmin decide nothing in the services    *)
(* and are left out; the whole row is written back all the same.           *)
(***************************************************************************)
EXTENDS ServiceCalls

\* Mutant: the telephone is not looked up.
RegisterUnchecked(u) == << InsertUser(u) >>

\* The column telephone has an index that is not unique: the look-up of
\* checkTelephoneExist is all there is.
Register(u) == << IfNoTelephone(TelOf[u]), InsertUser(u) >>

\* Mutant: the row is made from the request instead of the row in the table.
UpdateUserInfoAfresh(u) == << FirstUser(u, UserSts), SaveUser(u, "able", 0) >>

UpdateUserInfo(u) == << FirstUser(u, UserSts), SaveUser(u, "same", 0) >>

\* What a handler does to each row that it has found.
ForEachUser(us, how, then) ==
  << FindUsers(us) >> \o
  FlattenSeq([i \in DOMAIN us |-> << SaveUser(us[i], how, Len(then[us[i]])) >> \o then[us[i]]])

AbleUsers(us) == ForEachUser(us, "able", [u \in Users |-> <<>>])

\* Mutant: only the sessions that the user opened himself.
HideSessionsSent(u) ==
  FlattenSeq([i \in DOMAIN SetToSeq(Ids \ {u}) |->
    << Find("session", {u}, SetToSeq(Ids \ {u})[i]), EachFound("session", "hide") >>])

HideSessions(u) == << FindEither("session", u), EachFound("session", "hide") >>

DisableUsers(us) == ForEachUser(us, "disable", [u \in Users |-> HideSessions(u)])

\* Mutant: the contacts are forgotten.
HideAllButContacts(u) ==
  HideSessions(u) \o << FindEither("apply", u), EachFound("apply", "hide") >>

HideAll(u) ==
  HideSessions(u) \o
  << FindEither("contact", u), EachFound("contact", "hide"),
     FindEither("apply", u), EachFound("apply", "hide") >>

\* No list in Redis is forgotten, and the member lists of groups are left alone.
DeleteUsers(us) == ForEachUser(us, "delete", [u \in Users |-> HideAll(u)])

\* The condition "uuid = (?)" is an error of MySQL unless there is one id.
SetAdmin(us) ==
  IF Len(us) = 1 THEN ForEachUser(us, "same", [u \in Users |-> <<>>]) ELSE << FindUsers(<<>>) >>
=============================================================================
