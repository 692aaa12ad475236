----------------------------- MODULE MCChatServer -----------------------------
\* Instances of ChatServer for TLC: two users, alice with one or two connections.
EXTENDS ChatServer

CONSTANTS alice, bob, a1, a2, b1, logoutA

OwnerOf    == [c \in Conns |-> IF c = b1 THEN bob ELSE alice]
\* alice writes to the group or to the AI, then to the AI; bob calls alice.
Talk   == [c \in Conns |-> CASE c = a1 -> <<{"group", "ai"}, {"ai"}>>
                             [] c = b1 -> <<{"call"}>>
                             [] c = a2 -> <<>>]
Three  == [Talk EXCEPT ![a1] = <<{"user"}, {"user"}, {"user"}>>]
OnlyAI == [Talk EXCEPT ![a1] = <<{"ai"}, {"ai"}, {"ai"}>>, ![b1] = <<{"user"}>>]
MemberList == <<alice, bob>>
LogoutUser == [l \in Logouts |-> alice]

ASSUME ListedOnce == DistinctMembers
=============================================================================
