---------------------------- MODULE MCKafkaServer ----------------------------
\* Instances of KafkaServer for TLC: alice, who may come back on a second
\* connection, and bob.
EXTENDS KafkaServer

CONSTANTS alice, bob, a1, a2, b1

OwnerOf    == [c \in Conns |-> IF c = b1 THEN bob ELSE alice]
\* alice writes to bob or calls the group, then sends a file to the group.
Frame1     == {<<"text", bob>>, <<"call", Group>>}
TalkOf     == [c \in Conns |-> IF c = a1 THEN <<Frame1, {<<"file", Group>>}>> ELSE <<>>]
MemberList == <<alice, bob>>

ASSUME DistinctTargets
=============================================================================
