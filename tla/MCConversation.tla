---------------------------- MODULE MCConversation ----------------------------
\* Instances of Conversation for TLC: four questions of two users.
EXTENDS Conversation

CONSTANTS ann, bob, s1, s2, q1, q2, q3

\* q1 and q2 are alike, q3 is a question for a tool.
Likeness == [p \in Questions \X Questions |->
               IF p[1] = p[2] THEN 2 ELSE IF {p[1], p[2]} = {q1, q2} THEN 1 ELSE 0]
AllAnswers == {"llm", "tool", "apology"} \X Callers

Ask(u, s, q, g) == [user |-> u, session |-> s, text |-> q, group |-> g, mention |-> FALSE]
Script(asks, n, m) == [asks |-> asks, troubles |-> n, ages |-> m]

\* One user in one session, two users in a group, one user in two sessions; and
\* questions enough to fill the cache.
AllScripts ==
  { Script(<<Ask(ann, s1, q1, FALSE), Ask(ann, s1, q2, FALSE), Ask(ann, s1, q3, FALSE)>>, 1, 0),
    Script(<<Ask(ann, s1, q1, TRUE), Ask(bob, s1, q3, TRUE),
             [Ask(bob, s1, q3, TRUE) EXCEPT !.mention = TRUE]>>, 1, 0),
    Script(<<Ask(ann, s1, q3, FALSE), Ask(ann, s2, q1, TRUE), Ask(bob, s2, q2, FALSE)>>, 1, 0),
    Script(<<Ask(ann, s1, q1, FALSE), Ask(bob, s1, q3, FALSE), Ask(ann, s2, q2, FALSE),
             Ask(bob, s2, q3, FALSE)>>, 0, 2) }
=============================================================================
