-------------------------------- MODULE Queues --------------------------------
(* What the two message hubs say about a Go channel, a log or a list of users. *)
EXTENDS Sequences, Naturals

\* What is in a queue.
Ran(q) == {q[i] : i \in 1..Len(q)}

\* Nothing is in it twice.
NoDup(q) == \A i, j \in 1..Len(q) : q[i] = q[j] => i = j
=============================================================================
