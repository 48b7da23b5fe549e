--------------------------- MODULE MCDatabaseDesk ---------------------------
(***************************************************************************)
(* Instances of DatabaseDesk for TLC.  Each names the calls its clients    *)
(* make: two of them at a time, in every interleaving.                     *)
(***************************************************************************)
EXTENDS DatabaseDesk

CONSTANTS l1, l2, s1, s2, p1, m1, m2, c1

Ask(s, S) == [op |-> "inquire", letters |-> {[supplier |-> s, lines |-> S]}]
Settle(l, c) == [op |-> "confirm", line |-> l, code |-> c]
Offer(l) == [op |-> "price", line |-> l, price |-> p1]
Withdraw(l) == [op |-> "unprice", line |-> l]
SignOffOf(S, m) == [op |-> "approve", prices |-> [l \in S |-> p1], margin |-> m]

\* What people do to one line, with letters to two firms, two different ones to
\* one of them, and two approvals that differ.
OneLine == {Ask(s1, {l1}), Ask(s1, {}), Ask(s2, {l1}), Settle(l1, c1),
            Offer(l1), Withdraw(l1), SignOffOf({l1}, m1), SignOffOf({l1}, m2)}

\* Approvals of some of the lines and of all of them, and the document.
Approvals == {SignOffOf({l1}, m1), SignOffOf({l1, l2}, m2), [op |-> "quote"]}
=============================================================================
