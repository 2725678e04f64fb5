--------------------------- MODULE MCUserRemoval ---------------------------
(* A small instance of UserRemoval: a message of the user to a colleague   *)
(* and a call that hides the number, both seen by the colleague's session, *)
(* and a message that the user receives in a group.                        *)
EXTENDS UserRemoval, TLC

CONSTANTS p1, p2, colleague, group, lid, c1, c2

Seen ==
  LET event(s, k, j, n) ==
        [session |-> s, call |-> k, inbound |-> TRUE, chat |-> j, contact |-> n]
  IN {event(colleague, FALSE, p1, p1), event(colleague, TRUE, lid, p1),
      event(p1, FALSE, group, colleague)}

\* The requests are interchangeable.
Requests == Permutations(Call)
=============================================================================
