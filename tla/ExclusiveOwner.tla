--------------------------- MODULE ExclusiveOwner ---------------------------
(***************************************************************************)
(* What the connection lease promises the rest of the system: at any time  *)
(* at most one pod drives a WhatsApp session, and the session changes      *)
(* hands only through a moment at which no pod drives it.                  *)
(***************************************************************************)
CONSTANTS Pod,     \* pod names that appear in connectionOwner
          NoOwner  \* no pod drives the session

VARIABLE holder

TypeOK == holder \in Pod \cup {NoOwner}

Init == holder = NoOwner

\* Pod p starts to drive a session nobody drives.
Take(p) == holder = NoOwner /\ holder' = p

\* Pod p stops driving the session.
Yield(p) == holder = p /\ holder' = NoOwner

Next == \E p \in Pod : Take(p) \/ Yield(p)

Spec == Init /\ [][Next]_holder
=============================================================================
