--------------------------- MODULE MCQueueDelivery ---------------------------
(* Small instances of QueueDelivery: two messages, two pods.               *)
EXTENDS QueueDelivery, TLC

CONSTANTS e1, s1, p1, p2

\* The pods are interchangeable.
Pods == Permutations({p1, p2})
=============================================================================
