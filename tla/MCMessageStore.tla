--------------------------- MODULE MCMessageStore ---------------------------
(* A small instance of MessageStore: two photos without caption that are   *)
(* sent in a row, and an incoming call.                                    *)
EXTENDS MessageStore, TLC

CONSTANTS photo1, photo2, call, h1, h2

SentInARow == {<<photo1, photo2>>, <<photo2, photo1>>}

\* The handlers are interchangeable.
Handlers == Permutations({h1, h2})
=============================================================================
