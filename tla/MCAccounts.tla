----------------------------- MODULE MCAccounts -----------------------------
(* A small instance of Accounts: two addresses, one of them also typed with *)
(* capitals, two phones, and the forms that collide in the ways the indexes *)
(* tell apart.                                                              *)
EXTENDS Accounts, TLC

CONSTANTS ana, anaTyped, bea, p1, p2, r1, r2, r3

LowerCase == [e \in {ana, anaTyped, bea, NoEmail} |->
                IF e = anaTyped THEN ana ELSE e]

Asked(e, p, r) == [email |-> e, phone |-> p, role |-> r]
AskedFor == {Asked(ana, p1, "User"), Asked(bea, p1, "User"),
             Asked(anaTyped, p2, "User"), Asked(bea, NoPhone, "TenantAdmin")}
ChangedTo == {Asked(bea, NoPhone, "none"), Asked(NoEmail, p2, "none"),
              Asked(NoEmail, NoPhone, "TenantAdmin")}

\* A file whose rows collide on the phone, one whose addresses differ in their
\* capitals only, one with nothing wrong.
Uploaded == {<<Asked(ana, p1, "User"), Asked(bea, p1, "User")>>,
             <<Asked(ana, p1, "User"), Asked(anaTyped, p2, "User")>>,
             <<Asked(bea, p1, "User"), Asked(anaTyped, p2, "User")>>}

\* The requests are interchangeable.
Senders == Permutations(Requests)
=============================================================================
