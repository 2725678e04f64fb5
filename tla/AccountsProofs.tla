---------------------------- MODULE AccountsProofs ----------------------------
(***************************************************************************)
(* Proofs about Accounts, for any users, requests, files and caches: the   *)
(* types, that the reports of an upload are true whatever the other        *)
(* requests do to the users meanwhile, and that every token that works is  *)
(* in its user's list of sessions, so that a logout ends them all, but for *)
(* cache errors and overlaps.                                              *)
(***************************************************************************)
EXTENDS Accounts, FiniteSetTheorems, TLAPS

\* What a request at some stage has read.
Fits(q) ==
  /\ q.at \notin {"free", "inserting", "done"} => q.user \in Users
  /\ q.at = "inserting" => q.op \in CreateOps /\ q.form \in Forms
  /\ q.at = "stating" => q.op \in Registrations

RequestsFit ==
  \A r \in Requests :
    /\ Fits(reqs[r])
    /\ reqs[r].at \in {"listed", "written"} => token[r] \in Tokens

UsersTyped ==
  /\ users \in [Users -> User] /\ reqs \in [Requests -> Request]
  /\ load \in 0..MaxLoad /\ \A r \in Requests : Fits(reqs[r])

\* No user once stored is forgotten: its identity is not given out again.
Known(u) == users[u].reg # "none"
NobodyForgotten == \A u \in Users : Known(u) => Known(u)'

-----------------------------------------------------------------------------
\* Records.

LEMMA RequestBegun ==
  /\ Unused \in Request /\ Over \in Request
  /\ Fits(Unused) /\ Fits(Over)
BY AccountsAssumption DEF Unused, Over, Request, NoForm, Form, Roles, Stages, Fits

LEMMA AbsentTyped == Absent \in User
BY DEF Absent, User, Roles

LEMMA NewUserTyped ==
  ASSUME NEW e \in Emails \cup {NoEmail}, NEW p \in Phones \cup {NoPhone},
         NEW r \in Roles, NEW g \in Registrations
  PROVE  NewUser(e, p, r, g) \in User /\ NewUser(e, p, r, g).reg # "none"
BY DEF NewUser, User, Registrations

LEMMA FormTyped ==
  ASSUME NEW f \in Forms
  PROVE  /\ f \in Form /\ f.email \in Emails \cup {NoEmail}
         /\ f.phone \in Phones \cup {NoPhone} /\ f.role \in Roles
         /\ Lower[f.email] \in Emails \cup {NoEmail}
<1>1. f \in Form /\ f.role # "none"
  BY AccountsAssumption
<1>2. /\ f.email \in Emails \cup {NoEmail} /\ f.phone \in Phones \cup {NoPhone}
      /\ f.role \in Roles
  BY <1>1 DEF Form
<1> QED
  BY <1>1, <1>2, AccountsAssumption

LEMMA DocumentTyped ==
  ASSUME NEW o \in CreateOps, NEW f \in Forms
  PROVE  Document(o, f) \in User /\ Document(o, f).reg # "none"
<1>1. /\ f.email \in Emails \cup {NoEmail} /\ f.phone \in Phones \cup {NoPhone}
      /\ f.role \in Roles /\ Lower[f.email] \in Emails \cup {NoEmail}
  BY FormTyped
<1>2. /\ InvitedUser(f) \in User /\ InvitedUser(f).reg # "none"
      /\ InvitedManager(f) \in User /\ InvitedManager(f).reg # "none"
      /\ SystemAdmin(f) \in User /\ SystemAdmin(f).reg # "none"
      /\ Registered(f) \in User /\ Registered(f).reg # "none"
  BY <1>1, NewUserTyped DEF InvitedUser, InvitedManager, SystemAdmin, Registered,
     Roles, Registrations
<1> QED
  BY <1>2 DEF CreateOps, Document

LEMMA UserChanged ==
  ASSUME NEW d \in User, NEW e \in Emails \cup {NoEmail},
         NEW p \in Phones \cup {NoPhone}, NEW r \in Roles
  PROVE  /\ [d EXCEPT !.email = e, !.phone = p, !.role = r] \in User
         /\ [d EXCEPT !.email = e, !.phone = p, !.role = r].reg = d.reg
BY DEF User

LEMMA UserErased ==
  ASSUME NEW d \in User
  PROVE  /\ [d EXCEPT !.active = FALSE, !.email = NoEmail, !.phone = NoPhone] \in User
         /\ [d EXCEPT !.active = FALSE, !.email = NoEmail, !.phone = NoPhone].reg = d.reg
BY DEF User

LEMMA UserStated ==
  ASSUME NEW d \in User, NEW g \in Registrations
  PROVE  [d EXCEPT !.reg = g] \in User /\ [d EXCEPT !.reg = g].reg = g
BY DEF User

LEMMA UserCancelled ==
  ASSUME NEW d \in User
  PROVE  /\ [d EXCEPT !.reg = "cancelled", !.active = FALSE] \in User
         /\ [d EXCEPT !.reg = "cancelled", !.active = FALSE].reg = "cancelled"
BY DEF User, Registrations

\* A request is given another record, or moves on with its own.
LEMMA RequestGoes ==
  ASSUME reqs \in [Requests -> Request], \A r \in Requests : Fits(reqs[r]),
         NEW r \in Requests, NEW q \in Request, Fits(q), Goes(r, q)
  PROVE  /\ reqs' \in [Requests -> Request]
         /\ \A s \in Requests : Fits(reqs'[s])
         /\ reqs'[r] = q /\ \A s \in Requests \ {r} : reqs'[s] = reqs[s]
<1>1. reqs' = [reqs EXCEPT ![r] = q]
  BY DEF Goes
<1> QED
  BY <1>1

LEMMA RequestOf ==
  ASSUME NEW s \in Stages \ {"inserting", "stating"}, NEW u \in Users
  PROVE  /\ [Unused EXCEPT !.at = s, !.user = u] \in Request
         /\ Fits([Unused EXCEPT !.at = s, !.user = u])
         /\ [Unused EXCEPT !.at = s, !.user = u].at = s
         /\ [Unused EXCEPT !.at = s, !.user = u].user = u
<1>1. Users \subseteq 0..MaxUsers
  BY AccountsAssumption DEF Users
<1>2. \A x \in Request :
        /\ [x EXCEPT !.at = s, !.user = u] \in Request
        /\ [x EXCEPT !.at = s, !.user = u].at = s
        /\ [x EXCEPT !.at = s, !.user = u].user = u
  BY <1>1 DEF Request
<1> DEFINE q == [Unused EXCEPT !.at = s, !.user = u]
<1>3. q \in Request /\ q.at = s /\ q.user = u
  BY <1>2, RequestBegun, Zenon
<1> HIDE DEF q
<1>4. Fits(q)
  BY <1>3 DEF Fits
<1> QED
  BY <1>3, <1>4 DEF q

LEMMA RequestToInsert ==
  ASSUME NEW o \in CreateOps, NEW f \in Forms
  PROVE  /\ [Unused EXCEPT !.at = "inserting", !.op = o, !.form = f] \in Request
         /\ Fits([Unused EXCEPT !.at = "inserting", !.op = o, !.form = f])
<1>1. f \in Form
  BY FormTyped
<1>2. \A x \in Request :
        /\ [x EXCEPT !.at = "inserting", !.op = o, !.form = f] \in Request
        /\ [x EXCEPT !.at = "inserting", !.op = o, !.form = f].at = "inserting"
        /\ [x EXCEPT !.at = "inserting", !.op = o, !.form = f].op = o
        /\ [x EXCEPT !.at = "inserting", !.op = o, !.form = f].form = f
  BY <1>1 DEF Request, Stages
<1> DEFINE q == [Unused EXCEPT !.at = "inserting", !.op = o, !.form = f]
<1>3. q \in Request /\ q.at = "inserting" /\ q.op = o /\ q.form = f
  BY <1>2, RequestBegun, Zenon
<1> HIDE DEF q
<1>4. Fits(q)
  BY <1>3 DEF Fits
<1> QED
  BY <1>3, <1>4 DEF q

LEMMA RequestToUpdate ==
  ASSUME NEW u \in Users, NEW f \in Form
  PROVE  /\ [Unused EXCEPT !.at = "updating", !.user = u, !.form = f] \in Request
         /\ Fits([Unused EXCEPT !.at = "updating", !.user = u, !.form = f])
<1>1. Users \subseteq 0..MaxUsers
  BY AccountsAssumption DEF Users
<1>2. \A x \in Request :
        /\ [x EXCEPT !.at = "updating", !.user = u, !.form = f] \in Request
        /\ [x EXCEPT !.at = "updating", !.user = u, !.form = f].at = "updating"
        /\ [x EXCEPT !.at = "updating", !.user = u, !.form = f].user = u
  BY <1>1 DEF Request, Stages
<1> DEFINE q == [Unused EXCEPT !.at = "updating", !.user = u, !.form = f]
<1>3. q \in Request /\ q.at = "updating" /\ q.user = u
  BY <1>2, RequestBegun, Zenon
<1> HIDE DEF q
<1>4. Fits(q)
  BY <1>3 DEF Fits
<1> QED
  BY <1>3, <1>4 DEF q

LEMMA RequestToState ==
  ASSUME NEW u \in Users, NEW g \in Registrations
  PROVE  /\ [Unused EXCEPT !.at = "stating", !.user = u, !.op = g] \in Request
         /\ Fits([Unused EXCEPT !.at = "stating", !.user = u, !.op = g])
<1>1. Users \subseteq 0..MaxUsers
  BY AccountsAssumption DEF Users
<1>2. \A x \in Request :
        /\ [x EXCEPT !.at = "stating", !.user = u, !.op = g] \in Request
        /\ [x EXCEPT !.at = "stating", !.user = u, !.op = g].at = "stating"
        /\ [x EXCEPT !.at = "stating", !.user = u, !.op = g].user = u
        /\ [x EXCEPT !.at = "stating", !.user = u, !.op = g].op = g
  BY <1>1 DEF Request, Stages
<1> DEFINE q == [Unused EXCEPT !.at = "stating", !.user = u, !.op = g]
<1>3. q \in Request /\ q.at = "stating" /\ q.user = u /\ q.op = g
  BY <1>2, RequestBegun, Zenon
<1> HIDE DEF q
<1>4. Fits(q)
  BY <1>3 DEF Fits
<1> QED
  BY <1>3, <1>4 DEF q

LEMMA UserWritten ==
  ASSUME users \in [Users -> User], NEW u \in Users, NEW d \in User,
         users' = [users EXCEPT ![u] = d],
         users[u].reg # "none" => d.reg # "none"
  PROVE  users' \in [Users -> User] /\ NobodyForgotten
BY DEF NobodyForgotten, Known

LEMMA Loaded ==
  ASSUME load \in 0..MaxLoad, NEW r \in Requests, Begins(r)
  PROVE  load' \in 0..MaxLoad
BY AccountsAssumption DEF Begins

-----------------------------------------------------------------------------
\* The users.

LEMMA UsersStep ==
  ASSUME UsersTyped, UsersNext
  PROVE  UsersTyped' /\ NobodyForgotten
<1> USE DEF UsersTyped
<1>0. UNCHANGED users => users' \in [Users -> User] /\ NobodyForgotten
  BY DEF NobodyForgotten, Known
<1>1. ASSUME NEW r \in Requests, NEW o \in CreateOps, NEW f \in Forms, Ask(r, o, f)
      PROVE  UsersTyped' /\ NobodyForgotten
  <2>1. PICK q \in Request : Fits(q) /\ Goes(r, q)
    <3>1. CASE Goes(r, Over)
      BY <3>1, RequestBegun
    <3>2. CASE Goes(r, [Unused EXCEPT !.at = "inserting", !.op = o, !.form = f])
      BY <3>2, RequestToInsert, Zenon
    <3> QED
      BY <1>1, <3>1, <3>2 DEF Ask
  <2> QED
    BY <1>0, <1>1, <2>1, RequestGoes, Loaded DEF Ask
<1>2. ASSUME NEW r \in Requests, AskFails(r)
      PROVE  UsersTyped' /\ NobodyForgotten
  BY <1>0, <1>2, RequestBegun, RequestGoes DEF AskFails
<1>3. ASSUME NEW r \in Requests, NEW u \in Users, Insert(r, u)
      PROVE  UsersTyped' /\ NobodyForgotten
  <2> DEFINE d == Document(reqs[r].op, reqs[r].form)
  <2>1. d \in User /\ d.reg # "none"
    BY <1>3, DocumentTyped DEF Insert, Fits
  <2>2. users' \in [Users -> User] /\ NobodyForgotten
    <3>1. UNCHANGED users \/ users' = [users EXCEPT ![u] = d]
      BY <1>3 DEF Insert, Inserts
    <3> HIDE DEF d
    <3> QED
      BY <1>0, <2>1, <3>1, UserWritten
  <2>3. PICK q \in Request : Fits(q) /\ Goes(r, q)
    <3>1. CASE Goes(r, Over)
      BY <3>1, RequestBegun
    <3>2. CASE Goes(r, [Unused EXCEPT !.at = "login", !.user = u])
      <4>1. "login" \in Stages \ {"inserting", "stating"}
        BY DEF Stages
      <4> QED
        BY <3>2, <4>1, RequestOf, Zenon
    <3> QED
      BY <1>3, <3>1, <3>2 DEF Insert
  <2> QED
    BY <1>3, <2>2, <2>3, RequestGoes DEF Insert
<1>4. ASSUME NEW r \in Requests, NEW u \in Users, NEW c \in Changes,
             AskUpdate(r, u, c)
      PROVE  UsersTyped' /\ NobodyForgotten
  <2> DEFINE new == IF c.email = users[u].email THEN c.email ELSE Lower[c.email]
             f == [c EXCEPT !.email = new]
  <2>1. PICK x \in Form : x = c
    BY AccountsAssumption
  <2>2. new \in Emails \cup {NoEmail}
    BY <2>1, AccountsAssumption DEF Form
  <2>3. f \in Form
    <3>1. f = [x EXCEPT !.email = new]
      BY <2>1, Zenon
    <3> HIDE DEF f, new
    <3> QED
      BY <2>2, <3>1 DEF Form
  <2>4. Goes(r, Over) \/ Goes(r, [Unused EXCEPT !.at = "updating", !.user = u,
                                                !.form = f])
    BY <1>4 DEF AskUpdate
  <2>5. PICK q \in Request : Fits(q) /\ Goes(r, q)
    <3> HIDE DEF f
    <3> QED
      BY <2>3, <2>4, RequestBegun, RequestToUpdate, Zenon
  <2> QED
    BY <1>0, <1>4, <2>5, RequestGoes, Loaded DEF AskUpdate
<1>5. ASSUME NEW r \in Requests, WriteUpdate(r)
      PROVE  UsersTyped' /\ NobodyForgotten
  <2> DEFINE u == reqs[r].user
             c == reqs[r].form
             e == IF c.email = NoEmail THEN users[u].email ELSE c.email
             p == IF c.phone = NoPhone THEN users[u].phone ELSE c.phone
             o == IF c.role = "none" THEN users[u].role ELSE c.role
  <2>1. u \in Users /\ reqs[r] \in Request /\ c \in Form
    BY <1>5 DEF WriteUpdate, Fits, Request
  <2>2. PICK x \in User : x = users[u]
    BY <2>1
  <2>3. e \in Emails \cup {NoEmail} /\ p \in Phones \cup {NoPhone} /\ o \in Roles
    BY <2>1, <2>2 DEF Form, User
  <2> DEFINE d == [x EXCEPT !.email = e, !.phone = p, !.role = o]
  <2>4. UNCHANGED users \/ users' = [users EXCEPT ![u] = d]
    BY <1>5, <2>2 DEF WriteUpdate, Inserts
  <2>5. d \in User /\ d.reg = x.reg
    <3> HIDE DEF e, p, o
    <3> QED
      BY <2>3, x \in User DEF User
  <2>6. users' \in [Users -> User] /\ NobodyForgotten
    <3> HIDE DEF d
    <3> QED
      BY <1>0, <2>1, <2>2, <2>4, <2>5, UserWritten
  <2> QED
    BY <1>5, <2>6, RequestBegun, RequestGoes DEF WriteUpdate
<1>6. ASSUME NEW r \in Requests, NEW u \in Users, NEW g \in Registrations,
             AskStatus(r, u, g)
      PROVE  UsersTyped' /\ NobodyForgotten
  <2>1. PICK q \in Request : Fits(q) /\ Goes(r, q)
    BY <1>6, RequestToState, Zenon DEF AskStatus
  <2> QED
    BY <1>0, <1>6, <2>1, RequestGoes, Loaded DEF AskStatus
<1>7. ASSUME NEW r \in Requests, WriteStatus(r)
      PROVE  UsersTyped' /\ NobodyForgotten
  <2> DEFINE u == reqs[r].user
             g == reqs[r].op
  <2>1. u \in Users /\ g \in Registrations
    BY <1>7 DEF WriteStatus, Fits
  <2>2. PICK x \in User : x = users[u]
    BY <2>1
  <2> DEFINE d == [x EXCEPT !.reg = g]
  <2>3. users' = [users EXCEPT ![u] = d]
    BY <1>7, <2>2 DEF WriteStatus
  <2>4. d \in User /\ d.reg = g
    BY <2>1, UserStated, Zenon
  <2>5. users' \in [Users -> User] /\ NobodyForgotten
    <3> HIDE DEF d
    <3> QED
      BY <2>1, <2>3, <2>4, UserWritten DEF Registrations
  <2> QED
    BY <1>7, <2>5, RequestBegun, RequestGoes DEF WriteStatus
<1>8. ASSUME NEW r \in Requests, NEW u \in Users, AskRemove(r, u)
      PROVE  UsersTyped' /\ NobodyForgotten
  <2>1. "removing" \in Stages \ {"inserting", "stating"}
    BY DEF Stages
  <2>2. PICK q \in Request : Fits(q) /\ Goes(r, q)
    BY <1>8, <2>1, RequestOf, Zenon DEF AskRemove
  <2> QED
    BY <1>0, <1>8, <2>2, RequestGoes, Loaded DEF AskRemove
<1>9. ASSUME NEW r \in Requests, Erase(r)
      PROVE  UsersTyped' /\ NobodyForgotten
  <2> DEFINE u == reqs[r].user
  <2>1. u \in Users
    BY <1>9 DEF Erase, Fits
  <2>2. PICK x \in User : x = users[u]
    BY <2>1
  <2> DEFINE d == [x EXCEPT !.active = FALSE, !.email = NoEmail, !.phone = NoPhone]
  <2>3. users' = [users EXCEPT ![u] = d]
    BY <1>9, <2>1, <2>2 DEF Erase
  <2>4. d \in User /\ d.reg = x.reg
    BY UserErased, Zenon
  <2>5. users' \in [Users -> User] /\ NobodyForgotten
    <3> HIDE DEF d
    <3> QED
      BY <2>1, <2>2, <2>3, <2>4, UserWritten
  <2> QED
    BY <1>9, <2>5, RequestBegun, RequestGoes DEF Erase
<1>10. CASE CancelInvitations
  <2>1. PICK S \in SUBSET {u \in Users : users[u].reg = "invited"} :
          users' = [u \in Users |->
             IF u \in S THEN [users[u] EXCEPT !.reg = "cancelled", !.active = FALSE]
                        ELSE users[u]]
    BY <1>10 DEF CancelInvitations
  <2>2. ASSUME NEW u \in Users
        PROVE  users'[u] \in User /\ (users[u].reg # "none" => users'[u].reg # "none")
    <3>1. users[u] \in User
      OBVIOUS
    <3>2. CASE u \in S
      <4>1. users'[u] = [users[u] EXCEPT !.reg = "cancelled", !.active = FALSE]
        BY <2>1, <3>2
      <4>2. users'[u] \in User /\ users'[u].reg = "cancelled"
        BY <3>1, <4>1, UserCancelled, Zenon
      <4> QED  BY <4>2
    <3>3. CASE u \notin S
      BY <2>1, <3>3
    <3> QED  BY <3>2, <3>3
  <2>3. users' \in [Users -> User] /\ NobodyForgotten
    BY <2>1, <2>2 DEF NobodyForgotten, Known
  <2> QED
    BY <1>10, <2>3 DEF CancelInvitations
<1> QED
  BY <1>1, <1>2, <1>3, <1>4, <1>5, <1>6, <1>7, <1>8, <1>9, <1>10 DEF UsersNext

\* The stages of a login or logout that has read the session list.
BusyStages == {"listed", "written", "leaving"}

\* None of these requests takes the place of a login or logout that is
\* under way.
LEMMA UsersElsewhere ==
  ASSUME UsersTyped, UsersNext, NEW s \in Requests,
         reqs'[s].at \in BusyStages
  PROVE  reqs'[s] = reqs[s]
<1>1. \A q : q.at \notin BusyStages =>
        \A r \in Requests : Goes(r, q) => reqs'[s] = reqs[s]
  BY DEF Goes, UsersTyped
<1>2. Over.at \notin BusyStages
  BY DEF Over, BusyStages
<1>3. \A o, f : [Unused EXCEPT !.at = "inserting", !.op = o, !.form = f].at \notin BusyStages
  BY DEF Unused, BusyStages
<1>4. \A u : [Unused EXCEPT !.at = "login", !.user = u].at \notin BusyStages
  BY DEF Unused, BusyStages
<1>5. \A u, f : [Unused EXCEPT !.at = "updating", !.user = u, !.form = f].at \notin BusyStages
  BY DEF Unused, BusyStages
<1>6. \A u, g : [Unused EXCEPT !.at = "stating", !.user = u, !.op = g].at \notin BusyStages
  BY DEF Unused, BusyStages
<1>7. \A u : [Unused EXCEPT !.at = "removing", !.user = u].at \notin BusyStages
  BY DEF Unused, BusyStages
<1>8. (\E r \in Requests, o \in CreateOps, f \in Forms : Ask(r, o, f))
        => reqs'[s] = reqs[s]
  <2> SUFFICES ASSUME NEW r \in Requests, NEW o \in CreateOps, NEW f \in Forms,
                      Ask(r, o, f)
               PROVE  reqs'[s] = reqs[s]
    OBVIOUS
  <2>1. \/ Goes(r, Over)
        \/ Goes(r, [Unused EXCEPT !.at = "inserting", !.op = o, !.form = f])
    BY DEF Ask
  <2> QED  BY <2>1, <1>1, <1>2, <1>3, Zenon
<1>9. (\E r \in Requests : AskFails(r) \/ \E u \in Users : Insert(r, u))
        => reqs'[s] = reqs[s]
  <2> SUFFICES ASSUME NEW r \in Requests, AskFails(r) \/ \E u \in Users : Insert(r, u)
               PROVE  reqs'[s] = reqs[s]
    OBVIOUS
  <2>1. \/ Goes(r, Over)
        \/ \E u : Goes(r, [Unused EXCEPT !.at = "login", !.user = u])
    BY DEF AskFails, Insert
  <2> QED  BY <2>1, <1>1, <1>2, <1>4, Zenon
<1>10. (\E r \in Requests, u \in Users, c \in Changes : AskUpdate(r, u, c))
         => reqs'[s] = reqs[s]
  <2> SUFFICES ASSUME NEW r \in Requests, NEW u \in Users, NEW c \in Changes,
                      AskUpdate(r, u, c)
               PROVE  reqs'[s] = reqs[s]
    OBVIOUS
  <2>1. \/ Goes(r, Over)
        \/ \E f : Goes(r, [Unused EXCEPT !.at = "updating", !.user = u, !.form = f])
    BY DEF AskUpdate
  <2> QED  BY <2>1, <1>1, <1>2, <1>5, Zenon
<1>11. (\E r \in Requests : WriteUpdate(r) \/ WriteStatus(r) \/ Erase(r))
         => reqs'[s] = reqs[s]
  BY <1>1, <1>2, Zenon DEF WriteUpdate, WriteStatus, Erase
<1>12. (\E r \in Requests, u \in Users, g \in Registrations : AskStatus(r, u, g))
         => reqs'[s] = reqs[s]
  BY <1>1, <1>6, Zenon DEF AskStatus
<1>13. (\E r \in Requests, u \in Users : AskRemove(r, u)) => reqs'[s] = reqs[s]
  BY <1>1, <1>7, Zenon DEF AskRemove
<1>14. CancelInvitations => reqs'[s] = reqs[s]
  BY DEF CancelInvitations
<1> QED
  BY <1>8, <1>9, <1>10, <1>11, <1>12, <1>13, <1>14 DEF UsersNext

LEMMA UsersStart == ASSUME Init PROVE UsersTyped
<1>1. PICK f \in Forms : users = [u \in Users |-> IF u = 1 THEN Registered(f) ELSE Absent]
  BY DEF Init, UsersInit
<1>2. Registered(f) \in User
  <2>1. f.phone \in Phones \cup {NoPhone} /\ Lower[f.email] \in Emails \cup {NoEmail}
    BY FormTyped
  <2> QED
    BY <2>1, NewUserTyped DEF Registered, Roles, Registrations
<1>3. users \in [Users -> User]
  BY <1>1, <1>2, AbsentTyped
<1>4. reqs \in [Requests -> Request] /\ \A r \in Requests : Fits(reqs[r])
  BY RequestBegun DEF Init, UsersInit
<1>5. load \in 0..MaxLoad
  BY AccountsAssumption DEF Init, UsersInit
<1> QED
  BY <1>3, <1>4, <1>5 DEF UsersTyped

-----------------------------------------------------------------------------
\* The logins.

AuthTyped ==
  /\ AuthTypeOK
  /\ \A r \in Requests : reqs[r].at \in {"listed", "written"} => token[r] \in Tokens

LEMMA Shortened ==
  ASSUME NEW S, NEW s \in Seq(S), s # <<>>
  PROVE  Tail(s) \in Seq(S)
OBVIOUS

LEMMA TokenOfNow ==
  ASSUME AuthTypeOK, NEW u \in Users
  PROVE  <<u, now>> \in Tokens
BY DEF AuthTypeOK, Tokens

LEMMA Lapsed ==
  ASSUME AuthTypeOK, Kept \/ Lapse
  PROVE  lapses' \in 0..MaxLapses
BY SessionsAssumption DEF AuthTypeOK, Kept, Lapse

LEMMA Moved ==
  ASSUME UsersTyped, NEW r \in Requests, NEW s \in Stages \ {"inserting", "stating"},
         reqs[r].user \in Users, Move(r, s)
  PROVE  /\ reqs' \in [Requests -> Request] /\ \A t \in Requests : Fits(reqs'[t])
         /\ reqs'[r].at = s /\ reqs'[r].user = reqs[r].user
         /\ \A t \in Requests \ {r} : reqs'[t] = reqs[t]
<1>1. PICK x \in Request : x = reqs[r]
  BY DEF UsersTyped
<1> DEFINE q == [x EXCEPT !.at = s]
<1>2. reqs' = [reqs EXCEPT ![r] = q]
  BY <1>1 DEF Move, UsersTyped
<1>3. q \in Request /\ q.at = s /\ q.user = x.user
  BY DEF Request
<1> HIDE DEF q
<1>4. Fits(q)
  BY <1>1, <1>3 DEF Fits
<1>5. Goes(r, q)
  BY <1>2 DEF Goes
<1>6. reqs'[r] = q
  BY <1>3, <1>4, <1>5, RequestGoes DEF UsersTyped
<1>7. reqs'[r].user = reqs[r].user
  BY <1>1, <1>3, <1>6, Zenon
<1> QED
  BY <1>3, <1>4, <1>5, <1>7, RequestGoes DEF UsersTyped

LEMMA AuthStep ==
  ASSUME UsersTyped, AuthTyped, AuthNext
  PROVE  UsersTyped' /\ AuthTyped' /\ UNCHANGED users
<1> USE DEF AuthTyped
<1>0. /\ \A r \in Requests : list[r] \in Seq(Tokens)
      /\ \A u \in Users : listed[u] \in Seq(Tokens)
      /\ <<>> \in Seq(Tokens) /\ NoToken \in Tokens \cup {NoToken}
  BY DEF AuthTypeOK
<1>1. ASSUME NEW r \in Requests, NEW u \in Users, Validate(r, u)
      PROVE  UsersTyped' /\ AuthTyped' /\ UNCHANGED users
  <2> DEFINE q == [Unused EXCEPT !.at = "login", !.user = u]
  <2>1. q \in Request /\ Fits(q) /\ q.at = "login"
    BY RequestOf DEF Stages
  <2>2. Goes(r, q)
    BY <1>1 DEF Validate
  <2> HIDE DEF q
  <2>3. UsersTyped' /\ UNCHANGED users
    BY <1>1, <2>1, <2>2, RequestGoes, Loaded DEF Validate, UsersTyped
  <2>4. AuthTypeOK'
    BY <1>1 DEF Validate, authVars, AuthTypeOK
  <2> QED
    BY <1>1, <2>1, <2>2, <2>3, <2>4, RequestGoes
    DEF Validate, authVars, UsersTyped
<1>2. ASSUME NEW r \in Requests, NEW u \in Users, Logout(r, u)
      PROVE  UsersTyped' /\ AuthTyped' /\ UNCHANGED users
  <2> DEFINE q == [Unused EXCEPT !.at = "leaving", !.user = u]
  <2>1. q \in Request /\ Fits(q) /\ q.at = "leaving"
    BY RequestOf DEF Stages
  <2>2. Goes(r, q)
    BY <1>2 DEF Logout
  <2> HIDE DEF q
  <2>3. UsersTyped' /\ UNCHANGED users
    BY <1>2, <2>1, <2>2, RequestGoes, Loaded DEF Logout, UsersTyped
  <2>4. PICK l \in Seq(Tokens) : list' = [list EXCEPT ![r] = l]
    BY <1>0, <1>2 DEF Logout, Sets
  <2>5. AuthTypeOK'
    BY <1>2, <2>4, Lapsed DEF Logout, Enter, AuthTypeOK
  <2> QED
    BY <1>2, <2>1, <2>2, <2>3, <2>5, RequestGoes DEF Logout, UsersTyped
<1>3. ASSUME NEW r \in Requests, ReadList(r)
      PROVE  UsersTyped' /\ AuthTyped' /\ UNCHANGED users
  <2>1. reqs[r].user \in Users
    BY <1>3 DEF ReadList, UsersTyped, Fits
  <2>2. Move(r, "listed") /\ "listed" \in Stages \ {"inserting", "stating"}
    BY <1>3 DEF ReadList, Stages
  <2>3. UsersTyped' /\ UNCHANGED users
    BY <1>3, <2>1, <2>2, Moved DEF ReadList, UsersTyped
  <2>4. PICK l \in Seq(Tokens) : list' = [list EXCEPT ![r] = l]
    BY <1>0, <1>3, <2>1 DEF ReadList, Sets
  <2>5. PICK t \in Tokens : token' = [token EXCEPT ![r] = t]
    BY <1>3, <2>1, TokenOfNow DEF ReadList, Sets
  <2>6. AuthTypeOK'
    BY <1>3, <2>1, <2>4, <2>5, Lapsed DEF ReadList, Enter, AuthTypeOK
  <2>7. \A s \in Requests : reqs'[s].at \in {"listed", "written"} => token'[s] \in Tokens
    BY <2>1, <2>2, <2>5, Moved DEF AuthTypeOK
  <2> QED
    BY <2>3, <2>6, <2>7
<1>4. ASSUME NEW r \in Requests, Evict(r)
      PROVE  UsersTyped' /\ AuthTyped' /\ UNCHANGED users
  <2>1. UsersTyped' /\ UNCHANGED users
    BY <1>4 DEF Evict, UsersTyped
  <2>2. Tail(list[r]) \in Seq(Tokens)
    <3>1. list[r] # <<>>
      BY <1>4, SessionsAssumption DEF Evict
    <3> QED
      BY <1>0, <3>1, Shortened
  <2>3. AuthTypeOK'
    BY <1>4, <2>2, Lapsed DEF Evict, Sets, AuthTypeOK
  <2> QED
    BY <1>4, <2>1, <2>3 DEF Evict
<1>5. ASSUME NEW r \in Requests, WriteList(r)
      PROVE  UsersTyped' /\ AuthTyped' /\ UNCHANGED users
  <2>1. reqs[r].user \in Users /\ token[r] \in Tokens
    BY <1>5 DEF WriteList, UsersTyped, Fits
  <2>2. Move(r, "written") /\ "written" \in Stages \ {"inserting", "stating"}
    BY <1>5 DEF WriteList, Stages
  <2>3. UsersTyped' /\ UNCHANGED users
    BY <1>5, <2>1, <2>2, Moved DEF WriteList, UsersTyped
  <2>4. Append(list[r], token[r]) \in Seq(Tokens)
    BY <1>0, <2>1
  <2>5. AuthTypeOK'
    BY <1>0, <1>5, <2>1, <2>4, Lapsed DEF WriteList, Sets, AuthTypeOK
  <2>6. \A s \in Requests : reqs'[s].at \in {"listed", "written"} => token'[s] \in Tokens
    BY <1>5, <2>1, <2>2, Moved DEF WriteList
  <2> QED
    BY <2>3, <2>5, <2>6
<1>6. ASSUME NEW r \in Requests, WriteToken(r)
      PROVE  UsersTyped' /\ AuthTyped' /\ UNCHANGED users
  <2>1. token[r] \in Tokens
    BY <1>6 DEF WriteToken
  <2>2. Goes(r, Over) /\ Over.at = "done"
    BY <1>6 DEF WriteToken, Over
  <2>3. UsersTyped' /\ UNCHANGED users
    BY <1>6, <2>2, RequestBegun, RequestGoes DEF WriteToken, UsersTyped
  <2>4. AuthTypeOK'
    BY <1>0, <1>6, <2>1, Lapsed DEF WriteToken, Sets, AuthTypeOK
  <2>5. \A s \in Requests : reqs'[s].at \in {"listed", "written"} => token'[s] \in Tokens
    BY <1>6, <2>2, RequestBegun, RequestGoes DEF WriteToken, Sets, UsersTyped, AuthTypeOK
  <2> QED
    BY <2>3, <2>4, <2>5
<1>7. ASSUME NEW r \in Requests, DropToken(r)
      PROVE  UsersTyped' /\ AuthTyped' /\ UNCHANGED users
  <2>1. UsersTyped' /\ UNCHANGED users
    BY <1>7 DEF DropToken, UsersTyped
  <2>2. Tail(list[r]) \in Seq(Tokens)
    BY <1>0, <1>7, Shortened DEF DropToken
  <2>3. AuthTypeOK'
    BY <1>7, <2>2, Lapsed DEF DropToken, Sets, AuthTypeOK
  <2> QED
    BY <1>7, <2>1, <2>3 DEF DropToken
<1>8. ASSUME NEW r \in Requests, DropList(r)
      PROVE  UsersTyped' /\ AuthTyped' /\ UNCHANGED users
  <2>1. Goes(r, Over) /\ Over.at = "done"
    BY <1>8 DEF DropList, Over
  <2>2. UsersTyped' /\ UNCHANGED users
    BY <1>8, <2>1, RequestBegun, RequestGoes DEF DropList, UsersTyped
  <2>3. AuthTypeOK'
    BY <1>0, <1>8, Lapsed DEF DropList, AuthTypeOK
  <2>4. \A s \in Requests : reqs'[s].at \in {"listed", "written"} => token'[s] \in Tokens
    BY <1>8, <2>1, RequestBegun, RequestGoes DEF DropList, UsersTyped
  <2> QED
    BY <2>2, <2>3, <2>4
<1>9. ASSUME NEW r \in Requests, Answer(r)
      PROVE  UsersTyped' /\ AuthTyped' /\ UNCHANGED users
  <2>1. Goes(r, Over) /\ Over.at = "done"
    BY <1>9 DEF Answer, Over
  <2>2. UsersTyped' /\ UNCHANGED users
    BY <1>9, <2>1, RequestBegun, RequestGoes DEF Answer, UsersTyped
  <2>3. AuthTypeOK'
    BY <1>0, <1>9 DEF Answer, Sets, AuthTypeOK
  <2>4. \A s \in Requests : reqs'[s].at \in {"listed", "written"} => token'[s] \in Tokens
    BY <1>9, <2>1, RequestBegun, RequestGoes DEF Answer, Sets, UsersTyped, AuthTypeOK
  <2> QED
    BY <2>2, <2>3, <2>4
<1>10. ASSUME NEW r \in Requests, NEW t \in live, Refresh(r, t)
       PROVE  UsersTyped' /\ AuthTyped' /\ UNCHANGED users
  <2>1. t \in Tokens /\ t[1] \in Users
    BY DEF AuthTypeOK, Tokens
  <2> DEFINE q == [Unused EXCEPT !.at = "refreshing", !.user = t[1]]
  <2>2. q \in Request /\ Fits(q) /\ q.at = "refreshing"
    BY <2>1, RequestOf DEF Stages
  <2>3. Goes(r, q)
    BY <1>10 DEF Refresh
  <2> HIDE DEF q
  <2>4. UsersTyped' /\ UNCHANGED users
    BY <1>10, <2>2, <2>3, RequestGoes, Loaded DEF Refresh, UsersTyped
  <2>5. AuthTypeOK'
    BY <1>10, <2>1 DEF Refresh, Sets, AuthTypeOK
  <2>6. \A s \in Requests : reqs'[s].at \in {"listed", "written"} => token'[s] \in Tokens
    BY <1>10, <2>1, <2>2, <2>3, RequestGoes DEF Refresh, Sets, UsersTyped, AuthTypeOK
  <2> QED
    BY <2>4, <2>5, <2>6
<1>11. ASSUME NEW u \in Users, ExpireList(u)
       PROVE  UsersTyped' /\ AuthTyped' /\ UNCHANGED users
  BY <1>0, <1>11 DEF ExpireList, UsersTyped, AuthTypeOK
<1>12. CASE Second
  BY <1>12, SessionsAssumption DEF Second, UsersTyped, AuthTypeOK
<1>13. CASE ExpireToken
  BY <1>13 DEF ExpireToken, UsersTyped, AuthTypeOK
<1> QED
  BY <1>1, <1>2, <1>3, <1>4, <1>5, <1>6, <1>7, <1>8, <1>9, <1>10, <1>11, <1>12,
     <1>13 DEF AuthNext

-----------------------------------------------------------------------------
\* The logins: every token that works is in its user's list.

Ran(s) == {s[i] : i \in DOMAIN s}

\* Two requests that work on the list of one user have raced.
Alone ==
  \A r, s \in Requests :
    /\ reqs[r].at \in BusyStages /\ reqs[s].at \in BusyStages
    /\ reqs[r].user = reqs[s].user /\ reqs[r].user \notin raced
    => r = s

\* A login signs tokens of its own user.
OwnTokens ==
  \A r \in Requests :
    reqs[r].at \in {"listed", "written"} => token[r] \in TokensOf(reqs[r].user)

\* Without a race the tokens that work are in the copy of the list that is
\* worked on, until the list that names the new one too is written.
CopiesCover ==
  \A r \in Requests :
    reqs[r].user \notin raced =>
      /\ reqs[r].at \in {"listed", "leaving"} =>
           live \cap TokensOf(reqs[r].user) \subseteq Ran(list[r])
      /\ reqs[r].at = "written" => token[r] \in InList(reqs[r].user)

Accounted ==
  \A u \in Users \ raced :
    /\ live \cap TokensOf(u) \subseteq InList(u)
    /\ Len(listed[u]) <= MaxSessions

\* The inductive invariant of the session lists.
SessionsInv == Alone /\ OwnTokens /\ (lapses = 0 => Accounted /\ CopiesCover)

LEMMA RanTail ==
  ASSUME NEW S, NEW s \in Seq(S), s # <<>>
  PROVE  Ran(s) \subseteq Ran(Tail(s)) \cup {Head(s)}
<1> SUFFICES ASSUME NEW i \in DOMAIN s, s[i] # Head(s)
             PROVE  s[i] \in Ran(Tail(s))
  BY DEF Ran
<1>1. i \in 1..Len(s) /\ i # 1 /\ Len(s) \in Nat
  OBVIOUS
<1>2. i - 1 \in DOMAIN Tail(s) /\ Tail(s)[i - 1] = s[i]
  BY <1>1
<1> QED
  BY <1>2 DEF Ran

LEMMA RanAppend ==
  ASSUME NEW S, NEW s \in Seq(S), NEW e \in S
  PROVE  /\ Ran(s) \subseteq Ran(Append(s, e)) /\ e \in Ran(Append(s, e))
         /\ Len(Append(s, e)) = Len(s) + 1 /\ Len(s) \in Nat
<1>1. /\ Len(Append(s, e)) = Len(s) + 1 /\ Len(s) \in Nat
      /\ DOMAIN s = 1..Len(s) /\ DOMAIN Append(s, e) = 1..(Len(s) + 1)
  OBVIOUS
<1>2. \A i \in 1..Len(s) : i \in 1..(Len(s) + 1) /\ Append(s, e)[i] = s[i]
  OBVIOUS
<1>3. Len(s) + 1 \in 1..(Len(s) + 1) /\ Append(s, e)[Len(s) + 1] = e
  BY <1>1
<1>4. Ran(s) \subseteq Ran(Append(s, e))
  BY <1>1, <1>2 DEF Ran
<1>5. e \in Ran(Append(s, e))
  BY <1>1, <1>3 DEF Ran
<1> QED
  BY <1>1, <1>4, <1>5

\* A step that leaves the lists, and the requests that work on them, alone.
LEMMA SessionsStand ==
  ASSUME SessionsInv, UNCHANGED <<listed, lapses, raced>>, live' \subseteq live,
         \A s \in Requests : reqs'[s].at \in BusyStages =>
            reqs'[s] = reqs[s] /\ list'[s] = list[s] /\ token'[s] = token[s]
  PROVE  SessionsInv'
<1>1. Alone'
  BY DEF SessionsInv, Alone
<1>2. OwnTokens'
  BY DEF SessionsInv, OwnTokens, BusyStages
<1>3. ASSUME lapses' = 0 PROVE Accounted'
  BY <1>3 DEF SessionsInv, Accounted, InList
<1>4. ASSUME lapses' = 0 PROVE CopiesCover'
  BY <1>4 DEF SessionsInv, CopiesCover, InList, BusyStages
<1> QED
  BY <1>1, <1>2, <1>3, <1>4 DEF SessionsInv

\* A request begins to work on the list of a user: it is alone, or it races.
LEMMA Entered ==
  ASSUME Alone, NEW r \in Requests, NEW u, Enter(r, u),
         reqs[r].at \notin BusyStages, reqs'[r].user = u,
         \A s \in Requests \ {r} : reqs'[s] = reqs[s]
  PROVE  /\ raced \subseteq raced' /\ Alone'
         /\ u \notin raced' => u \notin raced /\ \A s \in Requests \ {r} :
              reqs[s].at \in BusyStages => reqs[s].user # u
<1>1. raced \subseteq raced'
  BY DEF Enter
<1>2. u \notin raced' => \A s \in Requests \ {r} :
        reqs[s].at \in BusyStages => reqs[s].user # u
  BY DEF Enter, Busy, BusyStages
<1>3. Alone'
  BY <1>1, <1>2 DEF Alone
<1> QED
  BY <1>1, <1>2, <1>3

\* It works on a copy of the list, which accounts for the tokens of the user.
LEMMA ListRead ==
  ASSUME SessionsInv, NEW r \in Requests, NEW u \in Users, Enter(r, u),
         reqs[r].at \notin BusyStages,
         reqs'[r].at \in {"listed", "leaving"}, reqs'[r].user = u,
         \A s \in Requests \ {r} : /\ reqs'[s] = reqs[s] /\ list'[s] = list[s]
                                   /\ token'[s] = token[s],
         \/ Kept /\ list'[r] = listed[u]
         \/ Lapse,
         reqs'[r].at = "listed" => token'[r] \in TokensOf(u),
         UNCHANGED <<live, listed>>, lapses \in Nat
  PROVE  SessionsInv'
<1>1. raced \subseteq raced' /\ Alone'
  BY Entered DEF SessionsInv
<1>2. OwnTokens'
  BY DEF SessionsInv, OwnTokens
<1>3. ASSUME lapses' = 0 PROVE Accounted' /\ CopiesCover'
  <2>1. lapses = 0 /\ list'[r] = listed[u]
    BY <1>3 DEF Kept, Lapse
  <2>2. Accounted /\ CopiesCover
    BY <2>1 DEF SessionsInv
  <2>3. Accounted'
    BY <1>1, <2>2 DEF Accounted, InList
  <2>4. u \notin raced' => live' \cap TokensOf(u) \subseteq Ran(list'[r])
    BY <1>1, <2>1, <2>2 DEF Accounted, InList, Ran
  <2>5. CopiesCover'
    BY <1>1, <2>2, <2>4 DEF CopiesCover, InList
  <2> QED
    BY <2>3, <2>5
<1> QED
  BY <1>1, <1>2, <1>3 DEF SessionsInv

\* The head of the copy goes, and its token.
LEMMA HeadGoes ==
  ASSUME SessionsInv, AuthTypeOK, NEW r \in Requests,
         reqs[r].at \in {"listed", "leaving"}, list[r] # <<>>,
         list' = Sets(list, r, Tail(list[r])),
         \/ Kept /\ live' = live \ {Head(list[r])}
         \/ Lapse /\ UNCHANGED live,
         UNCHANGED <<reqs, listed, token, raced>>
  PROVE  SessionsInv'
<1>1. Alone' /\ OwnTokens'
  BY DEF SessionsInv, Alone, OwnTokens
<1>2. ASSUME lapses' = 0 PROVE Accounted' /\ CopiesCover'
  <2>1. lapses = 0 /\ live' = live \ {Head(list[r])}
    BY <1>2 DEF Kept, Lapse, AuthTypeOK
  <2>2. Accounted /\ CopiesCover
    BY <2>1 DEF SessionsInv
  <2>3. Accounted'
    BY <2>1, <2>2 DEF Accounted, InList
  <2>4. list'[r] = Tail(list[r]) /\ \A s \in Requests \ {r} : list'[s] = list[s]
    BY DEF Sets, AuthTypeOK
  <2>5. Ran(list[r]) \subseteq Ran(Tail(list[r])) \cup {Head(list[r])}
    BY RanTail DEF AuthTypeOK
  <2>6. CopiesCover'
    BY <2>1, <2>2, <2>4, <2>5 DEF CopiesCover, InList
  <2> QED
    BY <2>3, <2>6
<1> QED
  BY <1>1, <1>2 DEF SessionsInv

\* A list that accounts for the user's tokens replaces the old one: nobody
\* else works on it, or the user has raced.
LEMMA ListReplaced ==
  ASSUME SessionsInv, UsersTyped, AuthTyped, NEW r \in Requests,
         reqs[r].at \in BusyStages,
         reqs'[r].at \in {"written", "done"},
         reqs'[r].at = "written" => reqs'[r].user = reqs[r].user,
         \A s \in Requests \ {r} : reqs'[s] = reqs[s] /\ list'[s] = list[s],
         NEW l \in Seq(Tokens), Len(l) <= MaxSessions,
         lapses = 0 /\ reqs[r].user \notin raced
           => live \cap TokensOf(reqs[r].user) \subseteq Ran(l),
         reqs'[r].at = "written" =>
           token[r] \in Ran(l) /\ token[r] \in TokensOf(reqs[r].user),
         \/ Kept /\ listed' = [listed EXCEPT ![reqs[r].user] = l]
         \/ Lapse,
         UNCHANGED <<live, token, raced>>
  PROVE  SessionsInv'
<1> DEFINE u == reqs[r].user
<1>0. u \in Users
  BY DEF UsersTyped, Fits, BusyStages
<1>1. Alone'
  BY DEF SessionsInv, Alone, BusyStages
<1>2. OwnTokens'
  BY DEF SessionsInv, OwnTokens
<1>3. ASSUME lapses' = 0 PROVE Accounted' /\ CopiesCover'
  <2>1. lapses = 0 /\ listed' = [listed EXCEPT ![u] = l]
    BY <1>3 DEF Kept, Lapse, AuthTyped, AuthTypeOK
  <2>2. Accounted /\ CopiesCover /\ Alone
    BY <2>1 DEF SessionsInv
  <2>3. listed'[u] = l /\ \A v \in Users \ {u} : listed'[v] = listed[v]
    BY <1>0, <2>1 DEF AuthTyped, AuthTypeOK
  <2>4. Accounted'
    BY <2>1, <2>2, <2>3 DEF Accounted, InList, Ran
  <2>5. ASSUME NEW s \in Requests \ {r}, reqs[s].user \notin raced,
               reqs[s].at = "written"
        PROVE  token[s] \in InList(reqs[s].user)'
    <3>1. reqs[s].user # u
      BY <2>2, <2>5 DEF Alone, BusyStages
    <3>2. reqs[s].user \in Users
      BY <2>5 DEF UsersTyped, Fits
    <3>3. reqs'[s] = reqs[s]
      OBVIOUS
    <3> QED
      BY <2>2, <2>3, <2>5, <3>1, <3>2, <3>3 DEF CopiesCover, InList
  <2>6. /\ reqs'[r].at \notin {"listed", "leaving"}
        /\ reqs'[r].at = "written" => token'[r] \in InList(reqs[r].user)'
    BY <2>3 DEF InList, Ran
  <2>7. CopiesCover'
    BY <2>2, <2>5, <2>6 DEF CopiesCover
  <2> QED
    BY <2>4, <2>7
<1> QED
  BY <1>1, <1>2, <1>3 DEF SessionsInv

\* A token of the list begins to work.
LEMMA TokenWritten ==
  ASSUME SessionsInv, UsersTyped, AuthTyped, NEW r \in Requests,
         reqs[r].at = "written", reqs'[r].at = "done",
         \A s \in Requests \ {r} : reqs'[s] = reqs[s] /\ token'[s] = token[s],
         \/ Kept /\ live' = live \cup {token[r]}
         \/ Lapse,
         UNCHANGED <<listed, list, raced>>
  PROVE  SessionsInv'
<1> DEFINE u == reqs[r].user
<1>0. u \in Users
  BY DEF UsersTyped, Fits
<1>1. Alone'
  BY DEF SessionsInv, Alone, BusyStages
<1>2. OwnTokens'
  BY DEF SessionsInv, OwnTokens
<1>3. ASSUME lapses' = 0 PROVE Accounted' /\ CopiesCover'
  <2>1. lapses = 0 /\ live' = live \cup {token[r]}
    BY <1>3 DEF Kept, Lapse, AuthTyped, AuthTypeOK
  <2>2. Accounted /\ CopiesCover /\ Alone /\ OwnTokens
    BY <2>1 DEF SessionsInv
  <2>3. token[r] \in TokensOf(u)
    BY <2>2 DEF OwnTokens
  <2>4. \A v : v # u => token[r] \notin TokensOf(v)
    BY <2>3 DEF TokensOf
  <2>5. u \notin raced => token[r] \in InList(u)
    BY <2>2 DEF CopiesCover
  <2>6. Accounted'
    BY <2>1, <2>2, <2>4, <2>5 DEF Accounted, InList
  <2>7. ASSUME NEW s \in Requests \ {r}, reqs[s].user \notin raced,
               reqs[s].at \in BusyStages
        PROVE  live' \cap TokensOf(reqs[s].user) = live \cap TokensOf(reqs[s].user)
    <3>1. reqs[s].user # u
      BY <2>2, <2>7 DEF Alone, BusyStages
    <3> QED
      BY <2>1, <2>4, <3>1
  <2>8. CopiesCover'
    BY <2>1, <2>2, <2>7 DEF CopiesCover, InList, BusyStages
  <2> QED
    BY <2>6, <2>8
<1> QED
  BY <1>1, <1>2, <1>3 DEF SessionsInv

\* What a step of the logins does to the accounting.
LEMMA SessionsStep ==
  ASSUME UsersTyped, AuthTyped, SessionsInv, AuthNext
  PROVE  SessionsInv'
<1> USE DEF AuthTyped
<1>0. /\ \A r \in Requests : list[r] \in Seq(Tokens)
      /\ lapses \in Nat /\ MaxSessions \in Nat \ {0}
  BY SessionsAssumption DEF AuthTypeOK
<1>head. ASSUME NEW r \in Requests, reqs[r].at \in {"listed", "leaving"},
              list[r] # <<>>, list' = [list EXCEPT ![r] = Tail(list[r])],
              \/ Kept /\ live' = live \ {Head(list[r])}
              \/ Lapse /\ live' = live,
              reqs' = reqs, listed' = listed, token' = token, raced' = raced
       PROVE  SessionsInv'
  BY <1>head, HeadGoes DEF Sets
<1>1. ASSUME NEW r \in Requests, NEW u \in Users, Validate(r, u)
      PROVE  SessionsInv'
  <2> DEFINE q == [Unused EXCEPT !.at = "login", !.user = u]
  <2>1. q \in Request /\ Fits(q) /\ q.at = "login"
    BY RequestOf DEF Stages
  <2>2. Goes(r, q)
    BY <1>1 DEF Validate
  <2> HIDE DEF q
  <2>3. reqs'[r].at = "login" /\ \A s \in Requests \ {r} : reqs'[s] = reqs[s]
    BY <2>1, <2>2, RequestGoes DEF UsersTyped
  <2> QED
    BY <1>1, <2>3, SessionsStand DEF Validate, authVars, BusyStages
<1>2. ASSUME NEW r \in Requests, NEW u \in Users, Logout(r, u)
      PROVE  SessionsInv'
  <2> DEFINE q == [Unused EXCEPT !.at = "leaving", !.user = u]
  <2>1. q \in Request /\ Fits(q) /\ q.at = "leaving" /\ q.user = u
    BY RequestOf DEF Stages
  <2>2. Goes(r, q)
    BY <1>2 DEF Logout
  <2> HIDE DEF q
  <2>3. /\ reqs'[r].at = "leaving" /\ reqs'[r].user = u
        /\ \A s \in Requests \ {r} : reqs'[s] = reqs[s]
    BY <2>1, <2>2, RequestGoes DEF UsersTyped
  <2>4. /\ \A s \in Requests \ {r} : list'[s] = list[s] /\ token'[s] = token[s]
        /\ \/ Kept /\ list'[r] = listed[u]
           \/ Lapse
    BY <1>2 DEF Logout, Sets, AuthTypeOK
  <2>5. reqs[r].at \notin BusyStages /\ Enter(r, u) /\ UNCHANGED <<live, listed>>
    BY <1>2 DEF Logout, Begins, BusyStages
  <2> QED
    BY <1>0, <2>3, <2>4, <2>5, ListRead
<1>3. ASSUME NEW r \in Requests, ReadList(r)
      PROVE  SessionsInv'
  <2>1. reqs[r].user \in Users
    BY <1>3 DEF ReadList, UsersTyped, Fits
  <2>2. Move(r, "listed") /\ "listed" \in Stages \ {"inserting", "stating"}
    BY <1>3 DEF ReadList, Stages
  <2>3. /\ reqs'[r].at = "listed" /\ reqs'[r].user = reqs[r].user
        /\ \A s \in Requests \ {r} : reqs'[s] = reqs[s]
    BY <2>1, <2>2, Moved
  <2>4. PICK u \in Users : u = reqs[r].user
    BY <2>1
  <2>5. /\ \A s \in Requests \ {r} : list'[s] = list[s] /\ token'[s] = token[s]
        /\ \/ Kept /\ list'[r] = listed[u]
           \/ Lapse
        /\ token'[r] = <<u, now>>
    BY <1>3, <2>4 DEF ReadList, Sets, AuthTypeOK
  <2>6. reqs[r].at \notin BusyStages /\ Enter(r, u) /\ UNCHANGED <<live, listed>>
    BY <1>3, <2>4 DEF ReadList, BusyStages
  <2>7. token'[r] \in TokensOf(u)
    BY <2>5 DEF TokensOf, AuthTypeOK
  <2> QED
    BY <1>0, <2>3, <2>4, <2>5, <2>6, <2>7, ListRead
<1>4. ASSUME NEW r \in Requests, Evict(r)
      PROVE  SessionsInv'
  <2>1. list[r] # <<>>
    BY <1>0, <1>4 DEF Evict
  <2> QED
    BY <1>4, <2>1, <1>head DEF Evict, Sets
<1>5. ASSUME NEW r \in Requests, WriteList(r)
      PROVE  SessionsInv'
  <2> DEFINE l == Append(list[r], token[r])
  <2>1. reqs[r].user \in Users /\ token[r] \in Tokens /\ token[r] \in TokensOf(reqs[r].user)
    BY <1>5 DEF WriteList, UsersTyped, Fits, SessionsInv, OwnTokens
  <2>2. Move(r, "written") /\ "written" \in Stages \ {"inserting", "stating"}
    BY <1>5 DEF WriteList, Stages
  <2>3. /\ reqs'[r].at = "written" /\ reqs'[r].user = reqs[r].user
        /\ \A s \in Requests \ {r} : reqs'[s] = reqs[s]
    BY <2>1, <2>2, Moved
  <2>4. /\ l \in Seq(Tokens) /\ Ran(list[r]) \subseteq Ran(l) /\ token[r] \in Ran(l)
        /\ Len(l) = Len(list[r]) + 1 /\ Len(list[r]) \in Nat
    BY <1>0, <2>1, RanAppend
  <2>5. Len(l) <= MaxSessions
    BY <1>0, <1>5, <2>4 DEF WriteList
  <2>6. lapses = 0 /\ reqs[r].user \notin raced
          => live \cap TokensOf(reqs[r].user) \subseteq Ran(l)
    BY <1>5, <2>4 DEF WriteList, SessionsInv, CopiesCover
  <2>7. /\ \A s \in Requests \ {r} : list'[s] = list[s]
        /\ \/ Kept /\ listed' = [listed EXCEPT ![reqs[r].user] = l]
           \/ Lapse
        /\ UNCHANGED <<live, token, raced>> /\ reqs[r].at \in BusyStages
    BY <1>5 DEF WriteList, Sets, AuthTypeOK, BusyStages
  <2> HIDE DEF l
  <2> QED
    BY <2>1, <2>3, <2>4, <2>5, <2>6, <2>7, ListReplaced
<1>6. ASSUME NEW r \in Requests, WriteToken(r)
      PROVE  SessionsInv'
  <2>1. Goes(r, Over) /\ Over.at = "done"
    BY <1>6 DEF WriteToken, Over
  <2>2. reqs'[r].at = "done" /\ \A s \in Requests \ {r} : reqs'[s] = reqs[s]
    BY <2>1, RequestBegun, RequestGoes DEF UsersTyped
  <2>3. \A s \in Requests \ {r} : token'[s] = token[s]
    BY <1>6 DEF WriteToken, Sets, AuthTypeOK
  <2> QED
    BY <1>6, <2>2, <2>3, TokenWritten DEF WriteToken
<1>7. ASSUME NEW r \in Requests, DropToken(r)
      PROVE  SessionsInv'
  BY <1>7, <1>head DEF DropToken, Sets
<1>8. ASSUME NEW r \in Requests, DropList(r)
      PROVE  SessionsInv'
  <2>1. Goes(r, Over) /\ Over.at = "done"
    BY <1>8 DEF DropList, Over
  <2>2. reqs'[r].at = "done" /\ \A s \in Requests \ {r} : reqs'[s] = reqs[s]
    BY <2>1, RequestBegun, RequestGoes DEF UsersTyped
  <2>3. lapses = 0 /\ reqs[r].user \notin raced
          => live \cap TokensOf(reqs[r].user) \subseteq Ran(<<>>)
    <3>1. reqs[r].at = "leaving" /\ list[r] = <<>>
      BY <1>8 DEF DropList
    <3> QED
      BY <3>1 DEF SessionsInv, CopiesCover
  <2>4. <<>> \in Seq(Tokens) /\ Len(<<>>) <= MaxSessions
    BY <1>0
  <2>5. /\ \/ Kept /\ listed' = [listed EXCEPT ![reqs[r].user] = <<>>]
           \/ Lapse
        /\ UNCHANGED <<live, list, token, raced>> /\ reqs[r].at \in BusyStages
    BY <1>8 DEF DropList, BusyStages
  <2> QED
    BY <2>2, <2>3, <2>4, <2>5, ListReplaced
<1>9. ASSUME NEW r \in Requests, Answer(r)
      PROVE  SessionsInv'
  <2>1. Goes(r, Over) /\ Over.at = "done"
    BY <1>9 DEF Answer, Over
  <2>2. reqs'[r].at = "done" /\ \A s \in Requests \ {r} : reqs'[s] = reqs[s]
    BY <2>1, RequestBegun, RequestGoes DEF UsersTyped
  <2>3. \A s \in Requests \ {r} : token'[s] = token[s]
    BY <1>9 DEF Answer, Sets, AuthTypeOK
  <2> QED
    BY <1>9, <2>2, <2>3, SessionsStand DEF Answer, BusyStages
<1>10. ASSUME NEW r \in Requests, NEW t \in live, Refresh(r, t)
       PROVE  SessionsInv'
  <2>1. t[1] \in Users
    BY DEF AuthTypeOK, Tokens
  <2> DEFINE q == [Unused EXCEPT !.at = "refreshing", !.user = t[1]]
  <2>2. q \in Request /\ Fits(q) /\ q.at = "refreshing"
    BY <2>1, RequestOf DEF Stages
  <2>3. Goes(r, q)
    BY <1>10 DEF Refresh
  <2> HIDE DEF q
  <2>4. reqs'[r].at = "refreshing" /\ \A s \in Requests \ {r} : reqs'[s] = reqs[s]
    BY <2>2, <2>3, RequestGoes DEF UsersTyped
  <2>5. \A s \in Requests \ {r} : token'[s] = token[s]
    BY <1>10 DEF Refresh, Sets, AuthTypeOK
  <2> QED
    BY <1>10, <2>4, <2>5, SessionsStand DEF Refresh, BusyStages
<1>11. ASSUME NEW u \in Users, ExpireList(u)
       PROVE  SessionsInv'
  <2>1. /\ live \cap TokensOf(u) = {} /\ ~Busy(u)
        /\ listed'[u] = <<>> /\ \A v \in Users \ {u} : listed'[v] = listed[v]
        /\ UNCHANGED <<reqs, live, list, token, lapses, raced>>
    BY <1>11 DEF ExpireList, AuthTypeOK
  <2>2. Alone' /\ OwnTokens'
    BY <2>1 DEF SessionsInv, Alone, OwnTokens
  <2>3. ASSUME lapses = 0 PROVE Accounted'
    <3>1. Len(<<>>) <= MaxSessions
      BY <1>0
    <3> QED
      BY <2>1, <2>3, <3>1 DEF SessionsInv, Accounted, InList
  <2>4. ASSUME lapses = 0 PROVE CopiesCover'
    <3>1. \A s \in Requests : reqs[s].at = "written" => reqs[s].user \in Users \ {u}
      BY <2>1 DEF Busy, UsersTyped, Fits
    <3> QED
      BY <2>1, <2>4, <3>1 DEF SessionsInv, CopiesCover, InList
  <2> QED
    BY <2>1, <2>2, <2>3, <2>4 DEF SessionsInv
<1>12. CASE Second \/ ExpireToken
  BY <1>12, SessionsStand DEF Second, ExpireToken
<1> QED
  BY <1>1, <1>2, <1>3, <1>4, <1>5, <1>6, <1>7, <1>8, <1>9, <1>10, <1>11, <1>12
     DEF AuthNext

-----------------------------------------------------------------------------
\* The uploads: the types.

LEMMA ProgressTyped ==
  ASSUME NEW s \in Status, NEW g \in Nat, NEW b \in Nat
  PROVE  /\ Progress(s, g, b) \in Job
         /\ Progress(s, g, b).status = s /\ Progress(s, g, b).success = g
         /\ Progress(s, g, b).failed = b /\ Progress(s, g, b).processed = g + b
BY DEF Progress, Job

LEMMA NoJobTyped == NoJob \in Job
BY DEF NoJob, Job, Status

LEMMA ReportTyped ==
  ASSUME {job, snapshot, seen} \subseteq Job, NEW p \in Job, Report(p)
  PROVE  {job, snapshot, seen}' \subseteq Job
BY NoJobTyped DEF Report

LEMMA JobFailed ==
  ASSUME NEW j \in Job
  PROVE  /\ [j EXCEPT !.status = "failed"] \in Job
         /\ [j EXCEPT !.status = "failed"].status = "failed"
         /\ [j EXCEPT !.status = "failed"].processed = j.processed
         /\ [j EXCEPT !.status = "failed"].success = j.success
         /\ [j EXCEPT !.status = "failed"].failed = j.failed
BY DEF Job, Status

LEMMA RowForm ==
  ASSUME NEW f \in Form
  PROVE  /\ f.email \in Emails \cup {NoEmail} /\ f.phone \in Phones \cup {NoPhone}
         /\ Lower[f.email] \in Emails \cup {NoEmail}
BY AccountsAssumption DEF Form

LEMMA DocumentOfRowTyped ==
  ASSUME NEW f \in Form
  PROVE  DocumentOfRow(f) \in User /\ DocumentOfRow(f).reg # "none"
<1>1. /\ UserOfRow(f) \in User /\ UserOfRow(f).reg # "none"
      /\ ManagerOfRow(f) \in User /\ ManagerOfRow(f).reg # "none"
  BY RowForm, NewUserTyped DEF UserOfRow, ManagerOfRow, Roles, Registrations
<1> QED
  BY <1>1 DEF DocumentOfRow

LEMMA UploadStep ==
  ASSUME UsersTyped, UploadTypeOK, UploadNext
  PROVE  UsersTyped' /\ UploadTypeOK' /\ NobodyForgotten /\ UNCHANGED reqs
<1> USE DEF UploadTypeOK
<1>0. UNCHANGED <<users, reqs, load>> => UsersTyped' /\ NobodyForgotten
  BY DEF UsersTyped, NobodyForgotten, Known
<1>1. ASSUME NEW o \in UploadOps, NEW f \in Files, StartJob(o, f)
      PROVE  UsersTyped' /\ UploadTypeOK' /\ NobodyForgotten /\ UNCHANGED reqs
  <2>1. load' \in 0..MaxLoad
    BY <1>1, UploadAssumption, AccountsAssumption DEF StartJob, UsersTyped
  <2>2. f \in [Row -> Form]
    BY UploadAssumption, FormTyped
  <2>3. {job, snapshot, seen}' \subseteq Job
    BY <1>1, ProgressTyped, ReportTyped DEF StartJob, Status
  <2>4. UsersTyped' /\ NobodyForgotten
    BY <1>1, <2>1 DEF StartJob, UsersTyped, NobodyForgotten, Known
  <2> QED
    BY <1>1, <2>2, <2>3, <2>4 DEF StartJob
<1>2. CASE RunJob
  <2>1. {job, snapshot, seen}' \subseteq Job
    BY <1>2, ProgressTyped, ReportTyped DEF RunJob, Status
  <2> QED
    BY <1>0, <1>2, <2>1 DEF RunJob
<1>3. CASE JobFails
  <2>1. {job, snapshot, seen}' \subseteq Job
    <3>1. PICK p \in Job : Report(p)
      BY <1>3, JobFailed DEF JobFails
    <3> QED
      BY <3>1, ReportTyped
  <2> QED
    BY <1>0, <1>3, <2>1 DEF JobFails
<1>4. CASE CompleteJob
  <2>1. {job, snapshot, seen}' \subseteq Job
    BY <1>4, ProgressTyped, ReportTyped DEF CompleteJob, Status
  <2> QED
    BY <1>0, <1>4, <2>1 DEF CompleteJob
<1>5. CASE ForgetJob
  BY <1>0, <1>5, NoJobTyped DEF ForgetJob
<1>6. ASSUME NEW i \in Row, RowFails(i)
      PROVE  /\ {job, snapshot, seen}' \subseteq Job
             /\ row' \in [Row -> RowStage] /\ good' \in Nat /\ bad' \in Nat
             /\ made' \subseteq Users
  <2>1. bad + 1 \in Nat
    OBVIOUS
  <2>2. {job, snapshot, seen}' \subseteq Job
    BY <1>6, <2>1, ProgressTyped, ReportTyped DEF RowFails, Status
  <2> QED
    BY <1>6, <2>2 DEF RowFails, RowStage
<1>7. ASSUME NEW i \in Row, LookRow(i)
      PROVE  UsersTyped' /\ UploadTypeOK' /\ NobodyForgotten /\ UNCHANGED reqs
  <2>1. CASE RowFails(i)
    <3>1. UNCHANGED <<users, reqs, load>>
      BY <1>7, <2>1 DEF LookRow, RowFails
    <3> QED
      BY <1>0, <1>6, <1>7, <2>1, <3>1 DEF LookRow
  <2>2. CASE ~RowFails(i)
    BY <1>0, <1>7, <2>2 DEF LookRow, RowStage
  <2> QED
    BY <2>1, <2>2
<1>8. ASSUME NEW i \in Row, MailRow(i)
      PROVE  UsersTyped' /\ UploadTypeOK' /\ NobodyForgotten /\ UNCHANGED reqs
  <2>1. good + 1 \in Nat
    OBVIOUS
  <2>2. {job, snapshot, seen}' \subseteq Job
    BY <1>8, <2>1, ProgressTyped, ReportTyped DEF MailRow, Status
  <2> QED
    BY <1>0, <1>8, <2>2 DEF MailRow, RowStage
<1>9. ASSUME NEW i \in Row, NEW u \in Users, CreateRow(i, u)
      PROVE  UsersTyped' /\ UploadTypeOK' /\ NobodyForgotten /\ UNCHANGED reqs
  <2>1. CASE RowFails(i)
    <3>1. UNCHANGED <<users, reqs, load>>
      BY <1>9, <2>1 DEF CreateRow, RowFails
    <3> QED
      BY <1>0, <1>6, <1>9, <2>1, <3>1 DEF CreateRow
  <2>2. CASE ~RowFails(i)
    <3> DEFINE d == DocumentOfRow(file[i])
    <3>1. d \in User /\ d.reg # "none"
      BY DocumentOfRowTyped
    <3>2. users' = [users EXCEPT ![u] = d]
      BY <1>9, <2>2 DEF CreateRow, Inserts
    <3>3. UNCHANGED <<reqs, load>>
      BY <1>9 DEF CreateRow
    <3> HIDE DEF d
    <3>4. UsersTyped' /\ NobodyForgotten
      BY <3>1, <3>2, <3>3, UserWritten DEF UsersTyped
    <3>5. UploadTypeOK'
      BY <1>9, <2>2 DEF CreateRow, RowStage
    <3> QED
      BY <3>3, <3>4, <3>5
  <2> QED
    BY <2>1, <2>2
<1>10. CASE Subscribe
  BY <1>0, <1>10 DEF Subscribe
<1>11. CASE Unsubscribe
  BY <1>0, <1>11, NoJobTyped DEF Unsubscribe
<1> QED
  BY <1>1, <1>2, <1>3, <1>4, <1>5, <1>7, <1>8, <1>9, <1>10, <1>11 DEF UploadNext

-----------------------------------------------------------------------------
\* The uploads: what the reports count.

Settled == {i \in Row : row[i] = "settled"}
Mailing == {i \in Row : row[i] = "mailing"}

\* The users of the rows are users still.
MadeKnown == \A u \in made : Known(u)

\* A row that has ended has been counted once, a user belongs to a row that has
\* succeeded or is about to.
Tally ==
  /\ Cardinality(Settled) = good + bad
  /\ Cardinality(made) = good + Cardinality(Mailing)

\* A report was true of the counters, and they only grow.
TrueOf(p, S, g, b) ==
  /\ p.success + p.failed = p.processed
  /\ p.success <= g /\ p.processed <= g + b
  /\ p.status = "completed" =>
       S = Row /\ p.processed = Rows /\ p.success = g

UploadInv == MadeKnown /\ Tally /\ \A p \in {job, snapshot, seen} : TrueOf(p, Settled, good, bad)

LEMMA RowsFinite ==
  /\ IsFiniteSet(Row) /\ Cardinality(Row) = Rows
  /\ \A S \in SUBSET Row : IsFiniteSet(S) /\ Cardinality(S) \in Nat
<1>1. IsFiniteSet(Row) /\ Cardinality(Row) = Rows
  BY UploadAssumption, FS_Interval DEF Row
<1> QED
  BY <1>1, FS_Subset, FS_CardinalityType

LEMMA RowSettles ==
  ASSUME UploadTypeOK, NEW i \in Row, row[i] # "settled",
         row' = [row EXCEPT ![i] = "settled"]
  PROVE  /\ Cardinality(Settled') = Cardinality(Settled) + 1
         /\ row[i] # "mailing" => Mailing' = Mailing
         /\ row[i] = "mailing" => Cardinality(Mailing') = Cardinality(Mailing) - 1
<1>1. Settled' = Settled \cup {i} /\ i \notin Settled
  BY DEF Settled, UploadTypeOK
<1>2. IsFiniteSet(Settled) /\ IsFiniteSet(Mailing)
  BY RowsFinite DEF Settled, Mailing
<1>3. Cardinality(Settled') = Cardinality(Settled) + 1
  BY <1>1, <1>2, FS_AddElement
<1>4. row[i] # "mailing" => Mailing' = Mailing
  BY DEF Mailing, UploadTypeOK
<1>5. ASSUME row[i] = "mailing"
      PROVE  Cardinality(Mailing') = Cardinality(Mailing) - 1
  <2>1. Mailing' = Mailing \ {i} /\ i \in Mailing
    BY <1>5 DEF Mailing, UploadTypeOK
  <2> QED
    BY <1>2, <2>1, FS_RemoveElement
<1> QED
  BY <1>3, <1>4, <1>5

LEMMA RowInserts ==
  ASSUME UploadTypeOK, NEW i \in Row, row[i] = "waiting",
         row' = [row EXCEPT ![i] = "inserting"]
  PROVE  Settled' = Settled /\ Mailing' = Mailing
BY DEF Settled, Mailing, UploadTypeOK

LEMMA RowMails ==
  ASSUME UploadTypeOK, NEW i \in Row, row[i] = "inserting",
         row' = [row EXCEPT ![i] = "mailing"]
  PROVE  Settled' = Settled /\ Cardinality(Mailing') = Cardinality(Mailing) + 1
<1>1. Settled' = Settled
  BY DEF Settled, UploadTypeOK
<1>2. Mailing' = Mailing \cup {i} /\ i \notin Mailing
  BY DEF Mailing, UploadTypeOK
<1>3. IsFiniteSet(Mailing)
  BY RowsFinite DEF Mailing
<1> QED
  BY <1>1, <1>2, <1>3, FS_AddElement

LEMMA NothingIsTrue ==
  ASSUME NEW S, NEW g \in Nat, NEW b \in Nat
  PROVE  TrueOf(NoJob, S, g, b)
BY DEF TrueOf, NoJob

LEMMA ProgressIsTrue ==
  ASSUME NEW S, NEW g \in Nat, NEW b \in Nat,
         NEW s \in Status, NEW x \in 0..g, NEW y \in 0..b,
         s = "completed" => S = Row /\ x = g /\ x + y = Rows
  PROVE  TrueOf(Progress(s, x, y), S, g, b)
<1> DEFINE p == Progress(s, x, y)
<1>1. p.status = s /\ p.success = x /\ p.failed = y /\ p.processed = x + y
  BY ProgressTyped
<1> HIDE DEF p
<1>2. TrueOf(p, S, g, b)
  BY <1>1 DEF TrueOf
<1> QED
  BY <1>2 DEF p

\* A new report replaces the old ones, or nobody is told.
LEMMA Reported ==
  ASSUME good' \in Nat, bad' \in Nat, NEW p, Report(p), TrueOf(p, Settled', good', bad')
  PROVE  \A q \in {job, snapshot, seen}' : TrueOf(q, Settled', good', bad')
BY NothingIsTrue DEF Report

\* The reports of before stay true as the counters grow, one row after another.
LEMMA Outdated ==
  ASSUME UploadTypeOK, UploadInv, NEW i \in Row, row[i] # "settled",
         good' \in Nat, bad' \in Nat, good' >= good, bad' >= bad,
         NEW p \in {job, snapshot, seen}
  PROVE  TrueOf(p, Settled', good', bad')
<1>1. p \in Job /\ TrueOf(p, Settled, good, bad)
  BY DEF UploadTypeOK, UploadInv
<1>2. p.status # "completed"
  BY <1>1 DEF TrueOf, Settled
<1> QED
  BY <1>1, <1>2 DEF TrueOf, Job, UploadTypeOK

LEMMA ProgressReported ==
  ASSUME good' \in Nat, bad' \in Nat,
         NEW s \in Status, NEW x \in 0..good', NEW y \in 0..bad',
         s = "completed" => Settled' = Row /\ x = good' /\ x + y = Rows,
         Report(Progress(s, x, y))
  PROVE  \A q \in {job, snapshot, seen}' : TrueOf(q, Settled', good', bad')
BY ProgressIsTrue, Reported

\* Other requests, logins and the cleanup do nothing a report depends on.
LEMMA ReportsStand ==
  ASSUME UploadTypeOK, UploadInv, NobodyForgotten, UNCHANGED jobVars
  PROVE  UploadTypeOK' /\ UploadInv'
<1>1. UploadTypeOK'
  BY DEF jobVars, UploadTypeOK
<1>2. MadeKnown'
  BY DEF UploadInv, MadeKnown, NobodyForgotten, UploadTypeOK, jobVars
<1>3. Tally' /\ \A p \in {job, snapshot, seen}' : TrueOf(p, Settled', good', bad')
  BY DEF UploadInv, Tally, TrueOf, Settled, Mailing, jobVars
<1> QED
  BY <1>1, <1>2, <1>3 DEF UploadInv

LEMMA UploadReports ==
  ASSUME UsersTyped, UploadTypeOK, UploadInv, UploadNext
  PROVE  UploadInv'
<1> USE DEF UploadTypeOK
<1>0. MadeKnown /\ Tally /\ \A p \in {job, snapshot, seen} : TrueOf(p, Settled, good, bad)
  BY DEF UploadInv
<1>1. UploadTypeOK' /\ NobodyForgotten
  BY UploadStep
<1>2. good' \in Nat /\ bad' \in Nat
  BY <1>1
<1>3. made' = made => MadeKnown'
  BY <1>0, <1>1 DEF MadeKnown, NobodyForgotten
<1>4. UNCHANGED <<row, good, bad, made>> => MadeKnown' /\ Tally'
  BY <1>0, <1>3 DEF Tally, Settled, Mailing
<1>5. UNCHANGED <<row, good, bad>> => \A p \in {job, snapshot, seen} : TrueOf(p, Settled', good', bad')
  BY <1>0 DEF TrueOf, Settled
<1>6. ASSUME NEW o \in UploadOps, NEW f \in Files, StartJob(o, f)
      PROVE  UploadInv'
  <2>1. \A q \in {job, snapshot, seen}' : TrueOf(q, Settled', good', bad')
    BY <1>2, <1>6, ProgressReported DEF StartJob, Status
  <2> QED
    BY <1>4, <1>6, <2>1 DEF StartJob, UploadInv
<1>7. CASE RunJob
  <2>1. \A q \in {job, snapshot, seen}' : TrueOf(q, Settled', good', bad')
    BY <1>2, <1>7, ProgressReported DEF RunJob, Status
  <2> QED
    BY <1>4, <1>7, <2>1 DEF RunJob, UploadInv
<1>8. CASE JobFails
  <2>1. PICK p \in Job : /\ p.status = "failed" /\ p.processed = job.processed
                         /\ p.success = job.success /\ p.failed = job.failed
                         /\ Report(p)
    BY <1>8, JobFailed DEF JobFails
  <2>2. TrueOf(p, Settled', good', bad')
    BY <1>0, <1>8, <2>1 DEF JobFails, TrueOf, Settled
  <2>3. \A q \in {job, snapshot, seen}' : TrueOf(q, Settled', good', bad')
    BY <1>2, <2>1, <2>2, Reported
  <2> QED
    BY <1>4, <1>8, <2>3 DEF JobFails, UploadInv
<1>9. CASE CompleteJob
  <2>1. Settled = Row /\ good + bad = Rows
    BY <1>0, <1>9, RowsFinite DEF CompleteJob, Settled, Tally
  <2>2. Settled' = Row
    BY <1>9, <2>1 DEF CompleteJob, Settled
  <2>3. \A q \in {job, snapshot, seen}' : TrueOf(q, Settled', good', bad')
    BY <1>2, <1>9, <2>1, <2>2, ProgressReported DEF CompleteJob, Status
  <2> QED
    BY <1>4, <1>9, <2>3 DEF CompleteJob, UploadInv
<1>10. CASE ForgetJob
  <2>1. \A q \in {job, snapshot, seen}' : TrueOf(q, Settled', good', bad')
    BY <1>2, <1>5, <1>10, NothingIsTrue DEF ForgetJob
  <2> QED
    BY <1>4, <1>10, <2>1 DEF ForgetJob, UploadInv
<1>11. CASE Subscribe
  <2>1. \A q \in {job, snapshot, seen}' : TrueOf(q, Settled', good', bad')
    BY <1>5, <1>11 DEF Subscribe
  <2> QED
    BY <1>4, <1>11, <2>1 DEF Subscribe, UploadInv
<1>12. CASE Unsubscribe
  <2>1. \A q \in {job, snapshot, seen}' : TrueOf(q, Settled', good', bad')
    BY <1>2, <1>5, <1>12, NothingIsTrue DEF Unsubscribe
  <2> QED
    BY <1>4, <1>12, <2>1 DEF Unsubscribe, UploadInv
<1>13. ASSUME NEW i \in Row, row[i] \in {"waiting", "inserting"}, RowFails(i)
       PROVE  UploadInv'
  <2>1. good' = good /\ bad' = bad + 1
    BY <1>13 DEF RowFails
  <2>2. Cardinality(Settled') = Cardinality(Settled) + 1 /\ Mailing' = Mailing
    BY <1>13, RowSettles DEF RowFails
  <2>3. Tally'
    BY <1>0, <1>13, <2>1, <2>2 DEF RowFails, Tally
  <2>4. Report(Progress("running", good', bad'))
    BY <1>13 DEF RowFails
  <2>5. \A q \in {job, snapshot, seen}' : TrueOf(q, Settled', good', bad')
    BY <1>2, <2>4, ProgressReported DEF Status
  <2> QED
    BY <1>3, <1>13, <2>3, <2>5 DEF RowFails, UploadInv
<1>14. ASSUME NEW i \in Row, row[i] # "settled", UNCHANGED <<good, bad, job, snapshot, seen>>
       PROVE  \A q \in {job, snapshot, seen}' : TrueOf(q, Settled', good', bad')
  BY <1>14, Outdated DEF UploadInv
<1>15. ASSUME NEW i \in Row, LookRow(i)
       PROVE  UploadInv'
  <2>1. CASE RowFails(i)
    BY <1>13, <1>15, <2>1 DEF LookRow
  <2>2. CASE ~RowFails(i)
    <3>1. Settled' = Settled /\ Mailing' = Mailing
      BY <1>15, <2>2, RowInserts DEF LookRow
    <3>2. Tally'
      BY <1>0, <1>15, <2>2, <3>1 DEF LookRow, Tally
    <3>3. \A q \in {job, snapshot, seen}' : TrueOf(q, Settled', good', bad')
      BY <1>14, <1>15, <2>2 DEF LookRow
    <3> QED
      BY <1>3, <1>15, <2>2, <3>2, <3>3 DEF LookRow, UploadInv
  <2> QED
    BY <2>1, <2>2
<1>16. ASSUME NEW i \in Row, MailRow(i)
       PROVE  UploadInv'
  <2>1. good' = good + 1 /\ bad' = bad
    BY <1>16 DEF MailRow
  <2>2. /\ Cardinality(Settled') = Cardinality(Settled) + 1
        /\ Cardinality(Mailing') = Cardinality(Mailing) - 1
    BY <1>16, RowSettles DEF MailRow
  <2>3. Cardinality(Mailing) \in Nat
    BY RowsFinite DEF Mailing
  <2>4. Tally'
    BY <1>0, <1>16, <2>1, <2>2, <2>3 DEF MailRow, Tally
  <2>5. Report(Progress("running", good', bad'))
    BY <1>16 DEF MailRow
  <2>6. \A q \in {job, snapshot, seen}' : TrueOf(q, Settled', good', bad')
    BY <1>2, <2>5, ProgressReported DEF Status
  <2> QED
    BY <1>3, <1>16, <2>4, <2>6 DEF MailRow, UploadInv
<1>17. ASSUME NEW i \in Row, NEW u \in Users, CreateRow(i, u)
       PROVE  UploadInv'
  <2>1. CASE RowFails(i)
    BY <1>13, <1>17, <2>1 DEF CreateRow
  <2>2. CASE ~RowFails(i)
    <3>1. u \notin made
      BY <1>0, <1>17 DEF CreateRow, Fresh, Absent, MadeKnown, Known
    <3>2. made' = made \cup {u} /\ UNCHANGED <<good, bad, job, snapshot, seen>>
      BY <1>17, <2>2 DEF CreateRow
    <3>3. IsFiniteSet(made)
      <4>1. IsFiniteSet(Users)
        BY AccountsAssumption, FS_Interval DEF Users
      <4> QED
        BY <4>1, FS_Subset
    <3>4. Cardinality(made') = Cardinality(made) + 1
      BY <3>1, <3>2, <3>3, FS_AddElement
    <3>5. /\ Settled' = Settled
          /\ Cardinality(Mailing') = Cardinality(Mailing) + 1
      BY <1>17, <2>2, RowMails DEF CreateRow
    <3>6. Cardinality(Mailing) \in Nat
      BY RowsFinite DEF Mailing
    <3>7. Tally'
      BY <1>0, <3>2, <3>4, <3>5, <3>6 DEF Tally
    <3>8. MadeKnown'
      <4>1. users'[u] = DocumentOfRow(file[i])
        BY <1>17, <2>2 DEF CreateRow, Inserts, UsersTyped
      <4>2. Known(u)'
        BY <4>1, DocumentOfRowTyped DEF Known
      <4> QED
        BY <1>0, <1>1, <3>2, <4>2 DEF MadeKnown, NobodyForgotten
    <3>9. \A q \in {job, snapshot, seen}' : TrueOf(q, Settled', good', bad')
      BY <1>14, <1>17, <3>2 DEF CreateRow
    <3> QED
      BY <3>7, <3>8, <3>9 DEF UploadInv
  <2> QED
    BY <2>1, <2>2
<1> QED
  BY <1>6, <1>7, <1>8, <1>9, <1>10, <1>11, <1>12, <1>15, <1>16, <1>17 DEF UploadNext

LEMMA ReportsFollow ==
  ASSUME UploadTypeOK, UploadInv
  PROVE  ReportsTrue
<1> SUFFICES ASSUME NEW p \in {job, snapshot, seen}
             PROVE  /\ p.success <= Cardinality(made)
                    /\ p.success + p.failed = p.processed
                    /\ p.processed <= Cardinality(Settled)
                    /\ p.status = "completed" =>
                         p.processed = Rows /\ p.success = Cardinality(made)
  BY DEF ReportsTrue, Settled
<1>1. TrueOf(p, Settled, good, bad) /\ Tally /\ p \in Job
  BY DEF UploadInv, UploadTypeOK
<1>2. Cardinality(Mailing) \in Nat
  BY RowsFinite DEF Mailing
<1>3. Cardinality(made) = good + Cardinality(Mailing) /\ Cardinality(Settled) = good + bad
  BY <1>1 DEF Tally
<1>4. Settled = Row => Cardinality(Mailing) = 0
  <2>1. Settled = Row => Mailing = {}
    BY DEF Settled, Mailing
  <2> QED
    BY <2>1, FS_EmptySet
<1> QED
  BY <1>1, <1>2, <1>3, <1>4 DEF TrueOf, UploadTypeOK, Job

-----------------------------------------------------------------------------
\* All together.

Inv == UsersTyped /\ AuthTyped /\ SessionsInv /\ UploadTypeOK /\ UploadInv

LEMMA InvStart == ASSUME Init PROVE Inv
<1>1. UsersTyped
  BY UsersStart
<1>2. AuthTyped
  <2>1. AuthTypeOK
    BY SessionsAssumption DEF Init, AuthInit, AuthTypeOK
  <2>2. \A r \in Requests : reqs[r].at = "free"
    BY DEF Init, UsersInit, Unused
  <2> QED
    BY <2>1, <2>2 DEF AuthTyped
<1>3. UploadTypeOK
  <2>1. NoForm \in Form
    BY DEF NoForm, Form, Roles
  <2> QED
    BY <2>1, NoJobTyped DEF Init, UploadInit, UploadTypeOK, RowStage
<1>4. UploadInv
  <2>1. Settled = {} /\ Mailing = {} /\ made = {} /\ good = 0 /\ bad = 0
    BY DEF Init, UploadInit, Settled, Mailing
  <2>2. Tally
    BY <2>1, FS_EmptySet DEF Tally
  <2>3. TrueOf(NoJob, Settled, good, bad)
    BY <2>1 DEF TrueOf, NoJob
  <2> QED
    BY <2>1, <2>2, <2>3 DEF Init, UploadInit, UploadInv, MadeKnown
<1>5. SessionsInv
  <2>1. live = {} /\ \A r \in Requests : reqs[r].at = "free"
    BY DEF Init, UsersInit, AuthInit, Unused
  <2>2. \A u \in Users : Len(listed[u]) <= MaxSessions
    BY SessionsAssumption DEF Init, AuthInit
  <2> QED
    BY <2>1, <2>2
       DEF SessionsInv, Alone, OwnTokens, Accounted, CopiesCover, BusyStages
<1> QED
  BY <1>1, <1>2, <1>3, <1>4, <1>5 DEF Inv

\* Every step keeps the whole invariant.
LEMMA InvStep == ASSUME Inv, [Next]_vars PROVE Inv'
<1> USE DEF Inv
<1>0. UNCHANGED users => NobodyForgotten
  BY DEF NobodyForgotten, Known
<1>1. CASE UsersNext /\ UNCHANGED <<jobVars, authVars>>
  <2>1. UsersTyped' /\ NobodyForgotten
    BY <1>1, UsersStep
  <2>2. AuthTyped'
    BY <1>1, UsersElsewhere DEF AuthTyped, AuthTypeOK, authVars, BusyStages
  <2>3. SessionsInv'
    <3>1. UNCHANGED <<live, listed, list, token, lapses, raced>>
      BY <1>1 DEF authVars
    <3> QED
      BY <1>1, <3>1, UsersElsewhere, SessionsStand
  <2> QED
    BY <1>1, <2>1, <2>2, <2>3, ReportsStand
<1>2. CASE UploadNext /\ UNCHANGED authVars
  <2>1. UsersTyped' /\ UploadTypeOK' /\ UNCHANGED reqs
    BY <1>2, UploadStep
  <2>2. AuthTyped'
    BY <1>2, <2>1 DEF AuthTyped, AuthTypeOK, authVars
  <2>3. SessionsInv'
    <3>1. UNCHANGED <<live, listed, list, token, lapses, raced>>
      BY <1>2 DEF authVars
    <3> QED
      BY <2>1, <3>1, SessionsStand
  <2> QED
    BY <1>2, <2>1, <2>2, <2>3, UploadReports
<1>3. CASE AuthNext /\ UNCHANGED jobVars
  BY <1>0, <1>3, AuthStep, SessionsStep, ReportsStand
<1>4. CASE UNCHANGED vars
  <2>1. UsersTyped' /\ AuthTyped'
    BY <1>4 DEF vars, authVars, UsersTyped, AuthTyped, AuthTypeOK
  <2>2. SessionsInv'
    <3>1. UNCHANGED <<reqs, live, listed, list, token, lapses, raced>>
      BY <1>4 DEF vars, authVars
    <3> QED
      BY <3>1, SessionsStand
  <2> QED
    BY <1>0, <1>4, <2>1, <2>2, ReportsStand DEF vars
<1> QED
  BY <1>1, <1>2, <1>3, <1>4 DEF Next

\* The documents, the requests, the uploads and the session lists have their
\* types, so no request acts on a user that was never stored and no token is
\* written that was not signed (users.service.ts, auth.service.ts).
THEOREM AccountsTypeCorrect == Spec => []TypeOK
<1>1. Inv => TypeOK
  BY DEF Inv, UsersTyped, AuthTyped, TypeOK
<1>2. Inv /\ [Next]_vars => Inv'
  BY InvStep
<1> QED
  BY <1>1, <1>2, InvStart, PTL DEF Spec

\* However many rows, batches, requests and collisions there are: a progress
\* report of an upload never claims a user no row has made, counts every row
\* once, and a completed one accounts for all rows and all users.
THEOREM UploadReportsTrue == Spec => []ReportsTrue
<1>1. Inv => ReportsTrue
  BY ReportsFollow DEF Inv
<1>2. Inv /\ [Next]_vars => Inv'
  BY InvStep
<1> QED
  BY <1>1, <1>2, InvStart, PTL DEF Spec

\* However many logins, logouts, refreshes, removals and uploads run, and
\* however long the lists: as long as no cache operation has failed and no two
\* logins or logouts of a user have overlapped, every refresh token of the
\* user that works is in the session list, and the list keeps its limit.
THEOREM AllSessionsAccounted == Spec => []SessionsAccounted
<1>1. Inv => SessionsAccounted
  BY DEF Inv, SessionsInv, Accounted, SessionsAccounted
<1>2. Inv /\ [Next]_vars => Inv'
  BY InvStep
<1> QED
  BY <1>1, <1>2, InvStart, PTL DEF Spec
-----------------------------------------------------------------------------
\* The end of a logout.

\* None of the other requests ends a logout ...
LEMMA UsersPassLogout ==
  ASSUME UsersTyped, UsersNext, NEW s \in Requests, reqs[s].at = "leaving"
  PROVE  reqs'[s] = reqs[s]
<1>1. ASSUME NEW r \in Requests, reqs[r].at # "leaving", NEW q, Goes(r, q)
      PROVE  reqs'[s] = reqs[s]
  BY <1>1 DEF Goes, UsersTyped
<1>2. ASSUME NEW r \in Requests, NEW o \in CreateOps, NEW f \in Forms, Ask(r, o, f)
      PROVE  reqs'[s] = reqs[s]
  <2>1. reqs[r].at = "free" /\ \E q : Goes(r, q)
    BY <1>2 DEF Ask, Begins
  <2> QED  BY <1>1, <2>1
<1>3. ASSUME NEW r \in Requests, AskFails(r) \/ \E u \in Users : Insert(r, u)
      PROVE  reqs'[s] = reqs[s]
  <2>1. reqs[r].at = "inserting" /\ \E q : Goes(r, q)
    BY <1>3 DEF AskFails, Insert
  <2> QED  BY <1>1, <2>1
<1>4. ASSUME NEW r \in Requests, NEW u \in Users, NEW c \in Changes,
             AskUpdate(r, u, c)
      PROVE  reqs'[s] = reqs[s]
  <2>1. reqs[r].at = "free" /\ \E q : Goes(r, q)
    BY <1>4, Zenon DEF AskUpdate, Begins
  <2> QED  BY <1>1, <2>1
<1>5. ASSUME NEW r \in Requests, WriteUpdate(r) \/ WriteStatus(r) \/ Erase(r)
      PROVE  reqs'[s] = reqs[s]
  <2>1. reqs[r].at \in {"updating", "stating", "removing"} /\ Goes(r, Over)
    BY <1>5, Zenon DEF WriteUpdate, WriteStatus, Erase
  <2> QED  BY <1>1, <2>1
<1>6. ASSUME NEW r \in Requests, NEW u \in Users,
             AskRemove(r, u) \/ \E g \in Registrations : AskStatus(r, u, g)
      PROVE  reqs'[s] = reqs[s]
  <2>1. reqs[r].at = "free" /\ \E q : Goes(r, q)
    BY <1>6, Zenon DEF AskRemove, AskStatus, Begins
  <2> QED  BY <1>1, <2>1
<1>7. CASE CancelInvitations
  BY <1>7 DEF CancelInvitations
<1> QED
  BY <1>2, <1>3, <1>4, <1>5, <1>6, <1>7 DEF UsersNext

\* ... and of its own steps only the deletion of the list does.
LEMMA LogoutEnds ==
  ASSUME UsersTyped, AuthNext, NEW s \in Requests,
         reqs[s].at = "leaving", reqs'[s].at # "leaving"
  PROVE  DropList(s)
<1>1. ASSUME NEW r \in Requests, reqs[r].at # "leaving",
             \/ \E q : Goes(r, q)
             \/ \E t : Move(r, t)
      PROVE  FALSE
  BY <1>1 DEF Goes, Move, UsersTyped
<1>2. reqs' # reqs
  OBVIOUS
<1>3. ASSUME NEW r \in Requests, NEW u \in Users, Validate(r, u) \/ Logout(r, u)
      PROVE  FALSE
  <2>1. reqs[r].at = "free" /\ \E q : Goes(r, q)
    BY <1>3, Zenon DEF Validate, Logout, Begins
  <2> QED  BY <1>1, <2>1
<1>4. ASSUME NEW r \in Requests, ReadList(r) \/ WriteList(r)
      PROVE  FALSE
  <2>1. reqs[r].at \in {"login", "listed"} /\ \E t : Move(r, t)
    BY <1>4, Zenon DEF ReadList, WriteList
  <2> QED  BY <1>1, <2>1
<1>5. ASSUME NEW r \in Requests, WriteToken(r) \/ Answer(r)
      PROVE  FALSE
  <2>1. reqs[r].at \in {"written", "refreshing"} /\ Goes(r, Over)
    BY <1>5, Zenon DEF WriteToken, Answer
  <2> QED  BY <1>1, <2>1
<1>6. ASSUME NEW r \in Requests, NEW t \in live, Refresh(r, t)
      PROVE  FALSE
  <2>1. reqs[r].at = "free" /\ \E q : Goes(r, q)
    BY <1>6, Zenon DEF Refresh, Begins
  <2> QED  BY <1>1, <2>1
<1>7. ASSUME NEW r \in Requests, Evict(r) \/ DropToken(r)
      PROVE  FALSE
  BY <1>2, <1>7 DEF Evict, DropToken
<1>8. ~Second /\ ~ExpireToken /\ \A u \in Users : ~ExpireList(u)
  BY <1>2 DEF Second, ExpireToken, ExpireList
<1>9. PICK r \in Requests : DropList(r)
  BY <1>3, <1>4, <1>5, <1>6, <1>7, <1>8 DEF AuthNext
<1>10. r = s
  BY <1>9 DEF DropList, Goes, UsersTyped
<1> QED
  BY <1>9, <1>10

\* However many requests run between the steps of a logout, and however long
\* its list: when it ends, no refresh token of the user works any more, unless
\* a cache operation failed or logins and logouts of the user overlapped.
THEOREM LogoutsEndAll == Spec => LogoutEndsAll
<1> DEFINE Ends == \A r \in Requests :
                     /\ reqs[r].at = "leaving" /\ reqs'[r].at # "leaving"
                     /\ lapses' = 0 /\ reqs[r].user \notin raced
                     => live' \cap TokensOf(reqs[r].user) = {}
<1>1. ASSUME Inv, [Next]_vars
      PROVE  [Ends]_<<reqs, authVars>>
  <2> SUFFICES ASSUME NEW r \in Requests,
                      reqs[r].at = "leaving", reqs'[r].at # "leaving",
                      lapses' = 0, reqs[r].user \notin raced
               PROVE  live' \cap TokensOf(reqs[r].user) = {}
    OBVIOUS
  <2>1. AuthNext
    <3>1. UsersNext => reqs'[r] = reqs[r]
      BY <1>1, UsersPassLogout DEF Inv
    <3>2. UploadNext => UNCHANGED reqs
      BY <1>1, UploadStep DEF Inv
    <3> QED
      BY <1>1, <3>1, <3>2 DEF Next, vars
  <2>2. DropList(r)
    BY <1>1, <2>1, LogoutEnds DEF Inv
  <2>3. lapses = 0
    BY <1>1, <2>2 DEF DropList, Kept, Lapse, Inv, AuthTyped, AuthTypeOK
  <2>4. live \cap TokensOf(reqs[r].user) \subseteq Ran(<<>>)
    BY <1>1, <2>2, <2>3 DEF DropList, Inv, SessionsInv, CopiesCover
  <2>5. Ran(<<>>) = {}
    BY DEF Ran
  <2> QED
    BY <2>2, <2>4, <2>5 DEF DropList
<1>2. Inv /\ [Next]_vars => Inv'
  BY InvStep
<1> QED
  BY <1>1, <1>2, InvStart, PTL DEF Spec, LogoutEndsAll
=============================================================================
