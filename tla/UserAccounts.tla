---------------------------- MODULE UserAccounts ----------------------------
(***************************************************************************)
(* The users collection and the requests of UsersService and AuthService   *)
(* that create, change and erase users.  Every such request looks first    *)
(* and writes several awaits later; only the two unique indexes of         *)
(* user.schema.ts stand between two requests that looked at the same time. *)
(* BulkUpload and AuthSessions extend this module, Accounts composes them. *)
(***************************************************************************)
EXTENDS Integers, FiniteSets

CONSTANTS MaxUsers,   \* bound: documents in the users collection
          Requests,   \* identities of the API requests
          MaxLoad,    \* bound: requests in one behaviour, each row of a batch counts
          Emails, NoEmail,
          Lower,      \* toLowerCase().trim() on the addresses
          Phones, NoPhone,
          Forms,      \* what a new user may be asked for with
          Changes     \* what an update may ask for

Users == 1..MaxUsers
Roles == {"SystemAdmin", "TenantAdmin", "User"}
Registrations == {"pending", "invited", "registered", "cancelled"}
Form == [email : Emails \cup {NoEmail}, phone : Phones \cup {NoPhone},
         role : Roles \cup {"none"}]

ASSUME AccountsAssumption ==
  /\ MaxUsers \in Nat /\ MaxLoad \in Nat
  /\ NoEmail \notin Emails /\ NoPhone \notin Phones
  /\ Lower \in [Emails \cup {NoEmail} -> Emails \cup {NoEmail}]
  /\ Forms \subseteq {f \in Form : f.role # "none"}
  /\ Changes \subseteq Form

VARIABLES
  users,  \* the documents; an identity not given out yet holds Absent
  reqs,   \* what each request has read and decided, and where it is
  load    \* number of requests and rows of a batch begun

User == [email : Emails \cup {NoEmail}, phone : Phones \cup {NoPhone},
         role : Roles, reg : Registrations \cup {"none"}, active : BOOLEAN]
NewUser(e, p, r, g) ==
  [email |-> e, phone |-> p, role |-> r, reg |-> g, active |-> TRUE]
Absent == [email |-> NoEmail, phone |-> NoPhone, role |-> "User", reg |-> "none",
           active |-> FALSE]

CreateOps == {"inviteUser", "inviteManager", "createSystemAdmin", "register"}
Stages == {"free", "inserting", "updating", "stating", "removing", "login",
           "listed", "written", "leaving", "refreshing", "done"}
NoForm == [email |-> NoEmail, phone |-> NoPhone, role |-> "User"]
Request == [at : Stages, op : CreateOps \cup Registrations \cup {"none"},
            user : 0..MaxUsers, form : Form]
Unused == [at |-> "free", op |-> "none", user |-> 0, form |-> NoForm]
Over   == [at |-> "done", op |-> "none", user |-> 0, form |-> NoForm]

Begins(r) == reqs[r].at = "free" /\ load < MaxLoad /\ load' = load + 1
Goes(r, q) == reqs' = [reqs EXCEPT ![r] = q]

-----------------------------------------------------------------------------
\* The look-ups and the indexes.

HasPhone(u, p)    == users[u].active /\ users[u].phone = p
HasEmail(u, e, r) == users[u].active /\ users[u].email = e /\ users[u].role = r

\* What each way to create a user refuses before it stores anything: a form it
\* cannot use, or a user it finds.
PhoneInUse(f)    == \E u \in Users : HasPhone(u, f.phone)
EmailInUse(f, r) == \E u \in Users : HasEmail(u, Lower[f.email], r)

InviteUserRefuses(f) ==
  f.phone = NoPhone \/ PhoneInUse(f) \/ EmailInUse(f, f.role)
InviteManagerRefuses(f) == EmailInUse(f, f.role)
SystemAdminRefuses(f) == f.email = NoEmail \/ EmailInUse(f, "SystemAdmin")
RegisterRefuses(f) ==
  f.phone = NoPhone \/ PhoneInUse(f) \/ EmailInUse(f, "User")

Refuses(o, f) ==
  CASE o = "inviteUser" -> InviteUserRefuses(f)
    [] o = "inviteManager" -> InviteManagerRefuses(f)
    [] o = "createSystemAdmin" -> SystemAdminRefuses(f)
    [] o = "register" -> RegisterRefuses(f)

\* The two partial unique indexes.
IndexRefuses(u, d) ==
  /\ d.active
  /\ \E v \in Users \ {u} :
       \/ d.phone # NoPhone /\ HasPhone(v, d.phone)
       \/ HasEmail(v, d.email, d.role)

\* create() and save() also insist on an e-mail address.
SaveRefuses(u, d) == d.email = NoEmail \/ IndexRefuses(u, d)

\* The documents they create.
InvitedUser(f)    == NewUser(Lower[f.email], f.phone, f.role, "registered")
InvitedManager(f) == NewUser(Lower[f.email], NoPhone, f.role, "registered")
SystemAdmin(f)    == NewUser(Lower[f.email], NoPhone, "SystemAdmin", "registered")
Registered(f)     == NewUser(Lower[f.email], f.phone, "User", "registered")

Document(o, f) ==
  CASE o = "inviteUser" -> InvitedUser(f)
    [] o = "inviteManager" -> InvitedManager(f)
    [] o = "createSystemAdmin" -> SystemAdmin(f)
    [] o = "register" -> Registered(f)

\* The next identity.
Fresh(u) == users[u] = Absent /\ \A v \in 1..(u - 1) : users[v] # Absent

Inserts(u, d) == users' = [users EXCEPT ![u] = d]

-----------------------------------------------------------------------------
\* Creating one user: the look, and several awaits later save().

Ask(r, o, f) ==
  /\ Begins(r)
  /\ Goes(r, IF Refuses(o, f) THEN Over
             ELSE [Unused EXCEPT !.at = "inserting", !.op = o, !.form = f])
  /\ UNCHANGED users

\* The entity is gone, or bcrypt or the database fails.
AskFails(r) ==
  reqs[r].at = "inserting" /\ Goes(r, Over) /\ UNCHANGED <<users, load>>

\* save(): refused by an index or stored.  Who registers is logged in next.
Insert(r, u) ==
  LET d == Document(reqs[r].op, reqs[r].form) IN
  /\ reqs[r].at = "inserting" /\ Fresh(u)
  /\ \/ SaveRefuses(u, d) /\ UNCHANGED users /\ Goes(r, Over)
     \/ /\ ~SaveRefuses(u, d) /\ Inserts(u, d)
        /\ Goes(r, IF reqs[r].op = "register"
                     THEN [Unused EXCEPT !.at = "login", !.user = u]
                     ELSE Over)
  /\ UNCHANGED load

-----------------------------------------------------------------------------
\* Changing a user.

\* update: findOne, the look for the new e-mail address, and for the old one
\* under a new role.  NoEmail, NoPhone and "none" leave what they stand for.
AskUpdate(r, u, c) ==
  LET old  == users[u]
      role == IF c.role = "none" THEN old.role ELSE c.role
      new  == IF c.email = old.email THEN c.email ELSE Lower[c.email]
      others(e) == \E v \in Users \ {u} : HasEmail(v, e, role)
  IN
  /\ Begins(r) /\ old.active
  /\ Goes(r, IF \/ c.email \notin {NoEmail, old.email} /\ others(new)
                \/ role # old.role /\ others(Lower[old.email])
             THEN Over
             ELSE [Unused EXCEPT !.at = "updating", !.user = u,
                                 !.form = [c EXCEPT !.email = new]])
  /\ UNCHANGED users

\* findByIdAndUpdate, by _id alone: whatever became of the user meanwhile.
WriteUpdate(r) ==
  LET u == reqs[r].user
      c == reqs[r].form
      d == [users[u] EXCEPT !.email = IF c.email = NoEmail THEN @ ELSE c.email,
                            !.phone = IF c.phone = NoPhone THEN @ ELSE c.phone,
                            !.role  = IF c.role = "none" THEN @ ELSE c.role]
  IN
  /\ reqs[r].at = "updating"
  /\ IF IndexRefuses(u, d) THEN UNCHANGED users ELSE Inserts(u, d)
  /\ Goes(r, Over)
  /\ UNCHANGED load

\* updateRegistrationStatus: findOne, then the write by _id.
AskStatus(r, u, g) ==
  /\ Begins(r) /\ users[u].active
  /\ Goes(r, [Unused EXCEPT !.at = "stating", !.user = u, !.op = g])
  /\ UNCHANGED users

WriteStatus(r) ==
  /\ reqs[r].at = "stating"
  /\ users' = [users EXCEPT ![reqs[r].user].reg = reqs[r].op]
  /\ Goes(r, Over)
  /\ UNCHANGED load

\* remove; what it does to sessions and messages is in UserRemoval.  A
\* TenantAdmin cannot ask for the own removal.
AskRemove(r, u) ==
  /\ Begins(r) /\ users[u].active
  /\ Goes(r, [Unused EXCEPT !.at = "removing", !.user = u])
  /\ UNCHANGED users

\* Mutant of Erase: the role is cleared along with the personal fields.
EraseRole(r) ==
  /\ reqs[r].at = "removing"
  /\ users' = [users EXCEPT ![reqs[r].user] =
                 [Absent EXCEPT !.role = "none"]]
  /\ Goes(r, Over)
  /\ UNCHANGED load

\* The address becomes deleted-...@deleted.invalid, which nobody else has.
Erase(r) ==
  /\ reqs[r].at = "removing"
  /\ users' = [users EXCEPT ![reqs[r].user].active = FALSE,
                            ![reqs[r].user].email = NoEmail,
                            ![reqs[r].user].phone = NoPhone]
  /\ Goes(r, Over)
  /\ UNCHANGED load

\* The retention cleanup cancels the invitations that have become too old,
\* whichever these are.
CancelInvitations ==
  \E S \in SUBSET {u \in Users : users[u].reg = "invited"} :
    /\ S # {}
    /\ users' = [u \in Users |->
                   IF u \in S THEN [users[u] EXCEPT !.reg = "cancelled",
                                                    !.active = FALSE]
                              ELSE users[u]]
    /\ UNCHANGED <<reqs, load>>

-----------------------------------------------------------------------------
UsersInit ==
  /\ users \in {[u \in Users |-> IF u = 1 THEN d ELSE Absent] :
                  d \in {Registered(f) : f \in {g \in Forms : g.phone # NoPhone}}}
  /\ reqs = [r \in Requests |-> Unused]
  /\ load = 0

UsersNext ==
  \/ \E r \in Requests, o \in CreateOps, f \in Forms : Ask(r, o, f)
  \/ \E r \in Requests : AskFails(r) \/ \E u \in Users : Insert(r, u)
  \/ \E r \in Requests, u \in Users, c \in Changes : AskUpdate(r, u, c)
  \/ \E r \in Requests : WriteUpdate(r) \/ WriteStatus(r) \/ Erase(r)
  \/ \E r \in Requests, u \in Users, g \in Registrations : AskStatus(r, u, g)
  \/ \E r \in Requests, u \in Users : AskRemove(r, u)
  \/ CancelInvitations
=============================================================================
