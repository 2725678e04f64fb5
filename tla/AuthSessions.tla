---------------------------- MODULE AuthSessions ----------------------------
(***************************************************************************)
(* Logins of AuthService: a list of sessions per user and one key per      *)
(* refresh token, both in the cache and written one after the other by     *)
(* requests that read the list some awaits before.  CacheService swallows  *)
(* every error: a failed get finds nothing, a failed set or del does       *)
(* nothing, and the caller cannot tell.                                    *)
(***************************************************************************)
EXTENDS UserAccounts, Sequences

CONSTANTS MaxSessions,  \* MAX_CONCURRENT_SESSIONS
          MaxSeconds,   \* bound: seconds in one behaviour
          MaxLapses     \* bound: failures of the cache

ASSUME SessionsAssumption ==
  MaxSessions \in Nat \ {0} /\ MaxSeconds \in Nat /\ MaxLapses \in Nat

VARIABLES
  now,      \* the second: a token is the user and the second it was signed in
  live,     \* the refresh tokens that have a key in the cache
  listed,   \* the session list of each user
  list,     \* the copy of the list each request works on
  token,    \* the token of the request: the one it signs or the one it shows
  lapses,   \* number of cache failures so far
  raced     \* history: users two of whose logins or logouts have overlapped

authVars == <<now, live, listed, list, token, lapses, raced>>

Tokens == Users \X (0..MaxSeconds)
TokensOf(u) == {u} \X (0..MaxSeconds)
NoToken == <<0, 0>>
InList(u) == {listed[u][i] : i \in DOMAIN listed[u]}

\* A cache operation goes wrong.
Lapse == lapses < MaxLapses /\ lapses' = lapses + 1
Kept == UNCHANGED lapses

\* Requests that have read the list of u and not finished with it.
Busy(u) == \E r \in Requests :
             reqs[r].user = u /\ reqs[r].at \in {"listed", "written", "leaving"}
Enter(r, u) ==
  raced' = IF Busy(u) THEN raced \cup {u} ELSE raced

Move(r, stage) == reqs' = [reqs EXCEPT ![r].at = stage]
Sets(f, r, v) == [f EXCEPT ![r] = v]

-----------------------------------------------------------------------------
\* validateUser: an active, registered user; the address is looked for in
\* lower case.  The password is compared while the user may change.
Validate(r, u) ==
  /\ Begins(r)
  /\ users[u].active /\ users[u].reg = "registered"
  /\ \E e \in Emails : users[u].email = Lower[e]
  /\ Goes(r, [Unused EXCEPT !.at = "login", !.user = u])
  /\ UNCHANGED <<users, authVars>>

\* login signs the token and reads the list (getUserSession(...) || []).
ReadList(r) ==
  LET u == reqs[r].user IN
  /\ reqs[r].at = "login"
  /\ \/ Kept  /\ list' = Sets(list, r, listed[u])
     \/ Lapse /\ list' = Sets(list, r, <<>>)
  /\ token' = Sets(token, r, <<u, now>>)
  /\ Enter(r, u)
  /\ Move(r, "listed")
  /\ UNCHANGED <<users, load, now, live, listed>>

\* Mutant of Evict: the oldest session leaves the list but keeps its token.
EvictUnlisted(r) ==
  /\ reqs[r].at = "listed" /\ Len(list[r]) >= MaxSessions
  /\ list' = Sets(list, r, Tail(list[r]))
  /\ UNCHANGED <<users, reqs, load, now, live, listed, token, lapses, raced>>

\* As long as the list is full the oldest session and its token go.
Evict(r) ==
  /\ reqs[r].at = "listed" /\ Len(list[r]) >= MaxSessions
  /\ list' = Sets(list, r, Tail(list[r]))
  /\ \/ Kept  /\ live' = live \ {Head(list[r])}
     \/ Lapse /\ UNCHANGED live
  /\ UNCHANGED <<users, reqs, load, now, listed, token, raced>>

\* cacheUserSession: the new list replaces whatever is there by now.
WriteList(r) ==
  LET u == reqs[r].user IN
  /\ reqs[r].at = "listed" /\ Len(list[r]) < MaxSessions
  /\ \/ Kept  /\ listed' = [listed EXCEPT ![u] = Append(list[r], token[r])]
     \/ Lapse /\ UNCHANGED listed
  /\ Move(r, "written")
  /\ list' = Sets(list, r, <<>>)
  /\ UNCHANGED <<users, load, now, live, token, raced>>

\* The key of the refresh token.
WriteToken(r) ==
  /\ reqs[r].at = "written"
  /\ \/ Kept  /\ live' = live \cup {token[r]}
     \/ Lapse /\ UNCHANGED live
  /\ Goes(r, Over)
  /\ token' = Sets(token, r, NoToken)
  /\ UNCHANGED <<users, load, now, listed, list, raced>>

-----------------------------------------------------------------------------
\* logout of whoever holds an access token: reads the list ...
Logout(r, u) ==
  /\ Begins(r) /\ users[u] # Absent
  /\ \/ Kept  /\ list' = Sets(list, r, listed[u])
     \/ Lapse /\ list' = Sets(list, r, <<>>)
  /\ Enter(r, u)
  /\ Goes(r, [Unused EXCEPT !.at = "leaving", !.user = u])
  /\ UNCHANGED <<users, now, live, listed, token>>

\* ... deletes the tokens in it one by one ...
DropToken(r) ==
  /\ reqs[r].at = "leaving" /\ list[r] # <<>>
  /\ list' = Sets(list, r, Tail(list[r]))
  /\ \/ Kept  /\ live' = live \ {Head(list[r])}
     \/ Lapse /\ UNCHANGED live
  /\ UNCHANGED <<users, reqs, load, now, listed, token, raced>>

\* Mutant of DropList: the logout ends in the middle of the list.
DropListShort(r) ==
  /\ reqs[r].at = "leaving" /\ Kept
  /\ Goes(r, Over)
  /\ UNCHANGED <<users, load, now, live, listed, list, token, raced>>

\* ... and then the list.
DropList(r) ==
  /\ reqs[r].at = "leaving" /\ list[r] = <<>>
  /\ \/ Kept  /\ listed' = [listed EXCEPT ![reqs[r].user] = <<>>]
     \/ Lapse /\ UNCHANGED listed
  /\ Goes(r, Over)
  /\ UNCHANGED <<users, load, now, live, list, token, raced>>

\* refreshToken: the key must be there ...
Refresh(r, t) ==
  /\ Begins(r) /\ t \in live
  /\ Goes(r, [Unused EXCEPT !.at = "refreshing", !.user = t[1]])
  /\ token' = Sets(token, r, t)
  /\ UNCHANGED <<users, now, live, listed, list, lapses, raced>>

\* ... and then the user active; the answer is an access token or a refusal.
Answer(r) ==
  /\ reqs[r].at = "refreshing"
  /\ Goes(r, Over)
  /\ token' = Sets(token, r, NoToken)
  /\ UNCHANGED <<users, load, now, live, listed, list, lapses, raced>>

-----------------------------------------------------------------------------
\* The clock, and the lifetimes of the cache.  The list is written anew with
\* every login, so it outlives all tokens but, by one await, the last.
Second ==
  /\ now < MaxSeconds /\ now' = now + 1
  /\ UNCHANGED <<users, reqs, load, live, listed, list, token, lapses, raced>>
ExpireToken ==
  /\ \E t \in live : live' = live \ {t}
  /\ UNCHANGED <<users, reqs, load, now, listed, list, token, lapses, raced>>
ExpireList(u) ==
  /\ listed[u] # <<>> /\ live \cap TokensOf(u) = {} /\ ~Busy(u)
  /\ listed' = [listed EXCEPT ![u] = <<>>]
  /\ UNCHANGED <<users, reqs, load, now, live, list, token, lapses, raced>>

AuthInit ==
  /\ now = 0 /\ live = {} /\ listed = [u \in Users |-> <<>>]
  /\ list = [r \in Requests |-> <<>>] /\ token = [r \in Requests |-> NoToken]
  /\ lapses = 0 /\ raced = {}

AuthNext ==
  \/ \E r \in Requests, u \in Users : Validate(r, u) \/ Logout(r, u)
  \/ \E r \in Requests : \/ ReadList(r) \/ Evict(r) \/ WriteList(r)
                         \/ WriteToken(r) \/ DropToken(r) \/ DropList(r)
                         \/ Answer(r)
  \/ \E r \in Requests, t \in live : Refresh(r, t)
  \/ \E u \in Users : ExpireList(u)
  \/ Second \/ ExpireToken

AuthTypeOK ==
  /\ now \in 0..MaxSeconds /\ lapses \in 0..MaxLapses
  /\ live \subseteq Tokens
  /\ listed \in [Users -> Seq(Tokens)]
  /\ list \in [Requests -> Seq(Tokens)]
  /\ token \in [Requests -> Tokens \cup {NoToken}]
  /\ raced \subseteq Users

\* Every refresh token that works is in its user's list, so the limit of
\* sessions holds and a logout ends them all - as long as no cache operation
\* has failed and no two logins or logouts of the user have overlapped.  (The
\* list is a copy that was read awaits before it is written back, tokens are
\* written and deleted one by one around it, the evicted token may be spelled
\* like a newer one of the same second.)
SessionsAccounted ==
  lapses = 0 =>
    \A u \in Users \ raced :
      /\ live \cap TokensOf(u) \subseteq InList(u)
      /\ Len(listed[u]) <= MaxSessions

\* A logout that has ended leaves no refresh token of the user that works,
\* whatever other requests did between its steps ("Invalidate all sessions for
\* a user", auth.service.ts).  The exceptions are the same: a cache operation
\* has failed, or another login or logout of the user overlapped this one or
\* an earlier one.
LogoutEndsAll ==
  [][\A r \in Requests :
       /\ reqs[r].at = "leaving" /\ reqs'[r].at # "leaving"
       /\ lapses' = 0 /\ reqs[r].user \notin raced
       => live' \cap TokensOf(reqs[r].user) = {}]_<<reqs, authVars>>
=============================================================================
