--------------------------- MODULE HealthMonitor ---------------------------
(***************************************************************************)
(* The health checks of one WhatsApp session: the periodic tick of the     *)
(* worker pods, the manual check and the status queries of the API pods,   *)
(* the failure count that each pod keeps in memory and all of them write   *)
(* to one document, the alert and the wipe that a high count leads to.     *)
(***************************************************************************)
EXTENDS Integers

CONSTANTS Workers,    \* pods the scheduler hands ticks to
          ApiPods,    \* pods that answer requests
          NoPod,
          Threshold,  \* failureThreshold
          MaxCount,   \* bound: the highest failure count
          MaxFaults   \* bound: database errors and crashes

Pods == Workers \cup ApiPods

ASSUME HealthAssumption ==
  /\ Workers \cap ApiPods = {} /\ NoPod \notin Pods
  /\ Threshold \in Nat \ {0} /\ MaxCount \in Nat /\ MaxCount > Threshold
  /\ MaxFaults \in Nat

VARIABLES
  session,    \* the document: status, connectedAt set, the persisted count,
              \* lastHealthAlertAt within the cool-down
  holder,     \* the pod with the client (the lease leaves room for one)
  entry,      \* healthChecks of each pod: consecutiveFailures
  running,    \* the flag of runHealthChecks
  check,      \* where each pod is in a check, its copy of the document
  notice,     \* notifyUser: nothing, before its e-mail, before its last write
  mailed,     \* history: e-mails in this cool-down, two standing for more
  bad,        \* history: failed checks and queries since the last good check
  excuses,    \* history: what the properties make an exception for; what they
              \* would have needed is not followed any more then
  faults

vars == <<session, holder, entry, running, check, notice, mailed,
          bad, excuses, faults>>
doc == <<session, holder>>
mail == <<notice, mailed>>

\* "due" stands for READY, AUTHENTICATED, CONNECTING and FAILED.
Status == {"due", "disconnected", "qr_required"}
Session == [status : Status, connected : BOOLEAN, fails : 0..MaxCount,
            alerted : BOOLEAN]
Stages == {"idle", "read", "polled", "erring", "wiping", "unlinking",
           "answering"}
Check == [at : Stages, fails : 0..MaxCount, alerted : BOOLEAN,
          seen : 0..MaxCount]
Idle == [at |-> "idle", fails |-> 0, alerted |-> FALSE, seen |-> 0]
Results == {"good", "hard", "transient", "none"}
Excuses == {"wipe", "alert", "leak"}

UpTo(n) == IF n > MaxCount THEN MaxCount ELSE n
Since(n) == IF "wipe" \in excuses THEN 0 ELSE UpTo(n)
Fault == faults < MaxFaults /\ faults' = faults + 1
NoFault == UNCHANGED faults
Excuse(b, E) == excuses' = IF b THEN excuses \cup E ELSE excuses

\* The entry of a pod whose client goes stays as it is.
LeavesEntry(p) == Excuse(holder = p /\ entry[p] > 0, {"wipe"})

-----------------------------------------------------------------------------
\* The poll of getSessionStatus.

\* Mutant of Good: every good poll takes back one failure.
GoodByOne(n) == n - 1

\* CONNECTED, or messages within the grace period.
Good(n) == 0

\* A hard failure, or getState that throws, counts; OPENING, PAIRING and the
\* like leave the count as it is.
Counted(n, r) ==
  CASE r = "good" -> Good(n) [] r = "hard" -> n + 1 [] r = "transient" -> n

\* A pod without the client reports whatever its entry says.
Polls(p, r) ==
  IF holder = p THEN /\ r # "none" /\ Counted(entry[p], r) <= MaxCount
                     /\ entry' = [entry EXCEPT ![p] = Counted(@, r)]
                ELSE r = "none" /\ UNCHANGED entry

\* A good poll ends a row of failures when a check has made it: the answer to
\* a query is not written to the document.
Row(p, r) == CASE r = "hard" -> Since(bad + 1)
               [] r = "good" /\ check[p].at = "read" -> 0
               [] OTHER -> Since(bad)

-----------------------------------------------------------------------------
\* Beginning a check.

DueByStatus ==
  \/ session.status = "due"
  \/ session.status = "disconnected" /\ session.connected
Eligible(p) == DueByStatus \/ holder = p

\* The manual check does not select connectedAt.
EligibleByHand(p) ==
  session.status = "due" \/ holder = p

UnderWay == (\E p \in Pods : check[p].at # "idle") \/ notice # "none"

Reads(p) ==
  /\ check' = [check EXCEPT ![p] = [Idle EXCEPT !.at = "read",
                 !.fails = session.fails, !.alerted = session.alerted]]
  /\ Excuse(UnderWay, {"wipe", "alert"})

\* A worker handles one job of the health queue at a time.
Free(w) == check[w].at = "idle"

Tickable(w) == Free(w) /\ ~running[w]

TickReads(w) ==
  /\ Tickable(w) /\ Eligible(w)
  /\ running' = [running EXCEPT ![w] = TRUE]
  /\ Reads(w)
  /\ UNCHANGED <<doc, entry, mail, bad, faults>>

\* Mutant of TickFindsNothing: the early return leaves the flag set.
TickFindsNothingLocked(w) ==
  /\ Tickable(w) /\ ~Eligible(w)
  /\ running' = [running EXCEPT ![w] = TRUE]
  /\ UNCHANGED <<doc, entry, check, mail, bad, excuses, faults>>

TickFindsNothing(w) ==
  /\ Tickable(w) /\ ~Eligible(w)
  /\ running' = [running EXCEPT ![w] = FALSE]
  /\ UNCHANGED <<doc, entry, check, mail, bad, excuses, faults>>

\* find throws after the flag was set: nothing clears it again, and every
\* later tick of the pod is skipped.
TickThrows(w) ==
  /\ Tickable(w) /\ Fault
  /\ running' = [running EXCEPT ![w] = TRUE]
  /\ Excuse(TRUE, {"leak"})
  /\ UNCHANGED <<doc, entry, check, mail, bad>>

\* The job of the cron schedule goes to any one of the workers.
Tick(w) == TickReads(w) \/ TickFindsNothing(w) \/ TickThrows(w)

Ask(a) ==
  /\ check[a].at = "idle"
  /\ IF EligibleByHand(a)
       THEN Reads(a)
       ELSE check' = [check EXCEPT ![a].at = "answering"] /\ UNCHANGED excuses
  /\ UNCHANGED <<doc, entry, running, mail, bad, faults>>

-----------------------------------------------------------------------------
\* checkSession.

\* The end of a check: the flag of a tick is cleared, a manual check answers
\* with the status.
Ends(p) ==
  IF p \in Workers
    THEN check' = [check EXCEPT ![p] = Idle]
         /\ running' = [running EXCEPT ![p] = FALSE]
    ELSE check' = [check EXCEPT ![p] = [Idle EXCEPT !.at = "answering"]]
         /\ UNCHANGED running

\* raiseAlert begins a notifyUser that nobody awaits; it sends nothing when
\* the copy says that the last alert is recent.  (Bound: one at a time.)
Alert(p) ==
  /\ notice' = IF check[p].alerted \/ notice # "none" THEN notice ELSE "mailing"
  /\ UNCHANGED mailed

\* Mutant of Verdict: one failed check less is enough for a wipe.
VerdictEarly(p, n) ==
  IF n >= Threshold
    THEN /\ Alert(p) /\ check' = [check EXCEPT ![p] = [Idle EXCEPT !.at = "wiping"]]
         /\ UNCHANGED running
    ELSE Ends(p) /\ UNCHANGED mail

\* What a count leads to: a wipe above the threshold, a reconnect, which
\* Initialize stands for, at the threshold.
Verdict(p, n) ==
  IF n > Threshold
    THEN /\ Alert(p) /\ check' = [check EXCEPT ![p] = [Idle EXCEPT !.at = "wiping"]]
         /\ UNCHANGED running
    ELSE Ends(p) /\ IF n = Threshold THEN Alert(p) ELSE UNCHANGED mail

Errs(p) ==
  /\ check' = [check EXCEPT ![p].at = "erring", ![p].seen = 0]
  /\ bad' = Since(bad + 1)

Poll(p) ==
  /\ check[p].at = "read"
  /\ \/ /\ NoFault
        /\ \E r \in Results : Polls(p, r) /\ bad' = Row(p, r)
        /\ check' = [check EXCEPT ![p].at = "polled", ![p].seen = entry'[p]]
     \/ Fault /\ Errs(p) /\ UNCHANGED entry
  /\ UNCHANGED <<doc, running, mail, excuses>>

\* The client of p has answered better than the document says.
Unwritten(p) == check[p].at = "polled" /\ check[p].seen < check[p].fails

\* The count goes to the document.  When that fails the check counts as failed,
\* whatever the client has answered.
Persist(p) ==
  /\ check[p].at = "polled"
  /\ \/ /\ NoFault /\ session' = [session EXCEPT !.fails = check[p].seen]
        /\ Verdict(p, check[p].seen)
        /\ UNCHANGED <<bad, excuses>>
     \/ /\ Fault /\ Errs(p)
        /\ Excuse(Unwritten(p), {"wipe"})
        /\ UNCHANGED <<session, running, mail>>
  /\ UNCHANGED <<holder, entry>>

\* The error path counts from the copy.  When its write fails, too, the check
\* throws, and a tick leaves its flag set.
PersistError(p) ==
  LET n == UpTo(check[p].fails + 1) IN
  /\ check[p].at = "erring"
  /\ \/ /\ NoFault /\ session' = [session EXCEPT !.fails = n]
        /\ Verdict(p, n)
        /\ UNCHANGED excuses
     \/ /\ Fault /\ check' = [check EXCEPT ![p] = Idle]
        /\ Excuse(p \in Workers, {"leak"})
        /\ UNCHANGED <<session, running, mail>>
  /\ UNCHANGED <<holder, entry, bad>>

\* removeSession: the client of this pod, if it has it, and the status ...
Wipe(p) ==
  /\ check[p].at = "wiping"
  /\ holder' = IF holder = p THEN NoPod ELSE holder
  /\ session' = [session EXCEPT !.status = "disconnected"]
  /\ LeavesEntry(p)
  /\ check' = [check EXCEPT ![p].at = "unlinking"]
  /\ UNCHANGED <<entry, running, mail, bad, faults>>

\* ... then the stored login and the status again.  connectedAt stays.
Unlink(p) ==
  /\ check[p].at = "unlinking"
  /\ \/ NoFault /\ session' = [session EXCEPT !.status = "disconnected"]
     \/ Fault /\ UNCHANGED session
  /\ Ends(p)
  /\ UNCHANGED <<holder, entry, mail, bad, excuses>>

Answer(a) ==
  /\ check[a].at = "answering"
  /\ check' = [check EXCEPT ![a] = Idle]
  /\ \E r \in Results : Polls(a, r) /\ bad' = Row(a, r)
  /\ UNCHANGED <<doc, running, mail, excuses, faults>>

\* A status query of the frontend, or of the QR code endpoints, polls too.
Query(a) ==
  /\ \E r \in Results \ {"none"} :
       /\ Polls(a, r)
       /\ bad' = IF r = "hard" THEN Since(bad + 1) ELSE bad
  /\ UNCHANGED <<doc, running, check, mail, excuses, faults>>

GoesOn(p) == Poll(p) \/ Persist(p) \/ PersistError(p) \/ Wipe(p) \/ Unlink(p)
             \/ Answer(p)

-----------------------------------------------------------------------------
\* notifyUser.

\* The user has an address and the e-mail is sent, or not.
Mail ==
  /\ notice = "mailing"
  /\ \/ /\ notice' = "recording"
        /\ mailed' = IF "alert" \in excuses THEN 0
                     ELSE IF mailed = 2 THEN 2 ELSE mailed + 1
     \/ notice' = "none" /\ UNCHANGED mailed
  /\ UNCHANGED <<doc, entry, running, check, bad, excuses, faults>>

\* Mutant of Record: the time of the alert is not kept.
RecordNothing ==
  /\ notice = "recording" /\ notice' = "none"
  /\ UNCHANGED <<doc, entry, running, check, mailed, bad, excuses, faults>>

Record ==
  /\ notice = "recording" /\ notice' = "none"
  /\ \/ /\ NoFault /\ session' = [session EXCEPT !.alerted = TRUE]
        /\ UNCHANGED excuses
     \/ Fault /\ Excuse(TRUE, {"alert"}) /\ UNCHANGED session
  /\ UNCHANGED <<holder, entry, running, check, mailed, bad>>

\* The cool-down is over, for the document and for every copy of it.
Cool ==
  /\ session.alerted \/ mailed > 0
  /\ notice # "recording"
  /\ session' = [session EXCEPT !.alerted = FALSE]
  /\ check' = [p \in Pods |-> [check[p] EXCEPT !.alerted = FALSE]]
  /\ mailed' = 0
  /\ UNCHANGED <<holder, entry, running, notice, bad, excuses, faults>>

-----------------------------------------------------------------------------
\* What happens to the client meanwhile.

\* initializeClient, asked for by users, by the sweep or by a failed check.
Initialize(p) ==
  /\ holder = NoPod /\ holder' = p
  /\ \/ UNCHANGED session
     \/ session' = [session EXCEPT !.status = "due"]
  /\ UNCHANGED <<entry, running, check, mail, bad, excuses, faults>>

\* The ready and the qr event.
Event ==
  /\ holder # NoPod
  /\ \/ session' = [session EXCEPT !.status = "due", !.connected = TRUE]
     \/ session' = [session EXCEPT !.status = "qr_required"]
  /\ UNCHANGED <<holder, entry, running, check, mail, bad, excuses, faults>>

\* The client goes: a disconnected event, a failed initialization, a mismatch.
Lose ==
  /\ holder # NoPod /\ holder' = NoPod
  /\ \E s \in {"disconnected", "due"} :
       session' = [session EXCEPT !.status = s]
  /\ LeavesEntry(holder)
  /\ UNCHANGED <<entry, running, check, mail, bad, faults>>

\* A pod is killed and started again: its memory is empty, and a good poll
\* that it had not written yet is forgotten.
Crash(p) ==
  /\ Fault
  /\ holder' = IF holder = p THEN NoPod ELSE holder
  /\ entry' = [entry EXCEPT ![p] = 0]
  /\ running' = [running EXCEPT ![p] = FALSE]
  /\ check' = [check EXCEPT ![p] = Idle]
  /\ Excuse(Unwritten(p), {"wipe"})
  /\ UNCHANGED <<session, mail, bad>>

-----------------------------------------------------------------------------
Init ==
  /\ session = [status |-> "due", connected |-> FALSE, fails |-> 0,
                alerted |-> FALSE]
  /\ holder = NoPod
  /\ entry = [p \in Pods |-> 0] /\ running = [p \in Pods |-> FALSE]
  /\ check = [p \in Pods |-> Idle]
  /\ notice = "none" /\ mailed = 0
  /\ bad = 0 /\ excuses = {} /\ faults = 0

Next ==
  \/ \E w \in Workers : Tick(w)
  \/ \E a \in ApiPods : Ask(a) \/ Query(a)
  \/ \E p \in Pods : GoesOn(p) \/ Initialize(p) \/ Crash(p)
  \/ Mail \/ Record \/ Cool \/ Event \/ Lose

Spec == Init /\ [][Next]_vars

TypeOK ==
  /\ session \in Session /\ holder \in Pods \cup {NoPod}
  /\ entry \in [Pods -> 0..MaxCount] /\ running \in [Pods -> BOOLEAN]
  /\ check \in [Pods -> Check]
  /\ notice \in {"none", "mailing", "recording"} /\ mailed \in 0..2
  /\ bad \in 0..MaxCount /\ excuses \subseteq Excuses
  /\ faults \in 0..MaxFaults

\* A session is wiped, and has to be paired anew, only after more checks in a
\* row than the threshold have failed, none of them a good one, whichever pods
\* made them - unless a pod's count outlived its client, checks overlapped, or
\* the count of a good poll was not written, because the database or the pod
\* failed.
WipesFollowFailures ==
  [][\A p \in Pods :
       check'[p].at = "wiping" /\ check[p].at # "wiping" =>
         bad > Threshold \/ "wipe" \in excuses]_vars

\* A cool-down sees one alert by e-mail, although the decision is made on a
\* copy that is older than the e-mail - unless checks overlapped each other or
\* an e-mail on its way, or its time could not be recorded.
AlertsSpaced ==
  "alert" \notin excuses => mailed <= 1

\* The flag of a worker is set exactly while a run of it is under way: runs do
\* not overlap, and no later tick is skipped for ever - as long as no database
\* error has broken a run off.
FlagFollowsCheck ==
  "leak" \notin excuses =>
    \A w \in Workers : running[w] <=> check[w].at # "idle"
=============================================================================
