------------------------ MODULE HealthMonitorProofs ------------------------
(***************************************************************************)
(* Proofs about HealthMonitor, for any pods, threshold and faults: the     *)
(* types, that the running flag of a worker follows its checks, that alerts *)
(* are spaced, and that a wipe follows the failures it needs.               *)
(***************************************************************************)
EXTENDS HealthMonitor, TLAPS

Checks == [Pods -> Check]
Flags == [Pods -> BOOLEAN]

-----------------------------------------------------------------------------
\* Helpers.

LEMMA IdleMoved ==
  ASSUME NEW s \in Stages
  PROVE  /\ [Idle EXCEPT !.at = s] \in Check
         /\ [Idle EXCEPT !.at = s].at = s
         /\ Idle \in Check /\ Idle.at = "idle"
<1>1. Idle \in Check /\ Idle.at = "idle"
  BY HealthAssumption DEF Idle, Check, Stages
<1>2. \A i \in Check : [i EXCEPT !.at = s] \in Check /\ [i EXCEPT !.at = s].at = s
  BY DEF Check
<1> QED
  BY <1>1, <1>2, Zenon

LEMMA Bounded ==
  ASSUME NEW n \in Nat
  PROVE  UpTo(n) \in 0..MaxCount /\ Since(n) \in 0..MaxCount
BY HealthAssumption DEF UpTo, Since

LEMMA CheckMoved ==
  ASSUME check \in Checks, NEW p \in Pods, NEW s \in Stages,
         NEW n \in 0..MaxCount,
         check' = [check EXCEPT ![p].at = s, ![p].seen = n]
  PROVE  /\ check' \in Checks /\ check'[p].at = s /\ check'[p].seen = n
         /\ check'[p].fails = check[p].fails /\ check'[p].alerted = check[p].alerted
         /\ \A q \in Pods \ {p} : check'[q] = check[q]
<1>1. PICK c \in Check : c = check[p]
  BY DEF Checks
<1> DEFINE d == [c EXCEPT !.at = s, !.seen = n]
<1>2. check' = [check EXCEPT ![p] = d]
  BY <1>1
<1>3. /\ d \in Check /\ d.at = s /\ d.seen = n
      /\ d.fails = c.fails /\ d.alerted = c.alerted
  BY <1>1 DEF Check
<1> HIDE DEF d
<1>4. check' \in Checks /\ check'[p] = d /\ \A q \in Pods \ {p} : check'[q] = check[q]
  BY <1>2, <1>3 DEF Checks
<1> QED
  BY <1>1, <1>3, <1>4, Zenon

LEMMA CheckAt ==
  ASSUME check \in Checks, NEW p \in Pods, NEW s \in Stages,
         check' = [check EXCEPT ![p].at = s]
  PROVE  /\ check' \in Checks /\ check'[p].at = s
         /\ \A q \in Pods \ {p} : check'[q] = check[q]
<1>1. PICK c \in Check : c = check[p]
  BY DEF Checks
<1> DEFINE d == [c EXCEPT !.at = s]
<1>2. check' = [check EXCEPT ![p] = d]
  BY <1>1
<1>3. d \in Check /\ d.at = s
  BY <1>1 DEF Check
<1> HIDE DEF d
<1> QED
  BY <1>2, <1>3 DEF Checks

LEMMA CheckReset ==
  ASSUME check \in Checks, NEW p \in Pods, NEW s \in Stages,
         check' = [check EXCEPT ![p] = [Idle EXCEPT !.at = s]]
  PROVE  /\ check' \in Checks /\ check'[p].at = s
         /\ \A q \in Pods \ {p} : check'[q] = check[q]
<1> DEFINE d == [Idle EXCEPT !.at = s]
<1>1. d \in Check /\ d.at = s
  BY IdleMoved, Zenon
<1>2. check' = [check EXCEPT ![p] = d]
  OBVIOUS
<1> HIDE DEF d
<1> QED
  BY <1>1, <1>2 DEF Checks

LEMMA CheckOver ==
  ASSUME check \in Checks, NEW p \in Pods, check' = [check EXCEPT ![p] = Idle]
  PROVE  /\ check' \in Checks /\ check'[p].at = "idle"
         /\ \A q \in Pods \ {p} : check'[q] = check[q]
<1>1. Idle \in Check /\ Idle.at = "idle"
  BY IdleMoved DEF Stages
<1> QED
  BY <1>1 DEF Checks

-----------------------------------------------------------------------------
\* The check and the flag.

\* Only API pods answer, and the flag of a worker follows its check.
FlagInv ==
  /\ check \in Checks /\ running \in Flags
  /\ \A w \in Workers : check[w].at # "answering"
  /\ FlagFollowsCheck

\* Four things a step may do to them: begin a run of p ...
Starting(p) ==
  /\ running' \in Flags /\ running'[p]
  /\ \A q \in Pods \ {p} : running'[q] = running[q]
  /\ check' \in Checks /\ \A q \in Pods \ {p} : check'[q] = check[q]
  /\ check'[p].at \notin {"idle", "answering"}

\* ... let a check of p go on ...
GoingOn(p) ==
  /\ UNCHANGED running
  /\ check' \in Checks /\ \A q \in Pods \ {p} : check'[q] = check[q]
  /\ check[p].at # "idle" /\ check'[p].at # "idle"
  /\ check'[p].at = "answering" => check[p].at = "answering"

\* ... end it, or end a run that had not begun, and clear the flag ...
Ending(p) ==
  /\ running' \in Flags /\ \A q \in Pods \ {p} : running'[q] = running[q]
  /\ check' \in Checks /\ \A q \in Pods \ {p} : check'[q] = check[q]
  /\ p \in Workers => ~running'[p] /\ check'[p].at = "idle"

\* ... or take p's flag out of what is claimed.
Leaking ==
  /\ running' \in Flags /\ check' \in Checks
  /\ \A w \in Workers : check'[w].at # "answering"
  /\ "leak" \in excuses'

LEMMA FlagSteps ==
  ASSUME FlagInv, "leak" \in excuses => "leak" \in excuses', NEW p \in Pods,
         Starting(p) \/ GoingOn(p) \/ Ending(p) \/ Leaking
  PROVE  FlagInv'
<1>0. Workers \subseteq Pods
  BY DEF Pods
<1>1. CASE GoingOn(p)
  BY <1>0, <1>1 DEF GoingOn, FlagInv, FlagFollowsCheck
<1>2. CASE Ending(p)
  <2>1. ASSUME NEW w \in Workers
        PROVE  /\ check'[w].at # "answering"
               /\ "leak" \notin excuses' => (running'[w] <=> check'[w].at # "idle")
    <3>1. CASE w = p
      BY <1>2, <3>1 DEF Ending
    <3>2. CASE w # p
      BY <1>0, <1>2, <3>2 DEF Ending, FlagInv, FlagFollowsCheck
    <3> QED  BY <3>1, <3>2
  <2> QED
    BY <1>2, <2>1 DEF Ending, FlagInv, FlagFollowsCheck
<1>3. CASE Leaking
  BY <1>3 DEF Leaking, FlagInv, FlagFollowsCheck
<1>4. CASE Starting(p)
  BY <1>0, <1>4 DEF Starting, FlagInv, FlagFollowsCheck
<1> QED
  BY <1>1, <1>2, <1>3, <1>4

LEMMA EndsEnds ==
  ASSUME FlagInv, NEW p \in Pods, Ends(p)
  PROVE  Ending(p)
<1>1. CASE p \in Workers
  <2>1. check' = [check EXCEPT ![p] = Idle] /\ running' = [running EXCEPT ![p] = FALSE]
    BY <1>1 DEF Ends
  <2>2. check' \in Checks /\ check'[p].at = "idle"
        /\ \A q \in Pods \ {p} : check'[q] = check[q]
    BY <2>1, CheckOver DEF FlagInv
  <2>3. running' \in Flags /\ ~running'[p]
        /\ \A q \in Pods \ {p} : running'[q] = running[q]
    BY <2>1 DEF FlagInv, Flags
  <2> QED
    BY <2>2, <2>3 DEF Ending
<1>2. CASE p \notin Workers
  <2>1. check' = [check EXCEPT ![p] = [Idle EXCEPT !.at = "answering"]]
        /\ UNCHANGED running
    BY <1>2 DEF Ends
  <2>2. check' \in Checks /\ \A q \in Pods \ {p} : check'[q] = check[q]
    BY <2>1, CheckReset DEF FlagInv, Stages
  <2> QED
    BY <1>2, <2>1, <2>2 DEF Ending, FlagInv
<1> QED
  BY <1>1, <1>2

LEMMA VerdictMoves ==
  ASSUME FlagInv, NEW p \in Pods, NEW n, Verdict(p, n), check[p].at # "idle"
  PROVE  GoingOn(p) \/ Ending(p)
<1>1. CASE Ends(p)
  BY <1>1, EndsEnds
<1>2. CASE /\ check' = [check EXCEPT ![p] = [Idle EXCEPT !.at = "wiping"]]
           /\ UNCHANGED running
  <2>1. /\ check' \in Checks /\ check'[p].at = "wiping"
        /\ \A q \in Pods \ {p} : check'[q] = check[q]
    BY <1>2, CheckReset DEF FlagInv, Stages
  <2> QED
    BY <1>2, <2>1 DEF GoingOn
<1> QED
  BY <1>1, <1>2 DEF Verdict

LEMMA ErrsMoves ==
  ASSUME FlagInv, NEW p \in Pods, Errs(p), UNCHANGED running,
         check[p].at # "idle"
  PROVE  GoingOn(p)
<1>1. /\ check' \in Checks /\ check'[p].at = "erring"
      /\ \A q \in Pods \ {p} : check'[q] = check[q]
  <2>1. check' = [check EXCEPT ![p].at = "erring", ![p].seen = 0]
    BY DEF Errs
  <2>2. check \in Checks /\ "erring" \in Stages /\ 0 \in 0..MaxCount
    BY HealthAssumption DEF FlagInv, Stages
  <2> QED
    BY <2>1, <2>2, CheckMoved, Zenon
<1> QED
  BY <1>1 DEF GoingOn

\* What is excused stays excused.
LEMMA ExcusesGrow ==
  ASSUME Next
  PROVE  excuses \subseteq excuses'
BY DEF Next, Tick, TickReads, TickFindsNothing, TickThrows, Ask, Query, GoesOn,
   Poll, Persist, PersistError, Wipe, Unlink, Answer, Initialize, Crash, Mail,
   Record, Cool, Event, Lose, Reads, LeavesEntry, Excuse
-----------------------------------------------------------------------------
\* A record of a session that an action writes.
LEMMA SessionTypes ==
  ASSUME session \in Session, Next, check \in Checks
  PROVE  session' \in Session
<1>1. ASSUME NEW p \in Pods, Persist(p) \/ PersistError(p)
      PROVE  session' \in Session
  <2>1. check[p].seen \in 0..MaxCount /\ check[p].fails \in 0..MaxCount
    BY DEF Checks, Check
  <2>2. UpTo(check[p].fails + 1) \in 0..MaxCount
    BY <2>1, Bounded
  <2> QED
    BY <1>1, <2>1, <2>2 DEF Persist, PersistError, Session
<1>2. CASE \E p \in Pods : Wipe(p) \/ Unlink(p)
  BY <1>2 DEF Wipe, Unlink, Session, Status
<1>3. CASE Record \/ Cool \/ Event \/ Lose \/ \E p \in Pods : Initialize(p)
  BY <1>3 DEF Record, Cool, Event, Lose, Initialize, Session, Status
<1>4. CASE UNCHANGED session
  BY <1>4
<1> QED
  BY <1>1, <1>2, <1>3, <1>4 DEF Next, Tick, TickReads, TickFindsNothing,
     TickThrows, Ask, Query, GoesOn, Poll, Answer, Crash, Mail, doc

LEMMA EntryTypes ==
  ASSUME entry \in [Pods -> 0..MaxCount], Next
  PROVE  entry' \in [Pods -> 0..MaxCount]
<1>1. ASSUME NEW p \in Pods, NEW r \in Results, Polls(p, r)
      PROVE  entry' \in [Pods -> 0..MaxCount]
  <2>1. r # "none" => Counted(entry[p], r) \in Nat
    <3>1. entry[p] \in Nat
      OBVIOUS
    <3> QED
      BY <3>1 DEF Results, Counted, Good
  <2>2. CASE UNCHANGED entry
    BY <2>2
  <2>3. CASE /\ r # "none" /\ Counted(entry[p], r) <= MaxCount
             /\ entry' = [entry EXCEPT ![p] = Counted(entry[p], r)]
    <3>1. Counted(entry[p], r) \in 0..MaxCount
      BY <2>1, <2>3, HealthAssumption
    <3> QED
      BY <2>3, <3>1
  <2> QED
    BY <1>1, <2>2, <2>3 DEF Polls
<1>2. CASE \E p \in Pods : Crash(p)
  BY <1>2, HealthAssumption DEF Crash
<1>3. CASE UNCHANGED entry
  BY <1>3
<1>4. Results \ {"none"} \subseteq Results /\ ApiPods \subseteq Pods
  BY DEF Pods
<1> QED
  BY <1>1, <1>2, <1>3, <1>4 DEF Next, Tick, TickReads, TickFindsNothing,
     TickThrows, Ask, Query, GoesOn, Poll, Persist, PersistError, Wipe, Unlink,
     Answer, Initialize, Mail, Record, Cool, Event, Lose

LEMMA BadTypes ==
  ASSUME bad \in 0..MaxCount, Next
  PROVE  bad' \in 0..MaxCount
<1>1. 0 \in 0..MaxCount /\ Since(bad) \in 0..MaxCount
      /\ Since(bad + 1) \in 0..MaxCount
  BY Bounded, HealthAssumption
<1>2. \A p \in Pods, r \in Results : Row(p, r) \in 0..MaxCount
  BY <1>1 DEF Row
<1>4. ASSUME NEW p \in Pods, GoesOn(p)
      PROVE  bad' \in 0..MaxCount
  <2>1. CASE Errs(p) \/ UNCHANGED bad
    BY <1>1, <2>1 DEF Errs
  <2>2. CASE \E r \in Results : bad' = Row(p, r)
    BY <1>2, <2>2
  <2>3. CASE Poll(p)
    BY <2>1, <2>2, <2>3 DEF Poll
  <2>4. CASE Persist(p)
    BY <2>1, <2>4 DEF Persist
  <2>5. CASE Answer(p)
    BY <2>2, <2>5 DEF Answer
  <2>6. CASE PersistError(p) \/ Wipe(p) \/ Unlink(p)
    BY <2>1, <2>6 DEF PersistError, Wipe, Unlink
  <2> QED
    BY <1>4, <2>3, <2>4, <2>5, <2>6 DEF GoesOn
<1>5. CASE \E a \in ApiPods : Query(a)
  BY <1>1, <1>5 DEF Query
<1>6. CASE UNCHANGED bad
  BY <1>6
<1> QED
  BY <1>4, <1>5, <1>6 DEF Next, Tick, TickReads, TickFindsNothing, TickThrows,
     Ask, Initialize, Crash, Mail, Record, Cool, Event, Lose

LEMMA NoticeTypes ==
  ASSUME notice \in {"none", "mailing", "recording"}, mailed \in 0..2, Next
  PROVE  notice' \in {"none", "mailing", "recording"} /\ mailed' \in 0..2
<1>1. ASSUME NEW p, NEW n, Verdict(p, n)
      PROVE  notice' \in {"none", "mailing", "recording"} /\ mailed' \in 0..2
  BY <1>1 DEF Verdict, Alert, mail
<1>2. CASE UNCHANGED mail
  BY <1>2 DEF mail
<1>3. ASSUME NEW p \in Pods, GoesOn(p)
      PROVE  UNCHANGED mail \/ \E n : Verdict(p, n)
  <2>1. CASE Persist(p)
    BY <2>1 DEF Persist
  <2>2. CASE PersistError(p)
    BY <2>2 DEF PersistError
  <2>3. CASE Poll(p) \/ Wipe(p) \/ Unlink(p) \/ Answer(p)
    BY <2>3 DEF Poll, Wipe, Unlink, Answer
  <2> QED
    BY <1>3, <2>1, <2>2, <2>3 DEF GoesOn
<1>4. CASE \E p \in Pods : GoesOn(p)
  <2>1. PICK p \in Pods : GoesOn(p)
    BY <1>4
  <2>2. CASE \E n : Verdict(p, n)
    <3>1. PICK n : Verdict(p, n)
      BY <2>2
    <3> QED
      BY <1>1, <3>1
  <2> QED
    BY <1>2, <1>3, <2>1, <2>2
<1>5. CASE Mail
  <2>1. mailed = 2 \/ mailed + 1 \in 0..2
    OBVIOUS
  <2> QED
    BY <1>5, <2>1 DEF Mail
<1>6. CASE Record
  <2>1. notice' = "none" /\ mailed' = mailed
    BY <1>6, Zenon DEF Record
  <2> QED
    BY <2>1
<1>7. CASE Cool
  <2>1. notice' = notice /\ mailed' = 0
    BY <1>7, Zenon DEF Cool
  <2> QED
    BY <2>1
<1> QED
  BY <1>2, <1>4, <1>5, <1>6, <1>7 DEF Next, Tick, TickReads, TickFindsNothing,
     TickThrows, Ask, Query, Initialize, Crash, Event, Lose

LEMMA RestTypes ==
  ASSUME holder \in Pods \cup {NoPod}, excuses \subseteq Excuses,
         faults \in 0..MaxFaults, Next
  PROVE  /\ holder' \in Pods \cup {NoPod} /\ excuses' \subseteq Excuses
         /\ faults' \in 0..MaxFaults
<1>1. holder' \in Pods \cup {NoPod}
  BY DEF Next, Tick, TickReads, TickFindsNothing, TickThrows, Ask, Query,
     GoesOn, Poll, Persist, PersistError, Wipe, Unlink, Answer, Initialize,
     Crash, Mail, Record, Cool, Event, Lose, doc
<1>2. excuses' \subseteq Excuses
  BY DEF Next, Tick, TickReads, TickFindsNothing, TickThrows, Ask, Query,
     GoesOn, Poll, Persist, PersistError, Wipe, Unlink, Answer, Initialize,
     Crash, Mail, Record, Cool, Event, Lose, Reads, LeavesEntry, Excuse, Excuses
<1>3. Fault \/ NoFault
  BY DEF Next, Tick, TickReads, TickFindsNothing, TickThrows, Ask, Query,
     GoesOn, Poll, Persist, PersistError, Wipe, Unlink, Answer, Initialize,
     Crash, Mail, Record, Cool, Event, Lose, NoFault
<1>4. faults' \in 0..MaxFaults
  BY <1>3, HealthAssumption DEF Fault, NoFault
<1> QED
  BY <1>1, <1>2, <1>4

-----------------------------------------------------------------------------
LEMMA ReadsStarts ==
  ASSUME TypeOK, NEW p \in Pods, Reads(p)
  PROVE  /\ check' \in Checks /\ check'[p].at = "read"
         /\ check'[p].fails = session.fails /\ check'[p].alerted = session.alerted
         /\ \A q \in Pods \ {p} : check'[q] = check[q]
<1> DEFINE d == [Idle EXCEPT !.at = "read", !.fails = session.fails,
                             !.alerted = session.alerted]
<1>1. check' = [check EXCEPT ![p] = d]
  BY DEF Reads
<1>2. session.fails \in 0..MaxCount /\ session.alerted \in BOOLEAN
  BY DEF TypeOK, Session
<1>3. PICK i \in Check : i = Idle
  BY IdleMoved DEF Stages
<1>4. d = [i EXCEPT !.at = "read", !.fails = session.fails,
                    !.alerted = session.alerted]
  BY <1>3, Zenon
<1>5. /\ d \in Check /\ d.at = "read"
      /\ d.fails = session.fails /\ d.alerted = session.alerted
  <2> HIDE DEF d
  <2> QED  BY <1>2, <1>4 DEF Check, Stages
<1>6. check \in Checks
  BY DEF TypeOK, Checks
<1> HIDE DEF d
<1>7. check' \in Checks /\ check'[p] = d /\ \A q \in Pods \ {p} : check'[q] = check[q]
  BY <1>1, <1>5, <1>6 DEF Checks
<1> QED
  BY <1>5, <1>7, Zenon

\* What a step may do to the checks.
LEMMA CheckSteps ==
  ASSUME TypeOK, entry' \in [Pods -> 0..MaxCount], FlagInv, NEW p \in Pods,
         GoesOn(p)
  PROVE  GoingOn(p) \/ Ending(p) \/ Leaking
<1>0. check \in Checks
  BY DEF TypeOK, Checks
<1>1. CASE Poll(p)
  <2>1. CASE Errs(p)
    BY <1>1, <2>1, ErrsMoves DEF Poll
  <2>2. CASE check' = [check EXCEPT ![p].at = "polled", ![p].seen = entry'[p]]
    <3>1. entry'[p] \in 0..MaxCount /\ "polled" \in Stages
      BY DEF Stages
    <3>2. /\ check' \in Checks /\ check'[p].at = "polled"
          /\ \A q \in Pods \ {p} : check'[q] = check[q]
      BY <1>0, <2>2, <3>1, CheckMoved, Zenon
    <3> QED
      BY <1>1, <3>2 DEF Poll, GoingOn
  <2> QED
    BY <1>1, <2>1, <2>2 DEF Poll
<1>2. CASE Persist(p)
  BY <1>2, VerdictMoves, ErrsMoves DEF Persist
<1>3. CASE PersistError(p)
  <2>1. CASE Verdict(p, UpTo(check[p].fails + 1))
    BY <1>3, <2>1, VerdictMoves DEF PersistError
  <2>2. CASE /\ check' = [check EXCEPT ![p] = Idle]
             /\ Excuse(p \in Workers, {"leak"})
             /\ UNCHANGED running
    <3>1. /\ check' \in Checks /\ check'[p].at = "idle"
          /\ \A q \in Pods \ {p} : check'[q] = check[q]
      BY <1>0, <2>2, CheckOver
    <3>2. CASE p \in Workers
      BY <2>2, <3>1, <3>2 DEF Leaking, FlagInv, Excuse, Pods
    <3>3. CASE p \notin Workers
      BY <2>2, <3>1, <3>3 DEF Ending, FlagInv
    <3> QED  BY <3>2, <3>3
  <2> QED
    BY <1>3, <2>1, <2>2 DEF PersistError
<1>4. CASE Wipe(p)
  <2>1. check' = [check EXCEPT ![p].at = "unlinking"] /\ "unlinking" \in Stages
    BY <1>4 DEF Wipe, Stages
  <2>2. /\ check' \in Checks /\ check'[p].at = "unlinking"
        /\ \A q \in Pods \ {p} : check'[q] = check[q]
    BY <1>0, <2>1, CheckAt, Zenon
  <2> QED
    BY <1>4, <2>2 DEF Wipe, GoingOn
<1>5. CASE Unlink(p)
  BY <1>5, EndsEnds DEF Unlink
<1>6. CASE Answer(p)
  <2>1. p \notin Workers
    BY <1>6 DEF Answer, FlagInv
  <2>2. check' \in Checks /\ \A q \in Pods \ {p} : check'[q] = check[q]
    BY <1>0, <1>6, CheckOver DEF Answer
  <2> QED
    BY <1>6, <2>1, <2>2 DEF Answer, Ending, FlagInv
<1> QED
  BY <1>1, <1>2, <1>3, <1>4, <1>5, <1>6 DEF GoesOn

LEMMA CoolKeeps ==
  ASSUME check \in Checks, Cool
  PROVE  /\ check' \in Checks
         /\ \A p \in Pods : /\ check'[p].at = check[p].at
                            /\ check'[p].fails = check[p].fails
                            /\ check'[p].seen = check[p].seen
<1>1. ASSUME NEW c \in Check
      PROVE  /\ [c EXCEPT !.alerted = FALSE] \in Check
             /\ [c EXCEPT !.alerted = FALSE].at = c.at
             /\ [c EXCEPT !.alerted = FALSE].fails = c.fails
             /\ [c EXCEPT !.alerted = FALSE].seen = c.seen
  BY DEF Check
<1>2. check' = [p \in Pods |-> [check[p] EXCEPT !.alerted = FALSE]]
  BY DEF Cool
<1>3. ASSUME NEW p \in Pods
      PROVE  /\ check'[p] \in Check /\ check'[p].at = check[p].at
             /\ check'[p].fails = check[p].fails /\ check'[p].seen = check[p].seen
  <2>1. check[p] \in Check
    BY DEF Checks
  <2>2. check'[p] = [check[p] EXCEPT !.alerted = FALSE]
    BY <1>2
  <2> QED
    BY <1>1, <2>1, <2>2, Zenon
<1> QED
  BY <1>2, <1>3 DEF Checks

\* Every step keeps the flags true.
LEMMA FlagStep ==
  ASSUME TypeOK, FlagInv, Next,
         entry' \in [Pods -> 0..MaxCount]
  PROVE  FlagInv'
<1>0. "leak" \in excuses => "leak" \in excuses'
  BY ExcusesGrow
<1>1. Workers \subseteq Pods /\ ApiPods \subseteq Pods
      /\ \A a \in ApiPods : a \notin Workers
  BY HealthAssumption DEF Pods
<1>2. check \in Checks /\ running \in Flags
  BY DEF FlagInv
<1>3. CASE UNCHANGED <<check, running>>
  BY <1>0, <1>3 DEF FlagInv, FlagFollowsCheck
<1>4. ASSUME NEW w \in Workers, TickReads(w)
      PROVE  Starting(w)
  <2>1. /\ check' \in Checks /\ check'[w].at = "read"
        /\ \A q \in Pods \ {w} : check'[q] = check[q]
    BY <1>1, <1>4, ReadsStarts DEF TickReads
  <2>2. running' = [running EXCEPT ![w] = TRUE]
    BY <1>4 DEF TickReads
  <2>3. running' \in Flags /\ running'[w]
        /\ \A q \in Pods \ {w} : running'[q] = running[q]
    BY <1>1, <1>2, <2>2 DEF Flags
  <2> QED
    BY <2>1, <2>3 DEF Starting
<1>5. ASSUME NEW w \in Workers, TickFindsNothing(w)
      PROVE  Ending(w)
  <2>1. running' = [running EXCEPT ![w] = FALSE] /\ UNCHANGED check
        /\ check[w].at = "idle"
    BY <1>5 DEF TickFindsNothing, Tickable, Free
  <2>2. running' \in Flags /\ ~running'[w]
        /\ \A q \in Pods \ {w} : running'[q] = running[q]
    BY <1>1, <1>2, <2>1 DEF Flags
  <2> QED
    BY <1>2, <2>1, <2>2 DEF Ending
<1>6. ASSUME NEW w \in Workers, TickThrows(w)
      PROVE  Leaking
  <2>1. running' = [running EXCEPT ![w] = TRUE] /\ UNCHANGED check
        /\ "leak" \in excuses'
    BY <1>6 DEF TickThrows, Excuse
  <2>2. running' \in Flags
    BY <1>1, <1>2, <2>1 DEF Flags
  <2> QED
    BY <1>2, <2>1, <2>2 DEF Leaking, FlagInv
<1>7. ASSUME NEW a \in ApiPods, Ask(a)
      PROVE  Ending(a)
  <2>1. UNCHANGED running
    BY <1>7 DEF Ask
  <2>2. check' \in Checks /\ \A q \in Pods \ {a} : check'[q] = check[q]
    <3>1. CASE Reads(a)
      BY <1>1, <3>1, ReadsStarts
    <3>2. CASE check' = [check EXCEPT ![a].at = "answering"]
      <4>1. "answering" \in Stages
        BY DEF Stages
      <4> QED
        BY <1>1, <1>2, <3>2, <4>1, CheckAt, Zenon
    <3> QED
      BY <1>7, <3>1, <3>2 DEF Ask
  <2> QED
    BY <1>1, <1>2, <2>1, <2>2 DEF Ending
<1>8. ASSUME NEW p \in Pods, GoesOn(p)
      PROVE  GoingOn(p) \/ Ending(p) \/ Leaking
  BY <1>8, CheckSteps
<1>9. ASSUME NEW p \in Pods, Crash(p)
      PROVE  Ending(p)
  <2>1. check' = [check EXCEPT ![p] = Idle] /\ running' = [running EXCEPT ![p] = FALSE]
    BY <1>9 DEF Crash
  <2>2. check' \in Checks /\ check'[p].at = "idle"
        /\ \A q \in Pods \ {p} : check'[q] = check[q]
    BY <1>2, <2>1, CheckOver
  <2>3. running' \in Flags /\ ~running'[p]
        /\ \A q \in Pods \ {p} : running'[q] = running[q]
    BY <1>2, <2>1 DEF Flags
  <2> QED
    BY <2>2, <2>3 DEF Ending
<1>10. CASE Cool
  <2>1. check' \in Checks /\ \A p \in Pods : check'[p].at = check[p].at
    BY <1>2, <1>10, CoolKeeps
  <2>2. UNCHANGED <<running, excuses>>
    BY <1>10 DEF Cool
  <2> QED
    BY <1>1, <1>2, <2>1, <2>2 DEF FlagInv, FlagFollowsCheck
<1>11. ASSUME NEW p \in Pods, Starting(p) \/ GoingOn(p) \/ Ending(p) \/ Leaking
       PROVE  FlagInv'
  BY <1>0, <1>11, FlagSteps
<1>12. CASE \E w \in Workers : Tick(w)
  BY <1>1, <1>4, <1>5, <1>6, <1>11, <1>12 DEF Tick
<1>13. CASE \E a \in ApiPods : Ask(a)
  BY <1>1, <1>7, <1>11, <1>13
<1>14. CASE \E p \in Pods : GoesOn(p) \/ Crash(p)
  BY <1>8, <1>9, <1>11, <1>14
<1>15. CASE \/ \E a \in ApiPods : Query(a)
            \/ \E p \in Pods : Initialize(p)
            \/ Mail \/ Record \/ Event \/ Lose
  BY <1>3, <1>15 DEF Query, Initialize, Mail, Record, Event, Lose
<1> QED
  BY <1>10, <1>12, <1>13, <1>14, <1>15 DEF Next

-----------------------------------------------------------------------------
HealthInv == TypeOK /\ FlagInv

LEMMA InitHealth == Init => HealthInv
<1> SUFFICES ASSUME Init PROVE HealthInv
  OBVIOUS
<1>1. Idle \in Check /\ Idle.at = "idle"
  BY IdleMoved DEF Stages
<1>2. check \in Checks /\ \A p \in Pods : check[p].at = "idle"
  BY <1>1 DEF Init, Checks
<1>3. TypeOK
  BY <1>2, HealthAssumption DEF Init, TypeOK, Session, Status, Checks
<1>4. FlagInv
  BY <1>2 DEF Init, FlagInv, Flags, FlagFollowsCheck, Pods
<1> QED
  BY <1>3, <1>4 DEF HealthInv

LEMMA HealthStep ==
  ASSUME HealthInv, [Next]_vars
  PROVE  HealthInv'
<1>1. CASE UNCHANGED vars
  BY <1>1 DEF vars, HealthInv, TypeOK, FlagInv, FlagFollowsCheck
<1>2. CASE Next
  <2>1. /\ session \in Session /\ check \in Checks
        /\ entry \in [Pods -> 0..MaxCount] /\ bad \in 0..MaxCount
        /\ notice \in {"none", "mailing", "recording"} /\ mailed \in 0..2
        /\ holder \in Pods \cup {NoPod} /\ excuses \subseteq Excuses
        /\ faults \in 0..MaxFaults
    BY DEF HealthInv, TypeOK, Checks
  <2>2. entry' \in [Pods -> 0..MaxCount]
    BY <1>2, <2>1, EntryTypes
  <2>3. FlagInv'
    BY <1>2, <2>2, FlagStep DEF HealthInv
  <2>4. session' \in Session
    BY <1>2, <2>1, SessionTypes
  <2>5. bad' \in 0..MaxCount
    BY <1>2, <2>1, BadTypes
  <2>6. notice' \in {"none", "mailing", "recording"} /\ mailed' \in 0..2
    BY <1>2, <2>1, NoticeTypes
  <2>7. /\ holder' \in Pods \cup {NoPod} /\ excuses' \subseteq Excuses
        /\ faults' \in 0..MaxFaults
    BY <1>2, <2>1, RestTypes
  <2>8. TypeOK'
    BY <2>2, <2>3, <2>4, <2>5, <2>6, <2>7 DEF TypeOK, FlagInv, Checks, Flags
  <2> QED
    BY <2>3, <2>8 DEF HealthInv
<1> QED
  BY <1>1, <1>2

LEMMA HealthInvHolds == Spec => []HealthInv
<1>1. HealthInv /\ [Next]_vars => HealthInv'
  BY HealthStep
<1> QED
  BY InitHealth, <1>1, PTL DEF Spec

\* Documents, counts and checks keep their types: no count exceeds its bound
\* and nothing but a stage of checkSession is ever in progress.
THEOREM HealthTypeCorrect == Spec => []TypeOK
<1>1. HealthInv => TypeOK
  BY DEF HealthInv
<1> QED
  BY HealthInvHolds, <1>1, PTL

\* The running flag of every worker is set exactly while a run of it is under
\* way, unless a database error has broken a run off (HS 88-141).
THEOREM FlagIsTrue == Spec => []FlagFollowsCheck
<1>1. HealthInv => FlagFollowsCheck
  BY DEF HealthInv, FlagInv
<1> QED
  BY HealthInvHolds, <1>1, PTL

-----------------------------------------------------------------------------
\* The alerts.

\* A check of p that may still raise an alert.
Deciding(p) == check[p].at \in {"read", "polled", "erring"}

\* At most one check is deciding, none while an alert is on its way, and what it
\* has read of the last alert is what the document says; whoever could send
\* another e-mail in this cool-down knows of the first.
AlertInv ==
  "alert" \notin excuses =>
    /\ mailed <= 1
    /\ notice = "mailing" => mailed = 0
    /\ notice = "none" /\ mailed = 1 =>
         /\ session.alerted
         /\ \A p \in Pods : Deciding(p) => check[p].alerted
    /\ notice # "none" => \A p \in Pods : ~Deciding(p)
    /\ \A p, q \in Pods : Deciding(p) /\ Deciding(q) => p = q

\* Nothing new is decided.
LEMMA AlertQuiet ==
  ASSUME AlertInv, excuses \subseteq excuses', UNCHANGED mail,
         session'.alerted = session.alerted,
         \A p \in Pods : Deciding(p)' =>
           Deciding(p) /\ check'[p].alerted = check[p].alerted
  PROVE  AlertInv'
BY DEF AlertInv, mail

\* A check begins: nothing else is under way, or it is excused.
LEMMA AlertBegin ==
  ASSUME HealthInv, AlertInv, NEW p \in Pods, Reads(p), UNCHANGED <<session, mail>>
  PROVE  AlertInv'
<1> SUFFICES ASSUME "alert" \notin excuses' PROVE AlertInv'
  BY DEF AlertInv
<1>1. "alert" \notin excuses /\ ~UnderWay
  BY DEF Reads, Excuse
<1>2. notice = "none" /\ \A q \in Pods : ~Deciding(q)
  BY <1>1 DEF UnderWay, Deciding
<1>3. /\ check'[p].alerted = session.alerted
      /\ \A q \in Pods \ {p} : check'[q] = check[q]
  BY ReadsStarts DEF HealthInv
<1>4. \A q \in Pods \ {p} : ~Deciding(q)'
  BY <1>2, <1>3 DEF Deciding
<1> QED
  BY <1>1, <1>2, <1>3, <1>4 DEF AlertInv, mail

\* A deciding check raises the alert: nobody has sent one, or its copy says so.
LEMMA AlertRaised ==
  ASSUME HealthInv, AlertInv, NEW p \in Pods, Deciding(p), Alert(p),
         excuses \subseteq excuses', session'.alerted = session.alerted,
         ~Deciding(p)', \A q \in Pods \ {p} : check'[q] = check[q]
  PROVE  AlertInv'
<1> SUFFICES ASSUME "alert" \notin excuses' PROVE AlertInv'
  BY DEF AlertInv
<1>1. /\ mailed <= 1 /\ notice = "none" /\ mailed' = mailed /\ mailed \in 0..2
      /\ mailed = 1 => session.alerted /\ check[p].alerted
      /\ \A q \in Pods \ {p} : ~Deciding(q)
  BY DEF AlertInv, Alert, HealthInv, TypeOK
<1>2. \A q \in Pods : ~Deciding(q)'
  BY <1>1 DEF Deciding
<1>3. CASE check[p].alerted
  <2>1. notice' = notice
    BY <1>3 DEF Alert
  <2> QED
    BY <1>1, <1>2, <2>1 DEF AlertInv
<1>4. CASE ~check[p].alerted
  <2>1. notice' = "mailing" /\ mailed = 0
    BY <1>1, <1>4 DEF Alert
  <2> QED
    BY <1>1, <1>2, <2>1 DEF AlertInv
<1> QED
  BY <1>3, <1>4

\* The end of a deciding check, with an alert or without.
LEMMA VerdictAlerts ==
  ASSUME HealthInv, AlertInv, NEW p \in Pods, Deciding(p), NEW n, Verdict(p, n),
         excuses \subseteq excuses', session'.alerted = session.alerted
  PROVE  AlertInv'
<1>1. /\ check' \in Checks /\ \A q \in Pods \ {p} : check'[q] = check[q]
      /\ check'[p].at \in {"idle", "answering", "wiping"}
  <2>0. check \in Checks
    BY DEF HealthInv, FlagInv
  <2>1. CASE Ends(p)
    BY <2>0, <2>1, CheckOver, CheckReset DEF Ends, Stages
  <2>2. CASE check' = [check EXCEPT ![p] = [Idle EXCEPT !.at = "wiping"]]
    BY <2>0, <2>2, CheckReset DEF Stages
  <2> QED
    BY <2>1, <2>2 DEF Verdict
<1>2. ~Deciding(p)'
  BY <1>1 DEF Deciding
<1>3. CASE Alert(p)
  BY <1>1, <1>2, <1>3, AlertRaised
<1>4. CASE UNCHANGED mail
  BY <1>1, <1>2, <1>4, AlertQuiet DEF Deciding
<1> QED
  BY <1>3, <1>4 DEF Verdict

\* Every step keeps what is known of the alerts.
LEMMA AlertStep ==
  ASSUME HealthInv, HealthInv', AlertInv, [Next]_vars
  PROVE  AlertInv'
<1>0. /\ check \in Checks /\ check' \in Checks /\ session \in Session
      /\ mailed \in 0..2 /\ Workers \subseteq Pods /\ ApiPods \subseteq Pods
  BY DEF HealthInv, FlagInv, TypeOK, Pods
<1>1. ASSUME excuses \subseteq excuses', UNCHANGED mail,
             session'.alerted = session.alerted, NEW p \in Pods,
             \A q \in Pods \ {p} : check'[q] = check[q],
             Deciding(p)' => Deciding(p) /\ check'[p].alerted = check[p].alerted
      PROVE  AlertInv'
  BY <1>1, AlertQuiet DEF Deciding
<1>2. ASSUME NEW p \in Pods, Poll(p)
      PROVE  AlertInv'
  <2>1. /\ UNCHANGED <<session, excuses, mail>> /\ check[p].at = "read"
        /\ \E s \in Stages, n \in 0..MaxCount :
             check' = [check EXCEPT ![p].at = s, ![p].seen = n]
    <3>1. 0 \in 0..MaxCount /\ entry'[p] \in 0..MaxCount
      BY HealthAssumption DEF HealthInv, TypeOK
    <3> QED
      BY <1>2, <3>1 DEF Poll, Errs, doc, Stages
  <2>2. PICK s \in Stages, n \in 0..MaxCount :
          check' = [check EXCEPT ![p].at = s, ![p].seen = n]
    BY <2>1
  <2>3. /\ check'[p].alerted = check[p].alerted
        /\ \A q \in Pods \ {p} : check'[q] = check[q]
    BY <1>0, <2>2, CheckMoved
  <2> QED
    BY <1>1, <2>1, <2>3 DEF Deciding
<1>3. ASSUME NEW p \in Pods, Persist(p) \/ PersistError(p)
      PROVE  AlertInv'
  <2>1. Deciding(p) /\ excuses \subseteq excuses'
    BY <1>3 DEF Persist, PersistError, Deciding, Excuse
  <2>2. session'.alerted = session.alerted
    BY <1>0, <1>3 DEF Persist, PersistError, Session
  <2>3. CASE \E n : Verdict(p, n)
    BY <2>1, <2>2, <2>3, VerdictAlerts
  <2>4. CASE Errs(p) /\ UNCHANGED mail
    <3>1. check' = [check EXCEPT ![p].at = "erring", ![p].seen = 0]
          /\ "erring" \in Stages /\ 0 \in 0..MaxCount
      BY <2>4, HealthAssumption DEF Errs, Stages
    <3>2. /\ check'[p].alerted = check[p].alerted
          /\ \A q \in Pods \ {p} : check'[q] = check[q]
      BY <1>0, <3>1, CheckMoved, Zenon
    <3> QED
      BY <1>1, <2>1, <2>2, <2>4, <3>2
  <2>5. CASE check' = [check EXCEPT ![p] = Idle] /\ UNCHANGED mail
    <3>1. check'[p].at = "idle" /\ \A q \in Pods \ {p} : check'[q] = check[q]
      BY <1>0, <2>5, CheckOver
    <3> QED
      BY <1>1, <2>1, <2>2, <2>5, <3>1 DEF Deciding
  <2>6. CASE Persist(p)
    BY <2>3, <2>4, <2>6 DEF Persist
  <2>7. CASE PersistError(p)
    BY <2>3, <2>5, <2>7 DEF PersistError
  <2> QED
    BY <1>3, <2>6, <2>7
<1>4. ASSUME NEW p \in Pods, Wipe(p) \/ Unlink(p) \/ Answer(p) \/ Crash(p)
      PROVE  AlertInv'
  <2>1. excuses \subseteq excuses' /\ UNCHANGED mail
    BY <1>4 DEF Wipe, Unlink, Answer, Crash, LeavesEntry, Excuse
  <2>2. session'.alerted = session.alerted
    BY <1>0, <1>4 DEF Wipe, Unlink, Answer, Crash, doc, Session
  <2>3. /\ \A q \in Pods \ {p} : check'[q] = check[q]
        /\ check'[p].at \in {"idle", "answering", "unlinking"}
    <3>1. CASE check' = [check EXCEPT ![p].at = "unlinking"]
      <4>1. "unlinking" \in Stages
        BY DEF Stages
      <4> QED
        BY <1>0, <3>1, <4>1, CheckAt, Zenon
    <3>2. CASE check' = [check EXCEPT ![p] = Idle]
      BY <1>0, <3>2, CheckOver
    <3>3. CASE Ends(p)
      BY <1>0, <3>3, CheckOver, CheckReset DEF Ends, Stages
    <3> QED
      BY <1>4, <3>1, <3>2, <3>3 DEF Wipe, Unlink, Answer, Crash
  <2> QED
    BY <1>1, <2>1, <2>2, <2>3 DEF Deciding
<1>5. ASSUME NEW a \in ApiPods, Ask(a)
      PROVE  AlertInv'
  <2>1. UNCHANGED <<session, mail>>
    BY <1>5 DEF Ask, doc
  <2>2. CASE Reads(a)
    BY <1>0, <2>1, <2>2, AlertBegin
  <2>3. CASE check' = [check EXCEPT ![a].at = "answering"] /\ UNCHANGED excuses
    <3>1. /\ "answering" \in Stages
          /\ check' = [check EXCEPT ![a].at = "answering"]
      BY <2>3 DEF Stages
    <3>2. /\ check'[a].at = "answering"
          /\ \A q \in Pods \ {a} : check'[q] = check[q]
      BY <1>0, <3>1, CheckAt, Zenon
    <3> QED
      BY <1>0, <1>1, <2>1, <2>3, <3>2 DEF Deciding
  <2> QED
    BY <1>5, <2>2, <2>3 DEF Ask
<1>6. ASSUME NEW w \in Workers, Tick(w)
      PROVE  AlertInv'
  <2>1. CASE TickReads(w)
    BY <1>0, <2>1, AlertBegin DEF TickReads, doc
  <2>2. CASE TickFindsNothing(w) \/ TickThrows(w)
    <3>1. UNCHANGED <<session, check, mail>> /\ excuses \subseteq excuses'
      BY <2>2 DEF TickFindsNothing, TickThrows, doc, Excuse
    <3> QED
      BY <3>1, AlertQuiet DEF Deciding
  <2> QED
    BY <1>6, <2>1, <2>2 DEF Tick
<1>7. CASE \/ \E a \in ApiPods : Query(a)
           \/ \E p \in Pods : Initialize(p)
           \/ Event \/ Lose
  <2>1. UNCHANGED <<check, mail>> /\ excuses \subseteq excuses'
    BY <1>7 DEF Query, Initialize, Event, Lose, LeavesEntry, Excuse
  <2>2. session'.alerted = session.alerted
    BY <1>0, <1>7 DEF Query, Initialize, Event, Lose, doc, Session
  <2> QED
    BY <2>1, <2>2, AlertQuiet DEF Deciding
<1>8. CASE Mail
  <2>1. /\ UNCHANGED <<session, check, excuses>> /\ notice = "mailing"
        /\ \/ /\ notice' = "recording"
              /\ "alert" \notin excuses /\ mailed = 0 => mailed' = 1
           \/ notice' = "none" /\ mailed' = mailed
    BY <1>8 DEF Mail, doc
  <2> QED
    BY <2>1 DEF AlertInv, Deciding
<1>9. CASE Record
  <2>1. /\ UNCHANGED <<check, mailed>> /\ excuses \subseteq excuses'
        /\ notice = "recording" /\ notice' = "none"
        /\ "alert" \in excuses' \/ session' = [session EXCEPT !.alerted = TRUE]
    BY <1>9 DEF Record, Excuse
  <2>2. "alert" \in excuses' \/ session'.alerted
    BY <1>0, <2>1 DEF Session
  <2> QED
    BY <2>1, <2>2 DEF AlertInv, Deciding
<1>10. CASE Cool
  <2>1. /\ mailed' = 0 /\ notice' = notice /\ excuses' = excuses
        /\ \A p \in Pods : check'[p].at = check[p].at
    BY <1>0, <1>10, CoolKeeps DEF Cool
  <2> QED
    BY <2>1 DEF AlertInv, Deciding
<1>11. CASE UNCHANGED vars
  BY <1>11, AlertQuiet DEF vars, mail, Deciding
<1> QED
  BY <1>2, <1>3, <1>4, <1>5, <1>6, <1>7, <1>8, <1>9, <1>10, <1>11
     DEF Next, GoesOn

\* However many pods check, crash and fail: a cool-down sees one alert by
\* e-mail, although raiseAlert decides on a copy older than the e-mail - unless
\* checks overlapped, or the time of the alert could not be recorded.
THEOREM AlertsAreSpaced == Spec => []AlertsSpaced
<1>1. Init => AlertInv
  <2> SUFFICES ASSUME Init PROVE AlertInv
    OBVIOUS
  <2>1. \A p \in Pods : check[p] = Idle
    BY DEF Init
  <2>2. Idle.at = "idle"
    BY DEF Idle
  <2>3. \A p \in Pods : ~Deciding(p)
    BY <2>1, <2>2 DEF Deciding
  <2> QED
    BY <2>3 DEF Init, AlertInv
<1>2. HealthInv /\ HealthInv' /\ AlertInv /\ [Next]_vars => AlertInv'
  BY AlertStep
<1>3. AlertInv => AlertsSpaced
  BY DEF AlertInv, AlertsSpaced
<1> QED
  BY <1>1, <1>2, <1>3, HealthInvHolds, PTL DEF Spec

-----------------------------------------------------------------------------
\* The wipes.

\* The entry of the client's pod is covered by failures, no other pod has one.
EntriesCounted ==
  \A p \in Pods : IF p = holder THEN entry[p] <= bad ELSE entry[p] = 0

\* So is the count of the document, unless a check is about to write it, the
\* count of every check, and the one that a check in error will write.
ChecksCounted ==
  /\ (\A p \in Pods : check[p].at # "polled") => session.fails <= bad
  /\ \A p \in Pods : Deciding(p) => check[p].fails = session.fails
  /\ \A p \in Pods : check[p].at = "polled" => check[p].seen <= bad
  /\ \A p \in Pods : check[p].at = "erring" => UpTo(check[p].fails + 1) <= bad
  /\ \A p, q \in Pods : Deciding(p) /\ Deciding(q) => p = q

\* No count is higher than the number of failures since the last good check.
WipeInv == "wipe" \notin excuses => EntriesCounted /\ ChecksCounted

\* The bound on counts cuts none short that the failures do not reach.
LEMMA SinceCounts ==
  ASSUME TypeOK, "wipe" \notin excuses
  PROVE  /\ Since(bad) = bad /\ Since(bad + 1) = UpTo(bad + 1)
         /\ bad <= UpTo(bad + 1) /\ UpTo(bad + 1) \in 0..MaxCount
         /\ \A n \in 0..MaxCount :
              n <= bad => /\ UpTo(n + 1) <= UpTo(bad + 1)
                          /\ n + 1 <= MaxCount => n + 1 <= UpTo(bad + 1)
BY HealthAssumption DEF TypeOK, Since, UpTo

\* A poll that fails adds to the entry what it adds to the failures; a good one
\* leaves nothing of the entry.
LEMMA PollCounts ==
  ASSUME TypeOK, EntriesCounted, "wipe" \notin excuses,
         NEW p \in Pods, NEW r \in Results, Polls(p, r), NEW b \in BOOLEAN,
         bad' = CASE r = "hard" -> UpTo(bad + 1) [] r = "good" /\ b -> 0
                  [] OTHER -> bad,
         UNCHANGED holder
  PROVE  EntriesCounted' /\ entry'[p] <= bad'
<1>1. /\ \A q \in Pods : entry[q] \in 0..MaxCount
      /\ bad \in 0..MaxCount /\ holder \in Pods \cup {NoPod}
  BY DEF TypeOK
<1>2. CASE holder = p
  <2>1. /\ r # "none" /\ Counted(entry[p], r) <= MaxCount
        /\ entry' = [entry EXCEPT ![p] = Counted(entry[p], r)]
    BY <1>2 DEF Polls
  <2>2. entry'[p] = Counted(entry[p], r)
        /\ \A q \in Pods \ {p} : entry'[q] = entry[q]
    BY <2>1 DEF TypeOK
  <2>3. entry[p] <= bad /\ \A q \in Pods \ {p} : entry[q] = 0
    BY <1>2 DEF EntriesCounted
  <2>4. Counted(entry[p], r) <= bad'
    <3>1. CASE r = "hard"
      <4>1. bad' = UpTo(bad + 1) /\ Counted(entry[p], r) = entry[p] + 1
        BY <3>1 DEF Counted
      <4> QED
        BY <1>1, <2>1, <2>3, <4>1, SinceCounts
    <3>2. CASE r = "good"
      <4>1. bad' \in {0, bad} /\ Counted(entry[p], r) = 0
        BY <3>2 DEF Counted, Good
      <4> QED
        BY <1>1, <4>1
    <3>3. CASE r = "transient"
      <4>1. bad' = bad /\ Counted(entry[p], r) = entry[p]
        BY <3>3 DEF Counted
      <4> QED
        BY <2>3, <4>1
    <3> QED
      BY <2>1, <3>1, <3>2, <3>3 DEF Results
  <2> QED
    BY <1>2, <2>2, <2>3, <2>4 DEF EntriesCounted
<1>3. CASE holder # p
  <2>1. r = "none" /\ UNCHANGED entry
    BY <1>3 DEF Polls
  <2>2. bad' = bad
    BY <2>1
  <2> QED
    BY <1>1, <1>3, <2>1, <2>2 DEF EntriesCounted
<1> QED
  BY <1>2, <1>3

\* What the history of failures becomes with a result.
LEMMA RowCounts ==
  ASSUME TypeOK, "wipe" \notin excuses, NEW p \in Pods, NEW r \in Results
  PROVE  Row(p, r) = CASE r = "hard" -> UpTo(bad + 1)
                       [] r = "good" /\ (check[p].at = "read") -> 0
                       [] OTHER -> bad
<1>1. Since(bad) = bad /\ Since(bad + 1) = UpTo(bad + 1)
  BY SinceCounts
<1> QED
  BY <1>1 DEF Row, Results

\* Nothing new is counted.
LEMMA ChecksQuiet ==
  ASSUME ChecksCounted, bad \in Nat, bad' \in Nat, bad <= bad',
         session.fails \in Nat, session'.fails = session.fails,
         check \in Checks, check' \in Checks,
         \A p \in Pods : Deciding(p)' =>
           /\ check'[p].at = check[p].at /\ check'[p].fails = check[p].fails
           /\ check'[p].seen = check[p].seen,
         \A p \in Pods : check[p].at = "polled" =>
           check'[p].at = "polled" \/ session.fails <= bad
  PROVE  ChecksCounted'
<1>0. \A p \in Pods : /\ check[p].seen \in Nat /\ UpTo(check[p].fails + 1) \in Nat
                      /\ check'[p].at \in {"polled", "erring"} => Deciding(p)'
                      /\ Deciding(p)' => Deciding(p)
  BY HealthAssumption DEF Checks, Check, UpTo, Deciding
<1>1. (\A p \in Pods : check'[p].at # "polled") => session'.fails <= bad'
  <2>1. SUFFICES ASSUME \A p \in Pods : check'[p].at # "polled"
                 PROVE  session.fails <= bad'
    OBVIOUS
  <2>2. session.fails <= bad
    BY <2>1 DEF ChecksCounted
  <2> QED
    BY <2>2
<1>2. \A p \in Pods : Deciding(p)' => check'[p].fails = session'.fails
  BY <1>0 DEF ChecksCounted
<1>3. \A p \in Pods : check'[p].at = "polled" => check'[p].seen <= bad'
  BY <1>0 DEF ChecksCounted
<1>4. \A p \in Pods : check'[p].at = "erring" => UpTo(check'[p].fails + 1) <= bad'
  <2>1. SUFFICES ASSUME NEW p \in Pods, check'[p].at = "erring"
                 PROVE  UpTo(check'[p].fails + 1) <= bad'
    OBVIOUS
  <2>2. check'[p].fails = check[p].fails /\ check[p].at = "erring"
    BY <1>0, <2>1
  <2>3. UpTo(check[p].fails + 1) <= bad
    BY <2>2 DEF ChecksCounted
  <2> QED
    BY <1>0, <2>2, <2>3
<1>5. \A p, q \in Pods : Deciding(p)' /\ Deciding(q)' => p = q
  BY <1>0 DEF ChecksCounted
<1> QED
  BY <1>1, <1>2, <1>3, <1>4, <1>5 DEF ChecksCounted

\* The end of a check: whatever it was, it decides nothing more, and it wipes
\* only when the count is above the threshold.
LEMMA VerdictEnds ==
  ASSUME check \in Checks, NEW p \in Pods, NEW n, Verdict(p, n)
  PROVE  /\ check' \in Checks /\ \A q \in Pods \ {p} : check'[q] = check[q]
         /\ check'[p].at \in {"idle", "answering", "wiping"}
         /\ check'[p].at = "wiping" => n > Threshold
<1>1. CASE n > Threshold
  <2>1. check' = [check EXCEPT ![p] = [Idle EXCEPT !.at = "wiping"]]
    BY <1>1 DEF Verdict
  <2> QED
    BY <1>1, <2>1, CheckReset DEF Stages
<1>2. CASE ~(n > Threshold)
  <2>1. Ends(p)
    BY <1>2 DEF Verdict
  <2> QED
    BY <2>1, CheckOver, CheckReset DEF Ends, Stages
<1> QED
  BY <1>1, <1>2

\* The check of p, the only one that decides, ends; the document is covered.
LEMMA ChecksEnd ==
  ASSUME ChecksCounted, NEW p \in Pods, Deciding(p), ~Deciding(p)',
         \A q \in Pods \ {p} : check'[q] = check[q], session'.fails <= bad'
  PROVE  ChecksCounted'
<1>1. \A q \in Pods : ~Deciding(q)'
  BY DEF ChecksCounted, Deciding
<1> QED
  BY <1>1 DEF ChecksCounted, Deciding

\* The check of p goes on to the error path; its copy is covered.
LEMMA ChecksErr ==
  ASSUME TypeOK, ChecksCounted, NEW p \in Pods, Deciding(p), Errs(p),
         session'.fails = session.fails, check[p].fails <= bad,
         "wipe" \notin excuses
  PROVE  ChecksCounted' /\ bad <= bad'
<1>1. /\ check' \in Checks /\ check'[p].at = "erring"
      /\ check'[p].fails = check[p].fails
      /\ \A q \in Pods \ {p} : check'[q] = check[q]
  <2>1. check' = [check EXCEPT ![p].at = "erring", ![p].seen = 0]
    BY DEF Errs
  <2>2. check \in Checks /\ "erring" \in Stages /\ 0 \in 0..MaxCount
    BY HealthAssumption DEF TypeOK, Checks, Stages
  <2> QED
    BY <2>1, <2>2, CheckMoved, Zenon
<1>2. \A q \in Pods \ {p} : ~Deciding(q)'
  BY <1>1 DEF ChecksCounted, Deciding
<1>3. check[p].fails \in 0..MaxCount /\ bad \in 0..MaxCount
  BY DEF TypeOK, Check
<1>4. bad' = UpTo(bad + 1)
  BY SinceCounts DEF Errs
<1>5. UpTo(check[p].fails + 1) <= bad' /\ check[p].fails <= bad' /\ bad <= bad'
      /\ bad' \in 0..MaxCount
  BY <1>3, <1>4, SinceCounts
<1>6. session'.fails = check[p].fails
  BY DEF ChecksCounted
<1> QED
  BY <1>1, <1>2, <1>5, <1>6 DEF ChecksCounted, Deciding

\* Every step keeps the counts below the failures.
LEMMA WipeStep ==
  ASSUME HealthInv, HealthInv', WipeInv, [Next]_vars
  PROVE  WipeInv'
<1> SUFFICES ASSUME "wipe" \notin excuses' PROVE EntriesCounted' /\ ChecksCounted'
  BY DEF WipeInv
<1>0. /\ check \in Checks /\ check' \in Checks /\ session \in Session
      /\ session.fails \in Nat /\ bad \in 0..MaxCount /\ bad' \in 0..MaxCount
      /\ bad \in Nat /\ bad' \in Nat /\ bad <= bad
      /\ TypeOK /\ Workers \subseteq Pods /\ ApiPods \subseteq Pods
  BY HealthAssumption DEF HealthInv, FlagInv, TypeOK, Pods, Session
<1>1. "wipe" \notin excuses
  BY ExcusesGrow DEF vars
<1>2. EntriesCounted /\ ChecksCounted
  BY <1>1 DEF WipeInv
<1>3. ASSUME NEW p \in Pods, bad <= bad', session'.fails = session.fails,
             \A q \in Pods \ {p} : check'[q] = check[q],
             ~Deciding(p)' \/ UNCHANGED check,
             check[p].at = "polled" => check'[p].at = "polled" \/ session.fails <= bad
      PROVE  ChecksCounted'
  BY <1>0, <1>2, <1>3, ChecksQuiet DEF Deciding
<1>4. ASSUME UNCHANGED <<entry, bad, holder>>
      PROVE  EntriesCounted'
  BY <1>2, <1>4 DEF EntriesCounted
<1>5. ASSUME NEW p \in Pods, holder' = IF holder = p THEN NoPod ELSE holder,
             LeavesEntry(p), UNCHANGED <<entry, bad>>
      PROVE  EntriesCounted'
  <2>1. holder = p => entry[p] = 0
    BY <1>5 DEF LeavesEntry, Excuse, HealthInv, TypeOK
  <2>2. NoPod \notin Pods
    BY HealthAssumption
  <2> QED
    BY <1>2, <1>5, <2>1, <2>2 DEF EntriesCounted
<1>6. ASSUME NEW p \in Pods, Reads(p), UNCHANGED <<session, entry, bad, holder>>
      PROVE  EntriesCounted' /\ ChecksCounted'
  <2>1. \A q \in Pods : check[q].at = "idle"
    BY <1>6 DEF Reads, Excuse, UnderWay
  <2>2. session.fails <= bad
    BY <1>2, <2>1 DEF ChecksCounted
  <2>3. /\ check'[p].at = "read" /\ check'[p].fails = session.fails
        /\ \A q \in Pods \ {p} : check'[q] = check[q]
    BY <1>0, <1>6, ReadsStarts
  <2>4. \A q \in Pods \ {p} : check'[q].at = "idle"
    BY <2>1, <2>3
  <2>5. ChecksCounted'
    BY <1>6, <2>2, <2>3, <2>4 DEF ChecksCounted, Deciding
  <2> QED
    BY <1>4, <1>6, <2>5
<1>7. ASSUME NEW p \in Pods, Poll(p)
      PROVE  EntriesCounted' /\ ChecksCounted'
  <2>1. /\ check[p].at = "read" /\ session' = session /\ holder' = holder
        /\ Deciding(p)
    BY <1>7 DEF Poll, doc, Deciding
  <2>2. \A q \in Pods \ {p} : ~Deciding(q)
    BY <1>2, <2>1 DEF ChecksCounted
  <2>3. check[p].fails = session.fails /\ session.fails <= bad
    BY <1>2, <2>1, <2>2 DEF ChecksCounted, Deciding
  <2>4. CASE Errs(p) /\ UNCHANGED entry
    <3>1. ChecksCounted' /\ bad <= bad'
      BY <1>0, <1>1, <1>2, <2>1, <2>3, <2>4, ChecksErr
    <3>2. EntriesCounted'
      BY <1>0, <1>2, <2>1, <2>4, <3>1 DEF EntriesCounted, TypeOK
    <3> QED
      BY <3>1, <3>2
  <2>5. CASE /\ \E r \in Results : Polls(p, r) /\ bad' = Row(p, r)
             /\ check' = [check EXCEPT ![p].at = "polled", ![p].seen = entry'[p]]
    <3>1. PICK r \in Results : Polls(p, r) /\ bad' = Row(p, r)
      BY <2>5
    <3>2. EntriesCounted' /\ entry'[p] <= bad'
      <4>1. bad' = CASE r = "hard" -> UpTo(bad + 1)
                     [] r = "good" /\ (check[p].at = "read") -> 0
                     [] OTHER -> bad
        BY <1>0, <1>1, <3>1, RowCounts
      <4>2. (check[p].at = "read") \in BOOLEAN
        OBVIOUS
      <4> QED
        BY <1>0, <1>1, <1>2, <2>1, <3>1, <4>1, <4>2, PollCounts
    <3>3. entry'[p] \in 0..MaxCount /\ "polled" \in Stages
      BY DEF HealthInv, TypeOK, Stages
    <3>4. /\ check'[p].at = "polled" /\ check'[p].seen = entry'[p]
          /\ check'[p].fails = check[p].fails
          /\ \A q \in Pods \ {p} : check'[q] = check[q]
      <4>1. PICK s \in Stages, n \in 0..MaxCount :
              /\ s = "polled" /\ n = entry'[p]
              /\ check' = [check EXCEPT ![p].at = s, ![p].seen = n]
        BY <2>5, <3>3
      <4>2. check \in Checks
        BY <1>0
      <4>3. /\ check' \in Checks /\ check'[p].at = s /\ check'[p].seen = n
            /\ check'[p].fails = check[p].fails /\ check'[p].alerted = check[p].alerted
            /\ \A q \in Pods \ {p} : check'[q] = check[q]
        <5>1. check' = [check EXCEPT ![p].at = s, ![p].seen = n]
          BY <4>1
        <5> HIDE <4>1
        <5> QED
          BY <4>2, <5>1, CheckMoved, ZenonT(30)
      <4> QED
        BY <4>1, <4>3
    <3>5. \A q \in Pods \ {p} : ~Deciding(q)'
      BY <2>2, <3>4 DEF Deciding
    <3> QED
      BY <2>1, <2>3, <3>2, <3>4, <3>5 DEF ChecksCounted, Deciding
  <2> QED
    BY <1>7, <2>4, <2>5 DEF Poll
<1>8. ASSUME NEW p \in Pods, Persist(p)
      PROVE  EntriesCounted' /\ ChecksCounted'
  <2>1. check[p].at = "polled" /\ Deciding(p) /\ UNCHANGED <<entry, holder>>
    BY <1>8 DEF Persist, Deciding
  <2>2. check[p].seen <= bad /\ check[p].fails = session.fails
    BY <1>2, <2>1 DEF ChecksCounted
  <2>3. CASE /\ session' = [session EXCEPT !.fails = check[p].seen]
             /\ Verdict(p, check[p].seen) /\ UNCHANGED bad
    <3>1. /\ check'[p].at \in {"idle", "answering", "wiping"}
          /\ \A q \in Pods \ {p} : check'[q] = check[q]
      BY <1>0, <2>3, VerdictEnds
    <3>2. session'.fails = check[p].seen
      BY <1>0, <2>3 DEF Session
    <3>3. ChecksCounted'
      BY <1>2, <2>1, <2>2, <2>3, <3>1, <3>2, ChecksEnd DEF Deciding
    <3> QED
      BY <1>4, <2>1, <2>3, <3>3
  <2>4. CASE Errs(p) /\ Excuse(Unwritten(p), {"wipe"}) /\ UNCHANGED session
    <3>1. ~(check[p].seen < check[p].fails)
      BY <2>1, <2>4 DEF Excuse, Unwritten
    <3>2. check[p].fails <= bad
      BY <1>0, <2>2, <3>1 DEF Checks, Check
    <3>3. ChecksCounted' /\ bad <= bad'
      BY <1>0, <1>1, <1>2, <2>1, <2>4, <3>2, ChecksErr
    <3>4. EntriesCounted'
      BY <1>0, <1>2, <2>1, <3>3 DEF EntriesCounted, TypeOK
    <3> QED
      BY <3>3, <3>4
  <2> QED
    BY <1>8, <2>3, <2>4 DEF Persist
<1>9. ASSUME NEW p \in Pods, PersistError(p)
      PROVE  EntriesCounted' /\ ChecksCounted'
  <2> DEFINE n == UpTo(check[p].fails + 1)
  <2>1. check[p].at = "erring" /\ Deciding(p) /\ UNCHANGED <<entry, holder, bad>>
    BY <1>9 DEF PersistError, Deciding
  <2>2. n <= bad /\ \A q \in Pods \ {p} : ~Deciding(q)
    BY <1>2, <2>1 DEF ChecksCounted
  <2>3. CASE session' = [session EXCEPT !.fails = n] /\ Verdict(p, n)
    <3>1. /\ check'[p].at \in {"idle", "answering", "wiping"}
          /\ \A q \in Pods \ {p} : check'[q] = check[q]
      BY <1>0, <2>3, VerdictEnds
    <3>2. session'.fails = n
      BY <1>0, <2>3 DEF Session
    <3> HIDE DEF n
    <3>3. ChecksCounted'
      BY <1>2, <2>1, <2>2, <3>1, <3>2, ChecksEnd DEF Deciding
    <3> QED
      BY <1>4, <2>1, <3>3
  <2>4. CASE check' = [check EXCEPT ![p] = Idle] /\ UNCHANGED session
    <3>1. check'[p].at = "idle" /\ \A q \in Pods \ {p} : check'[q] = check[q]
      BY <1>0, <2>4, CheckOver
    <3>2. session.fails <= bad
      BY <1>2, <2>1, <2>2 DEF ChecksCounted, Deciding
    <3>3. ChecksCounted'
      BY <1>2, <2>1, <2>4, <3>1, <3>2, ChecksEnd DEF Deciding
    <3> QED
      BY <1>4, <2>1, <3>3
  <2> QED
    BY <1>9, <2>3, <2>4 DEF PersistError
<1>10. ASSUME NEW p \in Pods, Wipe(p) \/ Unlink(p)
       PROVE  EntriesCounted' /\ ChecksCounted'
  <2>1. /\ session'.fails = session.fails /\ UNCHANGED <<entry, bad>>
        /\ check[p].at \in {"wiping", "unlinking"}
    BY <1>0, <1>10 DEF Wipe, Unlink, Session
  <2>2. /\ check'[p].at \in {"unlinking", "idle", "answering"}
        /\ \A q \in Pods \ {p} : check'[q] = check[q]
    <3>1. CASE check' = [check EXCEPT ![p].at = "unlinking"]
      <4>1. "unlinking" \in Stages
        BY DEF Stages
      <4> QED
        BY <1>0, <3>1, <4>1, CheckAt, Zenon
    <3>2. CASE Ends(p)
      BY <1>0, <3>2, CheckOver, CheckReset DEF Ends, Stages
    <3> QED
      BY <1>10, <3>1, <3>2 DEF Wipe, Unlink
  <2>3. ChecksCounted'
    BY <1>0, <1>3, <2>1, <2>2 DEF Deciding
  <2>4. EntriesCounted'
    BY <1>4, <1>5, <1>10 DEF Wipe, Unlink
  <2> QED
    BY <2>3, <2>4
<1>11. ASSUME NEW p \in Pods, Answer(p)
       PROVE  EntriesCounted' /\ ChecksCounted'
  <2>1. /\ check[p].at = "answering" /\ session' = session /\ holder' = holder
        /\ check' = [check EXCEPT ![p] = Idle]
    BY <1>11 DEF Answer, doc
  <2>2. PICK r \in Results : Polls(p, r) /\ bad' = Row(p, r)
    BY <1>11 DEF Answer
  <2>3. bad' = CASE r = "hard" -> UpTo(bad + 1)
                 [] r = "good" /\ (check[p].at = "read") -> 0
                 [] OTHER -> bad
    BY <1>0, <1>1, <2>2, RowCounts
  <2>4. (check[p].at = "read") \in BOOLEAN
    OBVIOUS
  <2>5. EntriesCounted'
    BY <1>0, <1>1, <1>2, <2>1, <2>2, <2>3, <2>4, PollCounts
  <2>6. bad' \in {bad, UpTo(bad + 1)}
    BY <2>1, <2>3
  <2>7. bad <= bad'
    BY <1>0, <1>1, <2>6, SinceCounts
  <2>8. check'[p].at = "idle" /\ \A q \in Pods \ {p} : check'[q] = check[q]
    BY <1>0, <2>1, CheckOver
  <2> QED
    BY <1>3, <2>1, <2>5, <2>7, <2>8 DEF Deciding
<1>12. ASSUME NEW a \in ApiPods, Query(a)
       PROVE  EntriesCounted' /\ ChecksCounted'
  <2>1. UNCHANGED <<session, holder, check>>
    BY <1>12 DEF Query, doc
  <2>2. PICK r \in Results : /\ Polls(a, r)
                             /\ bad' = IF r = "hard" THEN Since(bad + 1) ELSE bad
    BY <1>12 DEF Query
  <2>3. bad' = CASE r = "hard" -> UpTo(bad + 1) [] r = "good" /\ FALSE -> 0
                 [] OTHER -> bad
    BY <1>0, <1>1, <2>2, SinceCounts
  <2>4. EntriesCounted'
    BY <1>0, <1>1, <1>2, <2>1, <2>2, <2>3, PollCounts
  <2>5. bad <= bad'
    BY <1>0, <1>1, <2>2, SinceCounts
  <2> QED
    BY <1>0, <1>3, <2>1, <2>4, <2>5
<1>13. ASSUME NEW p \in Pods, Crash(p)
       PROVE  EntriesCounted' /\ ChecksCounted'
  <2>1. /\ holder' = (IF holder = p THEN NoPod ELSE holder)
        /\ entry' = [entry EXCEPT ![p] = 0] /\ session' = session /\ bad' = bad
        /\ check' = [check EXCEPT ![p] = Idle]
        /\ ~Unwritten(p)
    BY <1>13 DEF Crash, Excuse
  <2>2. check'[p].at = "idle" /\ \A q \in Pods \ {p} : check'[q] = check[q]
    BY <1>0, <2>1, CheckOver
  <2>3. check[p].at = "polled" => session.fails <= bad
    <3>1. SUFFICES ASSUME check[p].at = "polled" PROVE session.fails <= bad
      OBVIOUS
    <3>2. check[p].seen <= bad /\ check[p].fails = session.fails
      BY <1>2, <3>1 DEF ChecksCounted, Deciding
    <3>3. ~(check[p].seen < check[p].fails)
      BY <2>1, <3>1 DEF Unwritten
    <3> QED
      BY <1>0, <3>2, <3>3 DEF Checks, Check
  <2>4. ChecksCounted'
    BY <1>0, <1>3, <2>1, <2>2, <2>3 DEF Deciding
  <2>5. NoPod \notin Pods
    BY HealthAssumption
  <2>6. EntriesCounted'
    BY <1>0, <1>2, <2>1, <2>5 DEF EntriesCounted, TypeOK
  <2> QED
    BY <2>4, <2>6
<1>14. ASSUME NEW a \in ApiPods, Ask(a)
       PROVE  EntriesCounted' /\ ChecksCounted'
  <2>1. UNCHANGED <<session, entry, bad, holder>> /\ check[a].at = "idle"
    BY <1>14 DEF Ask, doc
  <2>2. CASE Reads(a)
    BY <1>0, <1>6, <2>1, <2>2
  <2>3. CASE check' = [check EXCEPT ![a].at = "answering"]
    <3>1. "answering" \in Stages
      BY DEF Stages
    <3>2. /\ check'[a].at = "answering"
          /\ \A q \in Pods \ {a} : check'[q] = check[q]
      BY <1>0, <2>3, <3>1, CheckAt, Zenon
    <3> QED
      BY <1>0, <1>3, <1>4, <2>1, <3>2 DEF Deciding
  <2> QED
    BY <1>14, <2>2, <2>3 DEF Ask
<1>15. ASSUME NEW w \in Workers, Tick(w)
       PROVE  EntriesCounted' /\ ChecksCounted'
  <2>1. UNCHANGED <<session, entry, bad, holder>>
    BY <1>15 DEF Tick, TickReads, TickFindsNothing, TickThrows, doc
  <2>2. CASE TickReads(w)
    BY <1>0, <1>6, <2>1, <2>2 DEF TickReads
  <2>3. CASE UNCHANGED check
    BY <1>0, <1>3, <1>4, <2>1, <2>3
  <2> QED
    BY <1>15, <2>2, <2>3 DEF Tick, TickFindsNothing, TickThrows
<1>16. CASE Lose
  <2>1. /\ holder # NoPod /\ holder' = NoPod /\ LeavesEntry(holder)
        /\ UNCHANGED <<entry, bad, check>>
    BY <1>16 DEF Lose
  <2>2. session'.fails = session.fails
    BY <1>0, <1>16 DEF Lose, Session
  <2>3. holder \in Pods
    BY <1>0, <2>1 DEF TypeOK
  <2> QED
    BY <1>0, <1>3, <1>5, <2>1, <2>2, <2>3
<1>17. ASSUME NEW p \in Pods, Initialize(p)
       PROVE  EntriesCounted' /\ ChecksCounted'
  <2>1. holder = NoPod /\ holder' = p /\ UNCHANGED <<entry, bad, check>>
    BY <1>17 DEF Initialize
  <2>2. session'.fails = session.fails
    BY <1>0, <1>17 DEF Initialize, Session
  <2>3. NoPod \notin Pods
    BY HealthAssumption
  <2>4. EntriesCounted'
    BY <1>0, <1>2, <2>1, <2>3 DEF EntriesCounted
  <2> QED
    BY <1>0, <1>3, <2>1, <2>2, <2>4
<1>18. ASSUME UNCHANGED <<entry, bad, holder>>, session'.fails = session.fails,
              \A p \in Pods : /\ check'[p].at = check[p].at
                              /\ check'[p].fails = check[p].fails
                              /\ check'[p].seen = check[p].seen
       PROVE  EntriesCounted' /\ ChecksCounted'
  <2>1. ChecksCounted'
    BY <1>0, <1>2, <1>18, ChecksQuiet
  <2> QED
    BY <1>4, <1>18, <2>1
<1>19. CASE Mail \/ Record \/ Event
  <2>1. UNCHANGED <<entry, bad, holder, check>> /\ session'.fails = session.fails
    BY <1>0, <1>19 DEF Mail, Record, Event, doc, Session
  <2> QED
    BY <1>18, <2>1
<1>20. CASE Cool
  <2>1. UNCHANGED <<entry, bad, holder>> /\ session'.fails = session.fails
    BY <1>0, <1>20 DEF Cool, Session
  <2> QED
    BY <1>0, <1>18, <1>20, <2>1, CoolKeeps
<1>21. CASE UNCHANGED vars
  BY <1>18, <1>21 DEF vars
<1> QED
  BY <1>7, <1>8, <1>9, <1>10, <1>11, <1>12, <1>13, <1>14, <1>15, <1>16, <1>17,
     <1>19, <1>20, <1>21 DEF Next, GoesOn

\* Only a check that has counted begins a wipe.
LEMMA WipeBegins ==
  ASSUME HealthInv, Next, NEW p \in Pods,
         check'[p].at = "wiping", check[p].at # "wiping"
  PROVE  Persist(p) \/ PersistError(p)
<1>0. /\ check \in Checks
      /\ TypeOK /\ Workers \subseteq Pods /\ ApiPods \subseteq Pods
      /\ HealthAssumption
  BY HealthAssumption DEF HealthInv, FlagInv, Pods, Checks
<1>1. ASSUME NEW q \in Pods, \A r \in Pods \ {q} : check'[r] = check[r],
             check'[q].at # "wiping"
      PROVE  FALSE
  BY <1>1
<1>2. ASSUME NEW q \in Pods, Persist(q) \/ PersistError(q)
      PROVE  q = p
  <2>1. \A r \in Pods \ {q} : check'[r] = check[r]
    <3>1. CASE \E n : Verdict(q, n)
      BY <1>0, <3>1, VerdictEnds
    <3>2. CASE Errs(q)
      <4>1. check' = [check EXCEPT ![q].at = "erring", ![q].seen = 0]
            /\ "erring" \in Stages /\ 0 \in 0..MaxCount
        BY <1>0, <3>2 DEF Errs, Stages, HealthAssumption
      <4> QED
        BY <1>0, <4>1, CheckMoved, Zenon
    <3>3. CASE check' = [check EXCEPT ![q] = Idle]
      BY <1>0, <3>3, CheckOver
    <3>4. CASE Persist(q)
      BY <3>1, <3>2, <3>4 DEF Persist
    <3>5. CASE PersistError(q)
      BY <3>1, <3>3, <3>5 DEF PersistError
    <3> QED
      BY <1>2, <3>4, <3>5
  <2> QED
    BY <2>1
<1>3. ASSUME NEW q \in Pods,
             \/ \E s \in {"polled", "erring"}, n \in 0..MaxCount :
                  check' = [check EXCEPT ![q].at = s, ![q].seen = n]
             \/ \E s \in {"unlinking", "answering"} :
                  check' = [check EXCEPT ![q].at = s]
             \/ check' = [check EXCEPT ![q] = Idle]
             \/ Ends(q)
             \/ Reads(q)
      PROVE  FALSE
  <2>1. {"polled", "erring", "unlinking", "answering"} \subseteq Stages
    BY DEF Stages
  <2>2. CASE \E s \in {"polled", "erring"}, n \in 0..MaxCount :
               check' = [check EXCEPT ![q].at = s, ![q].seen = n]
    <3>1. PICK s \in {"polled", "erring"}, n \in 0..MaxCount :
            check' = [check EXCEPT ![q].at = s, ![q].seen = n]
      BY <2>2
    <3>2. s \in Stages /\ s # "wiping"
      BY <2>1
    <3>3. check'[q].at = s /\ \A r \in Pods \ {q} : check'[r] = check[r]
      BY <1>0, <3>1, <3>2, CheckMoved, Zenon
    <3> QED
      BY <1>1, <3>2, <3>3
  <2>3. CASE \E s \in {"unlinking", "answering"} :
               check' = [check EXCEPT ![q].at = s]
    <3>1. PICK s \in {"unlinking", "answering"} :
            check' = [check EXCEPT ![q].at = s]
      BY <2>3
    <3>2. s \in Stages /\ s # "wiping"
      BY <2>1
    <3>3. check'[q].at = s /\ \A r \in Pods \ {q} : check'[r] = check[r]
      BY <1>0, <3>1, <3>2, CheckAt, Zenon
    <3> QED
      BY <1>1, <3>2, <3>3
  <2>4. CASE check' = [check EXCEPT ![q] = Idle]
    BY <1>0, <1>1, <2>4, CheckOver
  <2>5. CASE Ends(q)
    BY <1>0, <1>1, <2>1, <2>5, CheckOver, CheckReset DEF Ends
  <2>6. CASE Reads(q)
    BY <1>0, <1>1, <2>6, ReadsStarts
  <2> QED
    BY <1>3, <2>2, <2>3, <2>4, <2>5, <2>6
<1>4. ASSUME NEW q \in Pods, Poll(q)
      PROVE  FALSE
  <2>1. entry' \in [Pods -> 0..MaxCount]
    BY <1>0, EntryTypes DEF TypeOK
  <2>2. 0 \in 0..MaxCount /\ entry'[q] \in 0..MaxCount
    BY <1>0, <2>1 DEF HealthAssumption
  <2>3. \E s \in {"polled", "erring"}, n \in 0..MaxCount :
          check' = [check EXCEPT ![q].at = s, ![q].seen = n]
    BY <1>4, <2>2 DEF Poll, Errs
  <2> QED
    BY <1>3, <2>3
<1>5. ASSUME NEW q \in Pods, Wipe(q) \/ Unlink(q) \/ Answer(q) \/ Crash(q)
      PROVE  FALSE
  <2>1. CASE Wipe(q)
    BY <1>3, <2>1 DEF Wipe
  <2>2. CASE Unlink(q)
    BY <1>3, <2>2 DEF Unlink
  <2>3. CASE Answer(q) \/ Crash(q)
    BY <1>3, <2>3 DEF Answer, Crash
  <2> QED
    BY <1>5, <2>1, <2>2, <2>3
<1>6. CASE \E a \in ApiPods : Ask(a)
  BY <1>0, <1>3, <1>6 DEF Ask
<1>7. CASE \E w \in Workers : Tick(w)
  BY <1>0, <1>3, <1>7 DEF Tick, TickReads, TickFindsNothing, TickThrows
<1>8. CASE Cool
  BY <1>0, <1>8, CoolKeeps
<1>9. CASE UNCHANGED check
  BY <1>9
<1> QED
  BY <1>2, <1>4, <1>5, <1>6, <1>7, <1>8, <1>9
     DEF Next, GoesOn, Query, Initialize, Mail, Record, Event, Lose

\* A wipe, which makes the user pair the phone anew, follows more failed checks
\* in a row than the threshold, none of them good, whichever pods made them -
\* unless a count outlived its client, checks overlapped, or the count of a good
\* poll was not written (HS 143-232).
THEOREM WipesAreEarned == Spec => WipesFollowFailures
<1> DEFINE Earned ==
       \A p \in Pods :
       check'[p].at = "wiping" /\ check[p].at # "wiping" =>
         bad > Threshold \/ "wipe" \in excuses
<1>1. Init => WipeInv
  <2> SUFFICES ASSUME Init PROVE WipeInv
    OBVIOUS
  <2>1. \A p \in Pods : check[p] = Idle /\ entry[p] = 0
    BY DEF Init
  <2>2. Idle.at = "idle" /\ bad = 0 /\ session.fails = 0
    BY DEF Idle, Init
  <2>3. EntriesCounted
    BY <2>1, <2>2 DEF EntriesCounted
  <2>4. ChecksCounted
    BY <2>1, <2>2 DEF ChecksCounted, Deciding
  <2> QED
    BY <2>3, <2>4 DEF WipeInv
<1>2. HealthInv /\ HealthInv' /\ WipeInv /\ [Next]_vars => WipeInv'
  BY WipeStep
<1>3. HealthInv /\ WipeInv /\ [Next]_vars => [Earned]_vars
  <2> SUFFICES ASSUME HealthInv, WipeInv, Next, "wipe" \notin excuses,
                      NEW p \in Pods,
                      check'[p].at = "wiping", check[p].at # "wiping"
               PROVE  bad > Threshold
    OBVIOUS
  <2>1. Persist(p) \/ PersistError(p)
    BY WipeBegins
  <2>2. /\ check \in Checks /\ bad \in Nat /\ Threshold \in Nat
        /\ check[p].seen \in Nat /\ check[p].fails \in 0..MaxCount
    BY HealthAssumption DEF HealthInv, FlagInv, TypeOK, Checks, Check
  <2>3. UpTo(check[p].fails + 1) \in Nat
    BY <2>2, Bounded
  <2>4. ChecksCounted
    BY DEF WipeInv
  <2>5. CASE Persist(p)
    <3>1. check[p].at = "polled" /\ check[p].seen <= bad
      BY <2>4, <2>5 DEF Persist, ChecksCounted
    <3>2. CASE Verdict(p, check[p].seen)
      <4>1. check[p].seen > Threshold
        BY <2>2, <3>2, VerdictEnds
      <4> QED
        BY <2>2, <3>1, <4>1
    <3>3. CASE Errs(p)
      <4>1. check' = [check EXCEPT ![p].at = "erring", ![p].seen = 0]
            /\ "erring" \in Stages /\ 0 \in 0..MaxCount
        BY <3>3, HealthAssumption DEF Errs, Stages
      <4>2. check'[p].at = "erring"
        BY <2>2, <4>1, CheckMoved, Zenon
      <4> QED
        BY <4>2
    <3> QED
      BY <2>5, <3>2, <3>3 DEF Persist
  <2>6. CASE PersistError(p)
    <3>1. check[p].at = "erring" /\ UpTo(check[p].fails + 1) <= bad
      BY <2>4, <2>6 DEF PersistError, ChecksCounted
    <3>2. CASE Verdict(p, UpTo(check[p].fails + 1))
      <4>1. UpTo(check[p].fails + 1) > Threshold
        BY <2>2, <3>2, VerdictEnds
      <4> QED
        BY <2>2, <2>3, <3>1, <4>1
    <3>3. CASE check' = [check EXCEPT ![p] = Idle]
      BY <2>2, <3>3, CheckOver
    <3> QED
      BY <2>6, <3>2, <3>3 DEF PersistError
  <2> QED
    BY <2>1, <2>5, <2>6
<1> QED
  BY <1>1, <1>2, <1>3, HealthInvHolds, PTL DEF Spec, WipesFollowFailures
=============================================================================
