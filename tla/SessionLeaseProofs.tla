------------------------- MODULE SessionLeaseProofs -------------------------
(***************************************************************************)
(* Proofs about SessionLease, for every set of pods, every lease and timer *)
(* length, every clock skew and any number of disturbances.                *)
(***************************************************************************)
EXTENDS SessionLease, TLAPS

\* The program points, so that the proofs need not expand the sets.
LEMMA Points ==
  /\ "idle" \in PC /\ "preparing" \in PC /\ "launching" \in PC
  /\ "cleanup" \in PC /\ "retrying" \in PC /\ "finishing" \in PC
  /\ "stuck" \in PC
  /\ "none" \in Teardown /\ "closing" \in Teardown
  /\ "closingKeep" \in Teardown /\ "closingKeepSeen" \in Teardown
  /\ "releasing" \in Teardown
  /\ "none" \in Handler /\ "closing" \in Handler /\ "releasing" \in Handler
BY DEF PC, Teardown, Handler

\* What the helpers leave behind is of the right type.
LEMMA HelperTypes ==
  ASSUME TypeOK, NEW p \in Pod
  PROVE  /\ StartRefresh(p) => /\ timer' \in [Pod -> BOOLEAN]
                               /\ refreshIn' \in [Pod -> Nat]
         /\ StopRefresh(p) => /\ timer' \in [Pod -> BOOLEAN]
                              /\ refreshIn' \in [Pod -> Nat]
         /\ Release(p) \/ Refresh(p) \/ Grant(p) \/ UNCHANGED leaseVars
              => owner' \in Pod \cup {NoOwner} /\ ttlLeft' \in Int
         /\ NoteGivenUp(p) => givenUp' \in [Pod -> BOOLEAN]
<1> USE LeaseAssumption DEF TypeOK
<1>1. StartRefresh(p) => /\ timer' \in [Pod -> BOOLEAN]
                         /\ refreshIn' \in [Pod -> Nat]
  <2>1. (IF timer[p] THEN refreshIn[p] ELSE RefreshInterval) \in Nat
    OBVIOUS
  <2> QED
    BY <2>1 DEF StartRefresh
<1>2. StopRefresh(p) => /\ timer' \in [Pod -> BOOLEAN]
                        /\ refreshIn' \in [Pod -> Nat]
  BY DEF StopRefresh
<1>3. Release(p) \/ Refresh(p) \/ Grant(p) \/ UNCHANGED leaseVars
        => owner' \in Pod \cup {NoOwner} /\ ttlLeft' \in Int
  BY DEF Release, Refresh, Grant, leaseVars
<1>4. NoteGivenUp(p) => givenUp' \in [Pod -> BOOLEAN]
  BY DEF NoteGivenUp
<1> QED
  BY <1>1, <1>2, <1>3, <1>4

\* Type correctness: what the document and the pods' memory can hold.
THEOREM TypeCorrect == Spec => []TypeOK
<1>1. Init => TypeOK
  BY LeaseAssumption, Points DEF Init, TypeOK
<1>2. ASSUME TypeOK, [Next]_vars
      PROVE  TypeOK'
  <2> USE <1>2, LeaseAssumption, Points, HelperTypes
      DEF TypeOK, docVars, leaseVars, initVars, mapVars, histVars
  <2>1. CASE Tick
    BY <2>1 DEF Tick, Minus1
  <2>2. ASSUME NEW p \in Pod, AcquireLock(p)
        PROVE  TypeOK'
    BY <2>2 DEF AcquireLock
  <2>3. ASSUME NEW p \in Pod, InitStep(p)
        PROVE  TypeOK'
    <3>1. CASE AddClient(p)
      BY <3>1 DEF AddClient, SetClient
    <3>2. CASE Launched(p)
      BY <3>2 DEF Launched
    <3>3. CASE LaunchFails(p)
      BY <3>3 DEF LaunchFails, DropClient
    <3>4. CASE Retry(p)
      BY <3>4 DEF Retry, SetClient
    <3>5. CASE InitFails(p)
      BY <3>5 DEF InitFails, DropClient
    <3>6. CASE Finish(p)
      BY <3>6 DEF Finish
    <3> QED
      BY <2>3, <3>1, <3>2, <3>3, <3>4, <3>5, <3>6 DEF InitStep
  <2>4. ASSUME NEW p \in Pod, RefreshTimer(p)
        PROVE  TypeOK'
    BY <2>4 DEF RefreshTimer
  <2>5. ASSUME NEW p \in Pod, NEW keep \in BOOLEAN, BeginDisconnect(p, keep)
        PROVE  TypeOK'
    <3> USE <2>5 DEF BeginDisconnect, DropClient
    <3>1. teardown' \in [Pod -> Teardown]
      OBVIOUS
    <3>2. disturbances' \in 0..MaxDisturbances
      BY DEF Disturb
    <3>3. /\ clients' \in [Pod -> BOOLEAN]
          /\ timer' \in [Pod -> BOOLEAN] /\ refreshIn' \in [Pod -> Nat]
      OBVIOUS
    <3>4. listeners' \in [Pod -> SUBSET {"current", "stray"}]
      OBVIOUS
    <3> QED
      BY <3>1, <3>2, <3>3, <3>4
  <2>6. ASSUME NEW p \in Pod, TeardownStep(p)
        PROVE  TypeOK'
    <3>1. CASE EndDisconnect(p)
      <4> USE <3>1 DEF EndDisconnect
      <4>1. swept' \in BOOLEAN
        OBVIOUS
      <4>2. timer' \in [Pod -> BOOLEAN] /\ refreshIn' \in [Pod -> Nat]
        OBVIOUS
      <4>3. teardown' \in [Pod -> Teardown]
        OBVIOUS
      <4> QED
        BY <4>1, <4>2, <4>3
    <3>2. CASE ReleaseDisconnect(p)
      BY <3>2 DEF ReleaseDisconnect
    <3> QED
      BY <2>6, <3>1, <3>2 DEF TeardownStep
  <2>7. ASSUME NEW p \in Pod, Ready(p) \/ QrCode(p)
        PROVE  TypeOK'
    BY <2>7 DEF Ready, QrCode
  <2>8. ASSUME NEW p \in Pod, BeginDisconnected(p)
        PROVE  TypeOK'
    <3> USE <2>8 DEF BeginDisconnected, DropClient
    <3>1. disturbances' \in 0..MaxDisturbances
      BY DEF Disturb
    <3>2. /\ clients' \in [Pod -> BOOLEAN]
          /\ timer' \in [Pod -> BOOLEAN] /\ refreshIn' \in [Pod -> Nat]
      OBVIOUS
    <3>3. teardown' \in [Pod -> Teardown] /\ handler' \in [Pod -> Handler]
      OBVIOUS
    <3>4. swept' \in BOOLEAN
      OBVIOUS
    <3> QED
      BY <3>1, <3>2, <3>3, <3>4
  <2>9. ASSUME NEW p \in Pod, HandlerStep(p)
        PROVE  TypeOK'
    <3>1. CASE EndDisconnected(p)
      BY <3>1 DEF EndDisconnected, DropClient
    <3>2. CASE ReleaseDisconnected(p)
      BY <3>2 DEF ReleaseDisconnected
    <3> QED
      BY <2>9, <3>1, <3>2 DEF HandlerStep
  <2>10. ASSUME NEW p \in Pod, Crash(p) \/ Restart(p)
         PROVE  TypeOK'
    <3>1. CASE Crash(p)
      <4>1. disturbances' \in 0..MaxDisturbances
        BY <3>1 DEF Crash, Disturb
      <4> QED
        BY <3>1, <4>1 DEF Crash, DropClient
    <3>2. CASE Restart(p)
      BY <3>2 DEF Restart
    <3> QED
      BY <2>10, <3>1, <3>2
  <2>11. CASE UNCHANGED vars
    BY <2>11 DEF vars
  <2> QED
    BY <2>1, <2>2, <2>3, <2>4, <2>5, <2>6, <2>7, <2>8, <2>9, <2>10, <2>11
       DEF Next, PodNext, Sweep, Request
<1> QED
  BY <1>1, <1>2, PTL DEF Spec

-----------------------------------------------------------------------------
\* One step keeps the refresh timer and the client map together.
LEMMA RefreshFollowsStep ==
  ASSUME TypeOK, RefreshFollowsClient, [Next]_vars
  PROVE  RefreshFollowsClient'
<1> USE DEF TypeOK, RefreshFollowsClient, docVars, leaseVars, initVars, mapVars,
            histVars, StartRefresh, StopRefresh, DropClient, SetClient
<1>1. CASE Tick
  BY <1>1 DEF Tick
<1>2. ASSUME NEW p \in Pod, AcquireLock(p)
      PROVE  RefreshFollowsClient'
  BY <1>2 DEF AcquireLock
<1>3. ASSUME NEW p \in Pod, InitStep(p)
      PROVE  RefreshFollowsClient'
  <2>1. CASE AddClient(p)
    BY <2>1 DEF AddClient
  <2>2. CASE Launched(p)
    BY <2>2 DEF Launched
  <2>3. CASE LaunchFails(p)
    BY <2>3 DEF LaunchFails
  <2>4. CASE Retry(p)
    BY <2>4 DEF Retry
  <2>5. CASE InitFails(p)
    BY <2>5 DEF InitFails
  <2>6. CASE Finish(p)
    BY <2>6 DEF Finish
  <2> QED
    BY <1>3, <2>1, <2>2, <2>3, <2>4, <2>5, <2>6 DEF InitStep
<1>4. ASSUME NEW p \in Pod, RefreshTimer(p)
      PROVE  RefreshFollowsClient'
  BY <1>4 DEF RefreshTimer
<1>5. ASSUME NEW p \in Pod, NEW keep \in BOOLEAN, BeginDisconnect(p, keep)
      PROVE  RefreshFollowsClient'
  BY <1>5 DEF BeginDisconnect
<1>6. ASSUME NEW p \in Pod, TeardownStep(p)
      PROVE  RefreshFollowsClient'
  BY <1>6 DEF TeardownStep, EndDisconnect, ReleaseDisconnect
<1>7. ASSUME NEW p \in Pod, Ready(p) \/ QrCode(p)
      PROVE  RefreshFollowsClient'
  BY <1>7 DEF Ready, QrCode
<1>8. ASSUME NEW p \in Pod, BeginDisconnected(p)
      PROVE  RefreshFollowsClient'
  BY <1>8 DEF BeginDisconnected
<1>9. ASSUME NEW p \in Pod, HandlerStep(p)
      PROVE  RefreshFollowsClient'
  BY <1>9 DEF HandlerStep, EndDisconnected, ReleaseDisconnected
<1>10. ASSUME NEW p \in Pod, Crash(p) \/ Restart(p)
       PROVE  RefreshFollowsClient'
  BY <1>10 DEF Crash, Restart
<1>11. CASE UNCHANGED vars
  BY <1>11 DEF vars
<1> QED
  BY <1>1, <1>2, <1>3, <1>4, <1>5, <1>6, <1>7, <1>8, <1>9, <1>10, <1>11
     DEF Next, PodNext, Sweep, Request

\* A client is in the map of a pod exactly while its refresh timer runs,
\* through late timers, failing updates, crashes and every interleaving.
THEOREM RefreshFollows == Spec => []RefreshFollowsClient
<1>1. Init => RefreshFollowsClient
  BY DEF Init, RefreshFollowsClient
<1>2. TypeOK /\ RefreshFollowsClient /\ [Next]_vars => RefreshFollowsClient'
  BY RefreshFollowsStep
<1> QED
  BY <1>1, <1>2, TypeCorrect, PTL DEF Spec

-----------------------------------------------------------------------------
\* What a step of pod p does to the lease: one of the four updates, and
\* acquiring only when the filter lets it.
LeaseStep(p) == \/ CanAcquire(p) /\ Grant(p)
                \/ Refresh(p) \/ Release(p) \/ UNCHANGED leaseVars

\* What the pods' own memory, apart from the document, says of pod q.
Kept(q) == /\ clients'[q] = clients[q] /\ refreshIn'[q] = refreshIn[q]
           /\ pc'[q] = pc[q] /\ gap'[q] = gap[q]
           /\ givenUp'[q] = givenUp[q]

\* No timer runs for longer than it was set.
TimersBounded(p) ==
  /\ refreshIn[p] <= RefreshInterval
  /\ pc[p] \in {"preparing", "cleanup"} => gap[p] <= MaxGap
  /\ pc[p] = "launching" => gap[p] <= InitTimeout

\* A step of pod p leaves the memory of every other pod alone.
LEMMA Frame ==
  ASSUME TypeOK, NEW p \in Pod, PodNext(p), NEW q \in Pod, q # p
  PROVE  LeaseStep(p) /\ Kept(q)
<1> USE DEF TypeOK, Kept, LeaseStep, docVars, leaseVars, initVars, mapVars,
            histVars, StartRefresh, StopRefresh, DropClient, SetClient
<1>1. CASE AcquireLock(p)
  BY <1>1 DEF AcquireLock
<1>2. CASE InitStep(p)
  BY <1>2 DEF InitStep, AddClient, Launched, LaunchFails, Retry, InitFails,
              Finish
<1>3. CASE RefreshTimer(p)
  BY <1>3 DEF RefreshTimer
<1>4. CASE \E keep \in BOOLEAN : BeginDisconnect(p, keep)
  BY <1>4 DEF BeginDisconnect
<1>5. CASE TeardownStep(p)
  BY <1>5 DEF TeardownStep, EndDisconnect, ReleaseDisconnect, NoteGivenUp
<1>6. CASE Ready(p) \/ QrCode(p) \/ BeginDisconnected(p)
  BY <1>6 DEF Ready, QrCode, BeginDisconnected
<1>7. CASE HandlerStep(p)
  BY <1>7 DEF HandlerStep, EndDisconnected, ReleaseDisconnected, NoteGivenUp
<1>8. CASE Crash(p) \/ Restart(p)
  BY <1>8 DEF Crash, Restart
<1> QED
  BY <1>1, <1>2, <1>3, <1>4, <1>5, <1>6, <1>7, <1>8
     DEF PodNext, Sweep, Request

\* A lease that every clock sees as valid is out of another pod's reach.
LEMMA ValidLeaseKept ==
  ASSUME TypeOK, NEW p \in Pod, LeaseStep(p),
         owner # p, owner # NoOwner, ttlLeft >= MaxSkew
  PROVE  UNCHANGED leaseVars
<1>1. ~CanAcquire(p)
  BY LeaseAssumption DEF CanAcquire, TypeOK
<1> QED
  BY <1>1 DEF LeaseStep, Refresh, Release, leaseVars

\* What is left of a lease that covers some work is valid for every clock.
LEMMA CoveredLeaseValid ==
  ASSUME TypeOK, NEW q \in Pod, NEW t \in Nat, LeaseCovers(q, t)
  PROVE  owner = q /\ ttlLeft >= MaxSkew /\ q # NoOwner
BY LeaseAssumption DEF TypeOK, LeaseCovers

\* Steps of the other pods do not uncover what pod q is doing.
LEMMA OthersKeepCover ==
  ASSUME TypeOK, NEW p \in Pod, PodNext(p), NEW q \in Pod, q # p,
         WorkCovered(q)
  PROVE  WorkCovered(q)'
<1>1. LeaseStep(p) /\ Kept(q)
  BY Frame
<1>2. ASSUME NEW t \in Nat, LeaseCovers(q, t)
      PROVE  UNCHANGED leaseVars
  BY <1>1, <1>2, CoveredLeaseValid, ValidLeaseKept
<1>3. ASSUME NEW t \in Nat, LeaseCovers(q, t)
      PROVE  LeaseCovers(q, t)'
  BY <1>2, <1>3 DEF LeaseCovers, leaseVars
<1>4. /\ refreshIn[q] \in Nat
      /\ gap[q] + InitTimeout + MaxGap + RefreshInterval \in Nat
      /\ gap[q] + MaxGap + RefreshInterval \in Nat
      /\ gap[q] + RefreshInterval \in Nat
  BY LeaseAssumption DEF TypeOK
<1> QED
  BY <1>1, <1>3, <1>4 DEF WorkCovered, LeaseCovers, Kept

\* Every update that extends the lease extends it for long enough.
LEMMA FullLease ==
  ASSUME TypeOK, Timely, NEW p \in Pod, owner' = p, ttlLeft' = TTL + Skew[p],
         NEW t \in Nat, t <= MaxGap + InitTimeout + MaxGap + RefreshInterval
  PROVE  LeaseCovers(p, t)'
BY LeaseAssumption DEF Timely, LeaseCovers

\* The steps of pod p itself.
LEMMA OwnStepCovers ==
  ASSUME TypeOK, Timely, RefreshFollowsClient, NEW p \in Pod, PodNext(p),
         WorkCovered(p), TimersBounded(p)
  PROVE  WorkCovered(p)' /\ TimersBounded(p)'
<1> USE LeaseAssumption
    DEF TypeOK, docVars, leaseVars, initVars, mapVars, histVars,
        StartRefresh, StopRefresh, DropClient, SetClient, WorkCovered,
        TimersBounded
<1>1. CASE AcquireLock(p)
  BY <1>1, FullLease DEF AcquireLock, Grant
<1>2. CASE AddClient(p)
  BY <1>2 DEF AddClient, LeaseCovers
<1>3. CASE Launched(p)
  BY <1>3 DEF Launched, LeaseCovers
<1>4. CASE LaunchFails(p)
  BY <1>4 DEF LaunchFails, LeaseCovers
<1>5. CASE Retry(p)
  BY <1>5 DEF Retry, LeaseCovers
<1>6. CASE InitFails(p)
  BY <1>6 DEF InitFails, LeaseCovers
<1>7. CASE Finish(p)
  BY <1>7 DEF Finish, LeaseCovers, Timely
<1>8. CASE RefreshTimer(p)
  <2>1. CASE ~clients[p]
    BY <1>8, <2>1 DEF RefreshFollowsClient, RefreshTimer
  <2>2. CASE clients[p] /\ owner = p
    <3>1. owner' = p /\ ttlLeft' = TTL + Skew[p]
      BY <1>8, <2>2 DEF RefreshTimer, Refresh, Timely
    <3>2. TimersBounded(p)'
      BY <1>8, <2>2 DEF RefreshTimer
    <3> QED
      BY <1>8, <2>2, <3>1, <3>2, FullLease DEF RefreshTimer
  <2>3. CASE clients[p] /\ owner # p
    BY <1>8, <2>3 DEF RefreshTimer, LeaseCovers
  <2> QED
    BY <2>1, <2>2, <2>3
<1>9. CASE \E keep \in BOOLEAN : BeginDisconnect(p, keep)
  BY <1>9 DEF BeginDisconnect, LeaseCovers
<1>10. CASE EndDisconnect(p)
  BY <1>10 DEF EndDisconnect, LeaseCovers
<1>11. CASE ReleaseDisconnect(p)
  BY <1>11 DEF ReleaseDisconnect, NoteGivenUp, Release, LeaseCovers, Timely
<1>12. CASE Ready(p) \/ QrCode(p)
  BY <1>12 DEF Ready, QrCode, LeaseCovers
<1>13. CASE BeginDisconnected(p)
  BY <1>13 DEF BeginDisconnected, LeaseCovers
<1>14. CASE EndDisconnected(p)
  BY <1>14 DEF EndDisconnected, LeaseCovers
<1>15. CASE ReleaseDisconnected(p)
  BY <1>15 DEF ReleaseDisconnected, NoteGivenUp, Release, LeaseCovers, Timely
<1>16. CASE Crash(p) \/ Restart(p)
  BY <1>16 DEF Crash, Restart, LeaseCovers
<1> QED
  BY <1>1, <1>2, <1>3, <1>4, <1>5, <1>6, <1>7, <1>8, <1>9, <1>10, <1>11,
     <1>12, <1>13, <1>14, <1>15, <1>16
     DEF PodNext, InitStep, TeardownStep, HandlerStep, Sweep, Request

\* Time passing: nothing that is due is skipped.
LEMMA TickCovers ==
  ASSUME TypeOK, Timely, RefreshFollowsClient, Tick, NEW p \in Pod,
         WorkCovered(p), TimersBounded(p)
  PROVE  WorkCovered(p)' /\ TimersBounded(p)'
<1>1. OnTime(p)
  BY DEF Tick, Timely
<1> QED
  BY <1>1, LeaseAssumption
     DEF Tick, OnTime, Minus1, TypeOK, histVars, RefreshFollowsClient,
         WorkCovered, LeaseCovers, TimersBounded

\* The inductive invariant.
LeaseInv == /\ TypeOK /\ RefreshFollowsClient
            /\ \A p \in Pod : WorkCovered(p) /\ TimersBounded(p)

\* The invariant is inductive in a timely system, given the types after the
\* step.
LEMMA LeaseInvStep ==
  ASSUME Timely, LeaseInv, [Next]_vars, TypeOK'
  PROVE  LeaseInv'
<1> USE DEF LeaseInv
<1>1. RefreshFollowsClient'
  BY RefreshFollowsStep
<1>2. ASSUME NEW q \in Pod
      PROVE  WorkCovered(q)' /\ TimersBounded(q)'
  <2>1. CASE Tick
    BY <2>1, TickCovers
  <2>2. ASSUME NEW p \in Pod, PodNext(p)
        PROVE  WorkCovered(q)' /\ TimersBounded(q)'
    <3>1. CASE q = p
      BY <2>2, <3>1, OwnStepCovers
    <3>2. CASE q # p
      BY <2>2, <3>2, OthersKeepCover, Frame DEF TimersBounded, Kept
    <3> QED
      BY <3>1, <3>2
  <2>3. CASE UNCHANGED vars
    BY <2>3 DEF vars, WorkCovered, LeaseCovers, TimersBounded
  <2> QED
    BY <2>1, <2>2, <2>3 DEF Next
<1> QED
  BY <1>1, <1>2

\* From acquiring the lease to the client that stays, the lease covers what
\* a timely pod is still going to do with it.
THEOREM LeaseCovered == ASSUME Timely PROVE Spec => []LeaseCoversWork
<1>1. Init => LeaseInv
  BY TypeCorrect, LeaseAssumption, Points
     DEF Init, LeaseInv, TypeOK, RefreshFollowsClient, WorkCovered,
         TimersBounded
<1>2. LeaseInv /\ [Next]_vars /\ TypeOK' => LeaseInv'
  BY LeaseInvStep
<1>3. LeaseInv => LeaseCoversWork
  BY DEF LeaseInv, LeaseCoversWork
<1> QED
  BY <1>1, <1>2, <1>3, TypeCorrect, PTL DEF Spec

\* While a pod that did not give its lease back has a client, the document
\* says so, with an expiry no pod's clock has reached.
THEOREM ClientsBacked == ASSUME Timely PROVE Spec => []ClientBackedByLease
<1>1. TypeOK /\ LeaseCoversWork => ClientBackedByLease
  BY CoveredLeaseValid
     DEF TypeOK, LeaseCoversWork, WorkCovered, ClientBackedByLease, Covered
<1> QED
  BY <1>1, TypeCorrect, LeaseCovered, PTL

-----------------------------------------------------------------------------
\* A lease some clock still sees as valid leaves its owner only at the end
\* of the owner's own failed initialization, disconnectSession or
\* handleDisconnected, with late pods and failing updates too.
THEOREM LeaseKept == Spec => LeaseNotStolen
<1> DEFINE GivenBack ==
      /\ owner' = NoOwner
      /\ \/ pc[owner] = "finishing" /\ pc'[owner] = "idle"
         \/ teardown[owner] = "releasing" /\ teardown'[owner] = "none"
         \/ handler[owner] = "releasing" /\ handler'[owner] = "none"
<1>1. ASSUME TypeOK, [Next]_vars,
             owner # NoOwner, ttlLeft >= MaxSkew, owner' # owner
      PROVE  GivenBack
  <2>1. PICK p \in Pod : PodNext(p)
    BY <1>1 DEF Next, Tick, vars
  <2>2. owner = p
    <3> SUFFICES ASSUME owner # p PROVE FALSE
      OBVIOUS
    <3>1. LeaseStep(p)
      <4>1. CASE \E q \in Pod : q # p
        BY <1>1, <2>1, <4>1, Frame
      <4>2. CASE ~ \E q \in Pod : q # p
        BY <1>1, <4>2 DEF TypeOK
      <4> QED
        BY <4>1, <4>2
    <3> QED
      BY <1>1, <3>1, ValidLeaseKept DEF leaseVars
  <2> USE <1>1, <2>1, <2>2 DEF TypeOK, docVars, leaseVars
  <2>3. CASE AcquireLock(p)
    BY <2>3 DEF AcquireLock, Grant
  <2>4. CASE InitStep(p)
    BY <2>4 DEF InitStep, AddClient, Launched, LaunchFails, Retry, InitFails,
                Finish, Release
  <2>5. CASE RefreshTimer(p)
    BY <2>5 DEF RefreshTimer, Refresh
  <2>6. CASE \E keep \in BOOLEAN : BeginDisconnect(p, keep)
    BY <2>6 DEF BeginDisconnect
  <2>7. CASE TeardownStep(p)
    BY <2>7 DEF TeardownStep, EndDisconnect, ReleaseDisconnect, Release
  <2>8. CASE Ready(p) \/ QrCode(p) \/ BeginDisconnected(p)
    BY <2>8 DEF Ready, QrCode, BeginDisconnected
  <2>9. CASE HandlerStep(p)
    BY <2>9 DEF HandlerStep, EndDisconnected, ReleaseDisconnected, Release
  <2>10. CASE Crash(p) \/ Restart(p)
    BY <2>10 DEF Crash, Restart
  <2> QED
    BY <2>3, <2>4, <2>5, <2>6, <2>7, <2>8, <2>9, <2>10
       DEF PodNext, Sweep, Request
<1>2. TypeOK /\ [Next]_vars
        => [owner # NoOwner /\ ttlLeft >= MaxSkew /\ owner' # owner
              => GivenBack]_vars
  BY <1>1
<1> QED
  BY <1>2, TypeCorrect, PTL DEF Spec, LeaseNotStolen

-----------------------------------------------------------------------------
\* At most one pod has a client that is covered, and Holder is that pod.
LEMMA HolderIsCovered ==
  ASSUME ClientBackedByLease
  PROVE  /\ \A p \in Pod : Covered(p) => Holder = p
         /\ (\A p \in Pod : ~Covered(p)) => Holder = NoOwner
BY DEF ClientBackedByLease, Holder

\* A step changes whether a pod is covered for one pod at most.
LEMMA CoverChangesOnce ==
  ASSUME TypeOK, [Next]_vars
  PROVE  \/ \A q \in Pod : Covered(q)' = Covered(q)
         \/ \E p \in Pod : \A q \in Pod \ {p} : Covered(q)' = Covered(q)
<1>1. CASE Tick
  BY <1>1 DEF Tick, histVars, Covered
<1>2. ASSUME NEW p \in Pod, PodNext(p)
      PROVE  \A q \in Pod \ {p} : Covered(q)' = Covered(q)
  BY <1>2, Frame DEF Kept, Covered
<1>3. CASE UNCHANGED vars
  BY <1>3 DEF vars, Covered
<1> QED
  BY <1>1, <1>2, <1>3 DEF Next

\* The lease implements ExclusiveOwner: among the pods that did not give
\* their lease back, one drives the session at a time, and another one only
\* after it stopped.
THEOREM LeaseRefinement == ASSUME Timely PROVE Spec => ImplementsExclusiveOwner
<1>1. Init => Abstract!Init
  BY DEF Init, Abstract!Init, Holder, Covered
<1>2. ASSUME TypeOK, ClientBackedByLease, ClientBackedByLease', [Next]_vars
      PROVE  [Abstract!Next]_Holder
  <2>1. /\ \A p \in Pod : Covered(p)' => Holder' = p
        /\ (\A p \in Pod : ~Covered(p)') => Holder' = NoOwner
    BY <1>2 DEF ClientBackedByLease, Holder
  <2>2. CASE \A q \in Pod : Covered(q)' = Covered(q)
    BY <1>2, <2>1, <2>2, HolderIsCovered
  <2>3. ASSUME NEW p \in Pod, \A q \in Pod \ {p} : Covered(q)' = Covered(q)
        PROVE  [Abstract!Next]_Holder
    <3>1. CASE \E q \in Pod \ {p} : Covered(q)
      BY <1>2, <2>1, <2>3, <3>1, HolderIsCovered
    <3>2. CASE \A q \in Pod \ {p} : ~Covered(q)
      <4>1. Holder \in {p, NoOwner} /\ Holder' \in {p, NoOwner}
        BY <1>2, <2>1, <2>3, <3>2, HolderIsCovered
      <4> QED
        BY <4>1 DEF Abstract!Next, Abstract!Take, Abstract!Yield
    <3> QED
      BY <3>1, <3>2
  <2> QED
    BY <1>2, <2>2, <2>3, CoverChangesOnce
<1> QED
  BY <1>1, <1>2, TypeCorrect, ClientsBacked, PTL
     DEF Spec, ImplementsExclusiveOwner, Abstract!Spec
=============================================================================
