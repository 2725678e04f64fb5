------------------------ MODULE QueueDeliveryProofs ------------------------
(***************************************************************************)
(* What QueueDelivery promises, proved for every number of messages, pods, *)
(* retries, deliveries and crashes: the types, that a duplicate needs a    *)
(* lapsed lock, and that the receivers implement WorkQueue, step by step.  *)
(* Two consequences are proved by themselves: a message is dead only after *)
(* its retries, and a pod cannot settle what is locked for another.        *)
(***************************************************************************)
EXTENDS QueueDelivery, FiniteSetTheorems, TLAPS

\* The pods in whose handler message m still is: each may yet succeed once.
Handlers(m) == {p \in Pod : job[p] = m /\ stage[p] = "handling"}

\* Deliveries of m begun so far, or one more: those that lapsed, and the one
\* that is locked or was settled.
Begun(m) == IF place[m] \in {"unsent", "refused", "queued"} THEN count[m]
                                                            ELSE count[m] + 1

\* What the broker may still deliver has deliveries left.
DeliveriesLeft ==
  \A m \in Message : /\ place[m] \in {"queued", "locked"} => count[m] < MaxDelivery
                     /\ place[m] \in {"unsent", "refused"} => count[m] = 0

\* A pod's copy of its message is not newer than the broker's, and one that
\* is about to be dead-lettered has had its retries.
CopiesAreOld ==
  \A p \in Pod : /\ job[p] # NoMessage => seen[p] <= count[job[p]]
                 /\ stage[p] = "deadLettering" => seen[p] >= MaxRetries

\* Every success, made or still possible, has a delivery of its own.
SuccessesAreDeliveries ==
  \A m \in Message : /\ IsFiniteSet(Handlers(m))
                     /\ done[m] + Cardinality(Handlers(m)) <= Begun(m)

QueueInv == TypeOK /\ DeliveriesLeft /\ CopiesAreOld /\ SuccessesAreDeliveries

-----------------------------------------------------------------------------
\* The first part: types, deliveries left and old copies go together.
CoreInv == TypeOK /\ DeliveriesLeft /\ CopiesAreOld

\* The invariant holds initially.
LEMMA QueueInit == Init => QueueInv
<1> SUFFICES ASSUME Init PROVE QueueInv
  OBVIOUS
<1> USE QueueAssumption
<1>1. TypeOK
  BY DEF Init, TypeOK, Place, Stage
<1>2. DeliveriesLeft /\ CopiesAreOld
  BY DEF Init, DeliveriesLeft, CopiesAreOld
<1>3. \A m \in Message : Handlers(m) = {}
  BY DEF Init, Handlers
<1>4. SuccessesAreDeliveries
  <2>1. IsFiniteSet({}) /\ Cardinality({}) = 0
    BY FS_EmptySet
  <2>2. \A m \in Message : done[m] = 0 /\ Begun(m) = 0
    BY DEF Init, Begun
  <2>3. \A m \in Message : /\ IsFiniteSet(Handlers(m))
                           /\ done[m] + Cardinality(Handlers(m)) <= Begun(m)
    <3> SUFFICES ASSUME NEW m \in Message
                 PROVE  /\ IsFiniteSet(Handlers(m))
                        /\ done[m] + Cardinality(Handlers(m)) <= Begun(m)
      OBVIOUS
    <3>1. IsFiniteSet(Handlers(m)) /\ Cardinality(Handlers(m)) = 0
      BY <1>3, <2>1, Zenon
    <3> QED
      BY <2>2, <3>1
  <2> QED
    BY <2>3 DEF SuccessesAreDeliveries
<1> QED
  BY <1>1, <1>2, <1>4 DEF QueueInv

\* A settlement, accepted or refused, keeps the types and the deliveries left.
LEMMA SettleKeepsCore ==
  ASSUME CoreInv, NEW p \in Pod, NEW m \in Message,
         NEW o \in {"completed", "dead"}, Settle(p, m, o), count' = count
  PROVE  /\ place' \in [Message -> Place]
         /\ holder' \in [Message -> Pod \cup {Nobody}]
         /\ \A n \in Message : place'[n] = "locked" <=> holder'[n] # Nobody
         /\ DeliveriesLeft'
<1>1. CASE Holds(p, m)
  BY <1>1 DEF CoreInv, TypeOK, DeliveriesLeft, Settle, Place
<1>2. CASE ~Holds(p, m)
  BY <1>2 DEF CoreInv, TypeOK, DeliveriesLeft, Settle
<1> QED
  BY <1>1, <1>2

\* What a step of the senders, of the broker or of a pod keeps of the core.
LEMMA CoreStep == CoreInv /\ [Next]_vars => CoreInv'
<1> SUFFICES ASSUME CoreInv, [Next]_vars PROVE CoreInv'
  OBVIOUS
<1> USE QueueAssumption
<1>1. ASSUME NEW m \in Message, Send(m) PROVE CoreInv'
  BY <1>1 DEF CoreInv, TypeOK, DeliveriesLeft, CopiesAreOld, Send, podVars, Place
<1>2. ASSUME NEW m \in Message, SendFails(m) PROVE CoreInv'
  <2>1. PICK s \in {"queued", "refused"} : place' = [place EXCEPT ![m] = s]
    BY <1>2 DEF SendFails
  <2> QED
    BY <1>2, <2>1
       DEF CoreInv, TypeOK, DeliveriesLeft, CopiesAreOld, SendFails, podVars, Place
<1>3. ASSUME NEW m \in Message, LoseLock(m) PROVE CoreInv'
  <2>1. /\ place[m] = "locked" /\ count[m] \in Nat /\ count[m] < MaxDelivery
        /\ count' = [count EXCEPT ![m] = @ + 1] /\ count'[m] = count[m] + 1
        /\ holder' = [holder EXCEPT ![m] = Nobody]
        /\ UNCHANGED <<done, direct, up, job, seen, stage, crashes>>
    BY <1>3 DEF LoseLock, CoreInv, TypeOK, DeliveriesLeft, podVars
  <2>2. /\ place' \in [Message -> Place] /\ place'[m] \in {"queued", "dead"}
        /\ place'[m] = "queued" => count'[m] < MaxDelivery
        /\ \A n \in Message \ {m} : place'[n] = place[n]
    BY <1>3, <2>1 DEF LoseLock, CoreInv, TypeOK, Place
  <2>3. TypeOK'
    <3>1. count' \in [Message -> 0..MaxDelivery]
      BY <2>1 DEF CoreInv, TypeOK
    <3>2. holder' \in [Message -> Pod \cup {Nobody}]
      BY <2>1 DEF CoreInv, TypeOK
    <3>3. \A n \in Message : place'[n] = "locked" <=> holder'[n] # Nobody
      BY <2>1, <2>2 DEF CoreInv, TypeOK
    <3> QED
      BY <2>1, <2>2, <3>1, <3>2, <3>3 DEF CoreInv, TypeOK
  <2>4. DeliveriesLeft'
    BY <2>1, <2>2 DEF CoreInv, TypeOK, DeliveriesLeft
  <2>5. CopiesAreOld'
    BY <2>1 DEF CoreInv, TypeOK, CopiesAreOld
  <2> QED
    BY <2>3, <2>4, <2>5 DEF CoreInv
<1>4. ASSUME NEW p \in Pod, NEW m \in Message, Deliver(p, m) PROVE CoreInv'
  BY <1>4 DEF CoreInv, TypeOK, DeliveriesLeft, CopiesAreOld, Deliver, Place, Stage
<1>5. ASSUME NEW p \in Pod, HandlerSucceeds(p) PROVE CoreInv'
  BY <1>5 DEF CoreInv, TypeOK, DeliveriesLeft, CopiesAreOld, HandlerSucceeds,
              Goto, brokerVars, Stage
<1>6. ASSUME NEW p \in Pod, HandlerFails(p) PROVE CoreInv'
  BY <1>6 DEF CoreInv, TypeOK, DeliveriesLeft, CopiesAreOld, HandlerFails,
              Goto, brokerVars, Stage
<1>7. ASSUME NEW p \in Pod, DeadLetter(p) PROVE CoreInv'
  <2>1. job[p] \in Message
    BY <1>7 DEF CoreInv, TypeOK, DeadLetter
  <2>2. PICK s \in {"completing", "returned"} : stage' = [stage EXCEPT ![p] = s]
    BY <1>7 DEF DeadLetter, Goto
  <2> QED
    BY <1>7, <2>1, <2>2, SettleKeepsCore
       DEF CoreInv, TypeOK, CopiesAreOld, DeadLetter, Stage
<1>8. ASSUME NEW p \in Pod, Complete(p) PROVE CoreInv'
  <2>1. job[p] \in Message
    BY <1>8 DEF CoreInv, TypeOK, Complete
  <2> QED
    BY <1>8, <2>1, SettleKeepsCore
       DEF CoreInv, TypeOK, CopiesAreOld, Complete, Goto, Stage
<1>9. ASSUME NEW p \in Pod, AutoComplete(p) PROVE CoreInv'
  <2>1. job[p] \in Message
    BY <1>9 DEF CoreInv, TypeOK, AutoComplete
  <2> QED
    BY <1>9, <2>1, SettleKeepsCore
       DEF CoreInv, TypeOK, CopiesAreOld, AutoComplete, Stage
<1>10. ASSUME NEW p \in Pod, Crash(p) \/ Cleanup(p) PROVE CoreInv'
  <2>1. /\ job' = [job EXCEPT ![p] = NoMessage] /\ seen' = [seen EXCEPT ![p] = 0]
        /\ stage' = [stage EXCEPT ![p] = "idle"]
        /\ UNCHANGED <<place, holder, count, done, direct>>
    BY <1>10 DEF Crash, Cleanup, brokerVars
  <2>2. up' \in [Pod -> BOOLEAN]
    <3>1. up' = up \/ up' = [up EXCEPT ![p] = FALSE]
      BY <1>10 DEF Crash, Cleanup
    <3> QED
      BY <3>1 DEF CoreInv, TypeOK
  <2>5. crashes' \in 0..MaxCrashes
    BY <1>10 DEF Crash, Cleanup, CoreInv, TypeOK
  <2>3. TypeOK'
    <3>1. /\ job' \in [Pod -> Message \cup {NoMessage}]
          /\ seen' \in [Pod -> 0..MaxDelivery]
          /\ stage' \in [Pod -> Stage]
      BY <2>1 DEF CoreInv, TypeOK, Stage
    <3>2. \A q \in Pod : stage'[q] # "idle" <=> job'[q] # NoMessage
      BY <2>1 DEF CoreInv, TypeOK
    <3> QED
      BY <2>1, <2>2, <2>5, <3>1, <3>2 DEF CoreInv, TypeOK
  <2>4. DeliveriesLeft' /\ CopiesAreOld'
    BY <2>1 DEF CoreInv, TypeOK, DeliveriesLeft, CopiesAreOld
  <2> QED
    BY <2>3, <2>4 DEF CoreInv
<1>11. ASSUME NEW p \in Pod, StopReceiver(p) \/ StartReceiver(p) PROVE CoreInv'
  <2>1. UNCHANGED <<place, holder, count, done, direct, job, seen, stage>>
    BY <1>11 DEF StopReceiver, StartReceiver, brokerVars
  <2>2. up' \in [Pod -> BOOLEAN]
    <3>1. up' = [up EXCEPT ![p] = FALSE] \/ up' = [up EXCEPT ![p] = TRUE]
      BY <1>11 DEF StopReceiver, StartReceiver
    <3> QED
      BY <3>1 DEF CoreInv, TypeOK
  <2>3. crashes' \in 0..MaxCrashes
    BY <1>11 DEF StopReceiver, StartReceiver, CoreInv, TypeOK
  <2> QED
    BY <2>1, <2>2, <2>3 DEF CoreInv, TypeOK, DeliveriesLeft, CopiesAreOld
<1>12. CASE UNCHANGED vars
  BY <1>12 DEF CoreInv, TypeOK, DeliveriesLeft, CopiesAreOld, vars
<1> QED
  BY <1>1, <1>2, <1>3, <1>4, <1>5, <1>6, <1>7, <1>8, <1>9, <1>10, <1>11, <1>12
     DEF Next, ProcessMessage

-----------------------------------------------------------------------------
\* A message whose handlers, successes and deliveries only lose handlers keeps
\* a delivery for each success.
LEMMA HandlersOnlyLeave ==
  ASSUME CoreInv, SuccessesAreDeliveries, NEW m \in Message,
         Handlers(m)' \subseteq Handlers(m), done' = done, Begun(m) <= Begun(m)',
         Begun(m)' \in Nat
  PROVE  /\ IsFiniteSet(Handlers(m)')
         /\ done'[m] + Cardinality(Handlers(m)') <= Begun(m)'
<1>1. IsFiniteSet(Handlers(m)) /\ done[m] + Cardinality(Handlers(m)) <= Begun(m)
  BY DEF SuccessesAreDeliveries
<1>2. /\ IsFiniteSet(Handlers(m)')
      /\ Cardinality(Handlers(m)') <= Cardinality(Handlers(m))
  BY <1>1, FS_Subset
<1>3. Cardinality(Handlers(m)') \in Nat /\ Cardinality(Handlers(m)) \in Nat
  BY <1>1, <1>2, FS_CardinalityType
<1>4. done[m] \in Nat /\ Begun(m) \in Nat
  BY DEF CoreInv, TypeOK, Begun
<1> QED
  BY <1>1, <1>2, <1>3, <1>4

\* A settlement begins and ends no delivery of any message.
LEMMA SettleKeepsBegun ==
  ASSUME CoreInv, NEW p \in Pod, NEW m \in Message,
         NEW o \in {"completed", "dead"}, Settle(p, m, o), count' = count
  PROVE  \A n \in Message : Begun(n)' = Begun(n)
<1>1. CASE Holds(p, m)
  <2>1. place[m] = "locked" /\ place' = [place EXCEPT ![m] = o]
    BY <1>1, QueueAssumption DEF CoreInv, TypeOK, Settle, Holds
  <2> QED
    BY <2>1 DEF CoreInv, TypeOK, Begun
<1>2. CASE ~Holds(p, m)
  BY <1>2 DEF CoreInv, TypeOK, Begun, Settle
<1> QED
  BY <1>1, <1>2

\* A delivery keeps a delivery for each success: it begins with its handler.
LEMMA DeliverCounts ==
  ASSUME CoreInv, SuccessesAreDeliveries, NEW p \in Pod, NEW m \in Message,
         Deliver(p, m)
  PROVE  SuccessesAreDeliveries'
<1>1. /\ stage[p] = "idle" /\ place[m] = "queued"
      /\ place' = [place EXCEPT ![m] = "locked"]
      /\ job' = [job EXCEPT ![p] = m] /\ stage' = [stage EXCEPT ![p] = "handling"]
      /\ count' = count /\ done' = done
  BY DEF Deliver
<1>2. Handlers(m)' = Handlers(m) \cup {p} /\ p \notin Handlers(m)
  BY <1>1 DEF CoreInv, TypeOK, Handlers
<1>3. Begun(m)' = Begun(m) + 1
  BY <1>1 DEF CoreInv, TypeOK, Begun
<1>4. done[m] \in Nat /\ Begun(m) \in Nat
  BY DEF CoreInv, TypeOK, Begun
<1>5. IsFiniteSet(Handlers(m)) /\ done[m] + Cardinality(Handlers(m)) <= Begun(m)
  BY DEF SuccessesAreDeliveries
<1>6. /\ IsFiniteSet(Handlers(m)')
      /\ Cardinality(Handlers(m)') = Cardinality(Handlers(m)) + 1
  BY <1>2, <1>5, FS_AddElement
<1>7. Cardinality(Handlers(m)) \in Nat
  BY <1>5, FS_CardinalityType
<1>8. IsFiniteSet(Handlers(m)') /\ done'[m] + Cardinality(Handlers(m)') <= Begun(m)'
  BY <1>1, <1>3, <1>4, <1>5, <1>6, <1>7
<1>9. ASSUME NEW n \in Message, n # m
      PROVE  /\ IsFiniteSet(Handlers(n)')
             /\ done'[n] + Cardinality(Handlers(n)') <= Begun(n)'
  <2>1. Handlers(n)' \subseteq Handlers(n)
    BY <1>1, <1>9 DEF CoreInv, TypeOK, Handlers
  <2>2. Begun(n)' = Begun(n) /\ Begun(n) \in Nat
    BY <1>1, <1>9 DEF CoreInv, TypeOK, Begun
  <2> QED
    BY <1>1, <2>1, <2>2, HandlersOnlyLeave
<1> QED
  BY <1>8, <1>9 DEF SuccessesAreDeliveries

\* A success uses up its handler.
LEMMA SuccessCounts ==
  ASSUME CoreInv, SuccessesAreDeliveries, NEW p \in Pod, HandlerSucceeds(p)
  PROVE  SuccessesAreDeliveries'
<1> DEFINE m == job[p]
<1>1. /\ stage[p] = "handling" /\ m \in Message
      /\ done' = [done EXCEPT ![m] = @ + 1]
      /\ job' = job /\ stage' = [stage EXCEPT ![p] = "completing"]
      /\ count' = count /\ place' = place
  BY DEF HandlerSucceeds, CoreInv, TypeOK, Goto, brokerVars
<1>2. PICK j \in Message : j = m
  BY <1>1
<1>3. Handlers(j)' = Handlers(j) \ {p} /\ p \in Handlers(j)
  BY <1>1, <1>2 DEF CoreInv, TypeOK, Handlers
<1>4. \A n \in Message : Begun(n)' = Begun(n) /\ Begun(n) \in Nat
  BY <1>1 DEF CoreInv, TypeOK, Begun
<1>5. IsFiniteSet(Handlers(j)) /\ done[j] + Cardinality(Handlers(j)) <= Begun(j)
  BY DEF SuccessesAreDeliveries
<1>6. /\ IsFiniteSet(Handlers(j)')
      /\ Cardinality(Handlers(j)') = Cardinality(Handlers(j)) - 1
  BY <1>3, <1>5, FS_RemoveElement
<1>7. Cardinality(Handlers(j)) \in Nat
  BY <1>5, FS_CardinalityType
<1>8. done[j] \in Nat /\ done'[j] = done[j] + 1
  BY <1>1, <1>2 DEF CoreInv, TypeOK
<1>9. IsFiniteSet(Handlers(j)') /\ done'[j] + Cardinality(Handlers(j)') <= Begun(j)'
  BY <1>4, <1>5, <1>6, <1>7, <1>8
<1>10. ASSUME NEW n \in Message, n # j
       PROVE  /\ IsFiniteSet(Handlers(n)')
              /\ done'[n] + Cardinality(Handlers(n)') <= Begun(n)'
  <2>1. Handlers(n)' = Handlers(n) /\ done'[n] = done[n]
    BY <1>1, <1>2, <1>10 DEF CoreInv, TypeOK, Handlers
  <2> QED
    BY <1>4, <2>1 DEF SuccessesAreDeliveries
<1> QED
  BY <1>9, <1>10 DEF SuccessesAreDeliveries

\* Every other step only lets handlers leave, and takes no delivery back.
LEMMA OthersCount ==
  ASSUME CoreInv, SuccessesAreDeliveries, CoreInv', done' = done,
         \A n \in Message : Handlers(n)' \subseteq Handlers(n) /\ Begun(n) <= Begun(n)'
  PROVE  SuccessesAreDeliveries'
<1>1. \A n \in Message : Begun(n)' \in Nat
  BY DEF CoreInv, TypeOK, Begun
<1> QED
  BY <1>1, HandlersOnlyLeave DEF SuccessesAreDeliveries

\* The number of successes stays within the number of deliveries.
LEMMA SuccessStep ==
  CoreInv /\ CoreInv' /\ SuccessesAreDeliveries /\ [Next]_vars
    => SuccessesAreDeliveries'
<1> SUFFICES ASSUME CoreInv, CoreInv', SuccessesAreDeliveries, [Next]_vars
             PROVE  SuccessesAreDeliveries'
  OBVIOUS
<1>1. ASSUME NEW m \in Message, Send(m) \/ SendFails(m) PROVE SuccessesAreDeliveries'
  <2>1. PICK s \in {"queued", "refused"} : place' = [place EXCEPT ![m] = s]
    BY <1>1 DEF Send, SendFails
  <2>2. /\ place[m] = "unsent" /\ count' = count /\ done' = done
        /\ job' = job /\ stage' = stage
    BY <1>1 DEF Send, SendFails, podVars
  <2>3. \A n \in Message : Handlers(n)' = Handlers(n)
    BY <2>2 DEF Handlers
  <2>4. \A n \in Message : Begun(n) <= Begun(n)'
    BY <2>1, <2>2 DEF CoreInv, TypeOK, Begun
  <2> QED
    BY <2>2, <2>3, <2>4, OthersCount
<1>2. ASSUME NEW m \in Message, LoseLock(m) PROVE SuccessesAreDeliveries'
  <2>1. /\ place[m] = "locked" /\ count' = [count EXCEPT ![m] = @ + 1]
        /\ done' = done /\ job' = job /\ stage' = stage
        /\ \A n \in Message \ {m} : place'[n] = place[n]
    BY <1>2 DEF LoseLock, podVars, CoreInv, TypeOK
  <2>2. \A n \in Message : Handlers(n)' = Handlers(n)
    BY <2>1 DEF Handlers
  <2>3. \A n \in Message : Begun(n) <= Begun(n)'
    BY <2>1 DEF CoreInv, TypeOK, Begun
  <2> QED
    BY <2>1, <2>2, <2>3, OthersCount
<1>3. ASSUME NEW p \in Pod, NEW m \in Message, Deliver(p, m)
      PROVE  SuccessesAreDeliveries'
  BY <1>3, DeliverCounts
<1>4. ASSUME NEW p \in Pod, HandlerSucceeds(p) PROVE SuccessesAreDeliveries'
  BY <1>4, SuccessCounts
<1>5. ASSUME NEW p \in Pod, \/ DeadLetter(p) \/ Complete(p) \/ AutoComplete(p)
      PROVE  SuccessesAreDeliveries'
  <2>1. job[p] \in Message /\ count' = count /\ done' = done
    BY <1>5 DEF CoreInv, TypeOK, DeadLetter, Complete, AutoComplete
  <2>2. \A n \in Message : Begun(n)' = Begun(n)
    BY <1>5, <2>1, SettleKeepsBegun DEF DeadLetter, Complete, AutoComplete
  <2>3. PICK s \in Stage \ {"handling"} : stage' = [stage EXCEPT ![p] = s]
    BY <1>5 DEF DeadLetter, Complete, AutoComplete, Goto, Stage
  <2>4. \A q \in Pod \ {p} : job'[q] = job[q]
    BY <1>5 DEF DeadLetter, Complete, AutoComplete, CoreInv, TypeOK
  <2>5. \A n \in Message : Handlers(n)' \subseteq Handlers(n)
    BY <2>3, <2>4 DEF CoreInv, TypeOK, Handlers
  <2>6. \A n \in Message : Begun(n) \in Nat
    BY DEF CoreInv, TypeOK, Begun
  <2> QED
    BY <2>1, <2>2, <2>5, <2>6, OthersCount
<1>6. ASSUME NEW p \in Pod, HandlerFails(p) \/ Crash(p) \/ Cleanup(p)
                              \/ StopReceiver(p) \/ StartReceiver(p)
      PROVE  SuccessesAreDeliveries'
  <2>1. place' = place /\ count' = count /\ done' = done
    BY <1>6 DEF HandlerFails, Crash, Cleanup, StopReceiver, StartReceiver, brokerVars
  <2>2. \A n \in Message : Begun(n)' = Begun(n) /\ Begun(n) \in Nat
    BY <2>1 DEF CoreInv, TypeOK, Begun
  <2>3. \A q \in Pod : stage'[q] = "handling" => job'[q] = job[q] /\ stage'[q] = stage[q]
    BY <1>6 DEF HandlerFails, Crash, Cleanup, StopReceiver, StartReceiver, Goto,
                CoreInv, TypeOK
  <2>4. \A n \in Message : Handlers(n)' \subseteq Handlers(n)
    BY <2>3 DEF Handlers
  <2> QED
    BY <2>1, <2>2, <2>4, OthersCount
<1>7. CASE UNCHANGED vars
  BY <1>7 DEF vars, SuccessesAreDeliveries, Handlers, Begun
<1> QED
  BY <1>1, <1>2, <1>3, <1>4, <1>5, <1>6, <1>7 DEF Next, ProcessMessage

\* The inductive invariant of the queue.
LEMMA QueueInvHolds == Spec => []QueueInv
<1>1. Init => QueueInv
  BY QueueInit
<1>2. QueueInv /\ [Next]_vars => QueueInv'
  BY CoreStep, SuccessStep DEF QueueInv, CoreInv
<1> QED
  BY <1>1, <1>2, PTL DEF Spec

-----------------------------------------------------------------------------
\* The types hold, a message is locked exactly while a pod holds its lock, and
\* a pod has a message exactly while its processMessage runs (QueueService).
THEOREM QueueTypes == Spec => []TypeOK
<1>1. QueueInv => TypeOK
  BY DEF QueueInv
<1> QED
  BY <1>1, QueueInvHolds, PTL

\* However many pods receive, crash and outlive their locks, a handler has not
\* succeeded more often than once for each delivery that lapsed and once more:
\* a second e-mail, or a second initialization of a session, needs a lapse.
THEOREM DuplicatesAreLapses == Spec => []DuplicatesNeedLapses
<1>1. QueueInv => DuplicatesNeedLapses
  <2> SUFFICES ASSUME QueueInv, NEW m \in Message PROVE done[m] <= count[m] + 1
    BY DEF DuplicatesNeedLapses
  <2>1. done[m] \in Nat /\ count[m] \in Nat
    BY DEF QueueInv, TypeOK
  <2>2. Cardinality(Handlers(m)) \in Nat
    BY FS_CardinalityType DEF QueueInv, SuccessesAreDeliveries
  <2>3. done[m] + Cardinality(Handlers(m)) <= Begun(m) /\ Begun(m) <= count[m] + 1
        /\ Begun(m) \in Nat
    BY <2>1 DEF QueueInv, SuccessesAreDeliveries, Begun
  <2> QED
    BY <2>1, <2>2, <2>3
<1> QED
  BY <1>1, QueueInvHolds, PTL

\* A message goes to the dead-letter queue only after all its retries: never
\* with fewer than MaxRetries unsettled deliveries before (the deliveryCount
\* test of processEmailMessage, made on the pod's old copy of the message).
DeadOnlyAfterRetries ==
  [][\A m \in Message : place[m] # "dead" /\ place'[m] = "dead"
                          => count'[m] >= MaxRetries]_vars

\* A message enters the dead-letter queue only when it has had all its retries:
\* the pod's deliveryCount is never newer than the broker's.
THEOREM DeadHadRetries == Spec => DeadOnlyAfterRetries
<1> DEFINE Step == \A m \in Message : place[m] # "dead" /\ place'[m] = "dead"
                                        => count'[m] >= MaxRetries
<1>1. QueueInv /\ [Next]_vars => [Step]_vars
  <2> SUFFICES ASSUME QueueInv, Next, NEW m \in Message,
                      place[m] # "dead", place'[m] = "dead"
               PROVE  count'[m] >= MaxRetries
    OBVIOUS
  <2> USE QueueAssumption
  <2>1. place[m] \in Place /\ count[m] \in Nat
    BY DEF QueueInv, TypeOK
  <2>2. ASSUME NEW n \in Message, LoseLock(n) PROVE count'[m] >= MaxRetries
    <3>1. n = m
      BY <2>2 DEF LoseLock, QueueInv, TypeOK
    <3> QED
      BY <2>1, <2>2, <3>1 DEF LoseLock, QueueInv, TypeOK
  <2>3. ASSUME NEW p \in Pod, DeadLetter(p) PROVE count'[m] >= MaxRetries
    <3>1. Holds(p, job[p]) /\ job[p] = m /\ job[p] # NoMessage
      BY <2>3 DEF DeadLetter, Settle, QueueInv, TypeOK
    <3> QED
      BY <2>1, <2>3, <3>1 DEF DeadLetter, QueueInv, CopiesAreOld, TypeOK
  <2>4. ASSUME NEW n \in Message, Send(n) \/ SendFails(n) PROVE FALSE
    BY <2>4 DEF Send, SendFails, QueueInv, TypeOK
  <2>5. ASSUME NEW p \in Pod, NEW n \in Message, Deliver(p, n) PROVE FALSE
    BY <2>5 DEF Deliver, QueueInv, TypeOK
  <2>6. ASSUME NEW p \in Pod, Complete(p) \/ AutoComplete(p) PROVE FALSE
    BY <2>6 DEF Complete, AutoComplete, Settle, QueueInv, TypeOK
  <2>7. ASSUME NEW p \in Pod, \/ HandlerSucceeds(p) \/ HandlerFails(p) \/ Crash(p)
                              \/ Cleanup(p) \/ StopReceiver(p) \/ StartReceiver(p)
        PROVE  FALSE
    BY <2>7 DEF HandlerSucceeds, HandlerFails, Crash, Cleanup, StopReceiver,
                StartReceiver, brokerVars
  <2> QED
    BY <2>2, <2>3, <2>4, <2>5, <2>6, <2>7 DEF Next, ProcessMessage
<1> QED
  BY <1>1, QueueInvHolds, PTL DEF Spec, DeadOnlyAfterRetries

\* A pod cannot settle a message that is locked for another pod: when its own
\* lock has lapsed, neither its completion nor its dead-lettering takes the
\* message from the pod that handles it now.
LockedForAnotherIsSafe ==
  [][\A m \in Message, p \in Pod :
       /\ holder[m] = p /\ place'[m] # "locked"
       => \/ count'[m] = count[m] + 1
          \/ stage[p] # "handling" /\ job[p] = m]_vars

\* What is locked for a pod leaves that lock by a lapse, or by the pod's own
\* settlement after its handler: a pod whose lock has lapsed settles nothing.
THEOREM OthersCannotSettle == Spec => LockedForAnotherIsSafe
<1> DEFINE Step == \A m \in Message, p \in Pod :
                     /\ holder[m] = p /\ place'[m] # "locked"
                     => \/ count'[m] = count[m] + 1
                        \/ stage[p] # "handling" /\ job[p] = m
<1>1. QueueInv /\ [Next]_vars => [Step]_vars
  <2> SUFFICES ASSUME QueueInv, Next, NEW m \in Message, NEW p \in Pod,
                      holder[m] = p, place'[m] # "locked"
               PROVE  \/ count'[m] = count[m] + 1
                      \/ stage[p] # "handling" /\ job[p] = m
    OBVIOUS
  <2> USE QueueAssumption
  <2>1. place[m] = "locked" /\ place'[m] # place[m]
    BY DEF QueueInv, TypeOK
  <2>2. ASSUME NEW n \in Message, LoseLock(n) PROVE count'[m] = count[m] + 1
    <3>1. n = m
      BY <2>1, <2>2 DEF LoseLock, QueueInv, TypeOK
    <3> QED
      BY <2>2, <3>1 DEF LoseLock, QueueInv, TypeOK
  <2>3. ASSUME NEW q \in Pod, DeadLetter(q) \/ Complete(q) \/ AutoComplete(q)
        PROVE  stage[p] # "handling" /\ job[p] = m
    <3>1. Holds(q, job[q]) /\ job[q] = m
      BY <2>1, <2>3 DEF DeadLetter, Complete, AutoComplete, Settle, QueueInv, TypeOK
    <3>2. q = p
      BY <3>1 DEF Holds
    <3> QED
      BY <2>3, <3>1, <3>2 DEF DeadLetter, Complete, AutoComplete
  <2>4. ASSUME NEW n \in Message, Send(n) \/ SendFails(n) PROVE FALSE
    BY <2>1, <2>4 DEF Send, SendFails, QueueInv, TypeOK
  <2>5. ASSUME NEW q \in Pod, NEW n \in Message, Deliver(q, n) PROVE FALSE
    BY <2>1, <2>5 DEF Deliver, QueueInv, TypeOK
  <2>6. ASSUME NEW q \in Pod, \/ HandlerSucceeds(q) \/ HandlerFails(q) \/ Crash(q)
                              \/ Cleanup(q) \/ StopReceiver(q) \/ StartReceiver(q)
        PROVE  FALSE
    BY <2>1, <2>6 DEF HandlerSucceeds, HandlerFails, Crash, Cleanup, StopReceiver,
                      StartReceiver, brokerVars
  <2> QED
    BY <2>2, <2>3, <2>4, <2>5, <2>6 DEF Next, ProcessMessage
<1> QED
  BY <1>1, QueueInvHolds, PTL DEF Spec, LockedForAnotherIsSafe
-----------------------------------------------------------------------------
(***************************************************************************)
(* The receivers implement WorkQueue.                                      *)
(***************************************************************************)

\* Who works, after a pod has gone to another stage.
LEMMA WorkingStep ==
  ASSUME CoreInv, NEW p \in Pod, NEW s \in Stage,
         stage' = [stage EXCEPT ![p] = s]
  PROVE  /\ s = "handling" => Working' = Working \cup {p}
         /\ s # "handling" => Working' = Working \ {p}
BY DEF CoreInv, TypeOK, Working

\* A settlement by a pod whose handler is over: accepted it settles the task,
\* refused it does nothing to it.  The pod may leave in the same step.
LEMMA SettleRefines ==
  ASSUME CoreInv, NEW p \in Pod, NEW o \in {"completed", "dead"},
         stage[p] \notin {"idle", "handling"}, Settle(p, job[p], o),
         o = "dead" => count[job[p]] >= MaxRetries,
         job' \in {job, [job EXCEPT ![p] = NoMessage]},
         Working' = Working, count' = count, done' = done
  PROVE  [Abstract!Next]_(Abstract!vars)
<1>1. job[p] \in Message /\ job[p] # NoMessage /\ p \notin Working
  BY QueueAssumption DEF CoreInv, TypeOK, Working
<1>2. CASE Holds(p, job[p])
  <2>1. Abstract!Settle(p)
    BY <1>1, <1>2 DEF Abstract!Settle, Settle, Holds
  <2> QED
    BY <2>1 DEF Abstract!Next
<1>3. CASE ~Holds(p, job[p]) /\ job' = job
  BY <1>3 DEF Settle, Abstract!vars
<1>4. CASE ~Holds(p, job[p]) /\ job' = [job EXCEPT ![p] = NoMessage]
  <2>1. Abstract!Leave(p)
    BY <1>1, <1>4 DEF Abstract!Leave, Settle
  <2> QED
    BY <2>1 DEF Abstract!Next
<1> QED
  BY <1>2, <1>3, <1>4

\* A pod that goes, from wherever it is, lets go of its message.
LEMMA GoingRefines ==
  ASSUME CoreInv, NEW p \in Pod, job' = [job EXCEPT ![p] = NoMessage],
         stage' = [stage EXCEPT ![p] = "idle"],
         UNCHANGED <<place, holder, count, done>>
  PROVE  [Abstract!Next]_(Abstract!vars)
<1>1. Working' = Working \ {p}
  BY WorkingStep DEF Stage
<1>2. CASE job[p] = NoMessage
  <2>1. job' = job /\ Working' = Working
    BY <1>1, <1>2 DEF CoreInv, TypeOK, Working
  <2> QED
    BY <2>1 DEF Abstract!vars
<1>3. CASE job[p] # NoMessage
  <2>1. Abstract!Leave(p)
    BY <1>1, <1>3 DEF Abstract!Leave
  <2> QED
    BY <2>1 DEF Abstract!Next
<1> QED
  BY <1>2, <1>3

\* Every step of the queue is one of WorkQueue, or changes nothing there.
LEMMA StepRefines ==
  CoreInv /\ [Next]_vars => [Abstract!Next]_(Abstract!vars)
<1> SUFFICES ASSUME CoreInv, [Next]_vars
             PROVE  [Abstract!Next]_(Abstract!vars)
  OBVIOUS
<1> USE QueueAssumption
<1>1. ASSUME NEW m \in Message, Send(m) \/ SendFails(m)
      PROVE  [Abstract!Next]_(Abstract!vars)
  <2>1. Working' = Working
    BY <1>1 DEF Send, SendFails, podVars, Working
  <2>2. Abstract!Offer(m)
    BY <1>1, <2>1 DEF Send, SendFails, podVars, Abstract!Offer
  <2> QED
    BY <2>2 DEF Abstract!Next
<1>2. ASSUME NEW m \in Message, LoseLock(m)
      PROVE  [Abstract!Next]_(Abstract!vars)
  <2>1. Working' = Working
    BY <1>2 DEF LoseLock, podVars, Working
  <2>2. Abstract!Lapse(m)
    BY <1>2, <2>1 DEF LoseLock, podVars, Abstract!Lapse
  <2> QED
    BY <2>2 DEF Abstract!Next
<1>3. ASSUME NEW p \in Pod, NEW m \in Message, Deliver(p, m)
      PROVE  [Abstract!Next]_(Abstract!vars)
  <2>1. Working' = Working \cup {p}
    BY <1>3, WorkingStep DEF Deliver, Stage
  <2>2. job[p] = NoMessage
    BY <1>3 DEF Deliver, CoreInv, TypeOK
  <2>3. Abstract!Take(p, m)
    BY <1>3, <2>1, <2>2 DEF Deliver, Abstract!Take
  <2> QED
    BY <2>3 DEF Abstract!Next
<1>4. ASSUME NEW p \in Pod, HandlerSucceeds(p) \/ HandlerFails(p)
      PROVE  [Abstract!Next]_(Abstract!vars)
  <2>1. PICK s \in Stage \ {"handling"} : stage' = [stage EXCEPT ![p] = s]
    BY <1>4 DEF HandlerSucceeds, HandlerFails, Goto, Stage
  <2>2. p \in Working /\ Working' = Working \ {p}
    BY <1>4, <2>1, WorkingStep DEF HandlerSucceeds, HandlerFails, Working
  <2>3. Abstract!Work(p)
    BY <1>4, <2>2 DEF HandlerSucceeds, HandlerFails, brokerVars, Abstract!Work
  <2> QED
    BY <2>3 DEF Abstract!Next
<1>5. ASSUME NEW p \in Pod, DeadLetter(p)
      PROVE  [Abstract!Next]_(Abstract!vars)
  <2>1. PICK s \in Stage \ {"handling"} : stage' = [stage EXCEPT ![p] = s]
    BY <1>5 DEF DeadLetter, Goto, Stage
  <2>2. Working' = Working
    BY <1>5, <2>1, WorkingStep DEF DeadLetter, Working
  <2>3. job[p] \in Message /\ count[job[p]] >= MaxRetries
    BY <1>5 DEF DeadLetter, CoreInv, TypeOK, CopiesAreOld
  <2> QED
    BY <1>5, <2>2, <2>3, SettleRefines DEF DeadLetter
<1>6. ASSUME NEW p \in Pod, Complete(p) \/ AutoComplete(p)
      PROVE  [Abstract!Next]_(Abstract!vars)
  <2>1. PICK s \in Stage \ {"handling"} : stage' = [stage EXCEPT ![p] = s]
    BY <1>6 DEF Complete, AutoComplete, Goto, Stage
  <2>2. Working' = Working
    BY <1>6, <2>1, WorkingStep DEF Complete, AutoComplete, Working
  <2> QED
    BY <1>6, <2>2, SettleRefines DEF Complete, AutoComplete
<1>7. ASSUME NEW p \in Pod, Crash(p) \/ Cleanup(p)
      PROVE  [Abstract!Next]_(Abstract!vars)
  BY <1>7, GoingRefines DEF Crash, Cleanup, brokerVars
<1>8. CASE \/ \E p \in Pod : StopReceiver(p) \/ StartReceiver(p)
           \/ UNCHANGED vars
  BY <1>8 DEF StopReceiver, StartReceiver, brokerVars, vars, Working,
              Abstract!vars
<1> QED
  BY <1>1, <1>2, <1>3, <1>4, <1>5, <1>6, <1>7, <1>8 DEF Next, ProcessMessage

\* The queue as the repository uses it, with all its stages, copies, crashes
\* and refused settlements, is the work queue that its users may think of.
THEOREM QueueRefinement == Spec => ImplementsWorkQueue
<1>1. Init => Abstract!Init
  BY DEF Init, Abstract!Init, Working
<1>2. QueueInv => CoreInv
  BY DEF QueueInv, CoreInv
<1> QED
  BY <1>1, <1>2, StepRefines, QueueInvHolds, PTL
     DEF Spec, ImplementsWorkQueue, Abstract!Spec
=============================================================================
