---------------------------- MODULE QueueDelivery ----------------------------
(***************************************************************************)
(* Work sent through an Azure Service Bus queue: the e-mails of            *)
(* EmailQueueProcessor and the session commands of WhatsAppQueueProcessor, *)
(* received by every pod through QueueService.startReceiver.               *)
(*                                                                         *)
(* The broker and its client library are outside the repository; they are  *)
(* modelled from how QueueService uses them: peek-lock delivery, a lock    *)
(* that may lapse, a delivery count, one message at a time per receiver    *)
(* and automatic completion once processMessage returns, which are the     *)
(* defaults, because subscribe is called without options.                  *)
(***************************************************************************)
EXTENDS Naturals

CONSTANTS Message, Email,   \* the messages; those of the e-mail queue
          Pod, Nobody,
          NoMessage,
          MaxRetries,       \* maxRetries of EmailQueueProcessor
          MaxDelivery,      \* the broker's limit on deliveries
          MaxCrashes        \* bound on crashes and shutdowns of pods

ASSUME QueueAssumption ==
  /\ Email \subseteq Message /\ NoMessage \notin Message
  /\ Nobody \notin Pod
  /\ MaxRetries \in Nat /\ MaxDelivery \in Nat /\ MaxRetries < MaxDelivery
  /\ MaxCrashes \in Nat

VARIABLES
  place,    \* where the message is
  holder,   \* the pod that holds its lock
  count,    \* deliveries of it that ended without a settlement
  done,     \* how often its handler succeeded
  direct,   \* the sender saw an error and did the work itself
  up,       \* the pod runs and its receiver is subscribed
  job,      \* the message the pod's receiver works on
  seen,     \* deliveryCount in the pod's copy of it
  stage,    \* where processMessage is
  crashes

brokerVars == <<place, holder, count>>
podVars    == <<up, job, seen, stage>>
vars == <<place, holder, count, done, direct, up, job, seen, stage, crashes>>

Place == {"unsent", "refused", "queued", "locked", "completed", "dead"}
Stage == {"idle", "handling", "deadLettering", "completing", "returned"}

Init ==
  /\ place = [m \in Message |-> "unsent"]
  /\ holder = [m \in Message |-> Nobody]
  /\ count = [m \in Message |-> 0]
  /\ done = [m \in Message |-> 0]
  /\ direct = [m \in Message |-> FALSE]
  /\ up = [p \in Pod |-> TRUE]
  /\ job = [p \in Pod |-> NoMessage] /\ seen = [p \in Pod |-> 0]
  /\ stage = [p \in Pod |-> "idle"]
  /\ crashes = 0

-----------------------------------------------------------------------------
\* The senders.

\* sendMessage resolves.
Send(m) ==
  /\ place[m] = "unsent"
  /\ place' = [place EXCEPT ![m] = "queued"]
  /\ UNCHANGED <<holder, count, done, direct, podVars, crashes>>

\* sendMessage rejects, whether or not the broker has stored the message.
\* An e-mail's error goes to the caller; a session command falls back to
\* initializeClient in the sending pod.
SendFails(m) ==
  /\ place[m] = "unsent"
  /\ \E stored \in {"queued", "refused"} :
       place' = [place EXCEPT ![m] = stored]
  /\ direct' = [direct EXCEPT ![m] = m \notin Email]
  /\ UNCHANGED <<holder, count, done, podVars, crashes>>

-----------------------------------------------------------------------------
\* The broker and its client library.

\* A free receiver gets a queued message, locked for it.
Deliver(p, m) ==
  /\ up[p] /\ stage[p] = "idle" /\ place[m] = "queued"
  /\ place' = [place EXCEPT ![m] = "locked"]
  /\ holder' = [holder EXCEPT ![m] = p]
  /\ job' = [job EXCEPT ![p] = m] /\ seen' = [seen EXCEPT ![p] = count[m]]
  /\ stage' = [stage EXCEPT ![p] = "handling"]
  /\ UNCHANGED <<count, done, direct, up, crashes>>

\* The lock lapses: the holder is dead, or too slow for the renewals.
LoseLock(m) ==
  /\ place[m] = "locked"
  /\ count' = [count EXCEPT ![m] = @ + 1]
  /\ place' = [place EXCEPT ![m] = IF count'[m] < MaxDelivery THEN "queued"
                                                              ELSE "dead"]
  /\ holder' = [holder EXCEPT ![m] = Nobody]
  /\ UNCHANGED <<done, direct, podVars, crashes>>

\* Pod p can settle m: its lock has not lapsed, its receiver is not closed.
Holds(p, m) == holder[m] = p /\ up[p]

\* Mutants of Settle: without the lock, and without giving it back.
SettleUnlocked(p, m, outcome) ==
  /\ place' = [place EXCEPT ![m] = outcome]
  /\ holder' = [holder EXCEPT ![m] = Nobody]
SettleKeepsLock(p, m, outcome) ==
  /\ place' = IF Holds(p, m) THEN [place EXCEPT ![m] = outcome] ELSE place
  /\ UNCHANGED holder

\* Pod p settles message m, or is refused.
Settle(p, m, outcome) ==
  IF Holds(p, m)
    THEN /\ place' = [place EXCEPT ![m] = outcome]
         /\ holder' = [holder EXCEPT ![m] = Nobody]
    ELSE UNCHANGED <<place, holder>>

\* processMessage has returned: the library completes what is unsettled.
AutoComplete(p) ==
  /\ stage[p] = "returned"
  /\ Settle(p, job[p], "completed")
  /\ job' = [job EXCEPT ![p] = NoMessage] /\ seen' = [seen EXCEPT ![p] = 0]
  /\ stage' = [stage EXCEPT ![p] = "idle"]
  /\ UNCHANGED <<count, done, direct, up, crashes>>

-----------------------------------------------------------------------------
\* processMessage.

Goto(p, s) == stage' = [stage EXCEPT ![p] = s]

\* The handler has done its work.
HandlerSucceeds(p) ==
  /\ stage[p] = "handling"
  /\ done' = [done EXCEPT ![job[p]] = @ + 1]
  /\ Goto(p, "completing")
  /\ UNCHANGED <<brokerVars, direct, up, job, seen, crashes>>

\* Mutants of HandlerFails: dead-lettered one delivery too early; a handler
\* that neither returns nor throws.
HandlerFailsEarly(p) ==
  /\ stage[p] = "handling"
  /\ Goto(p, IF job[p] \in Email /\ seen[p] >= MaxRetries - 1
               THEN "deadLettering" ELSE "returned")
  /\ UNCHANGED <<brokerVars, done, direct, up, job, seen, crashes>>
HandlerFailsHanging(p) ==
  /\ stage[p] = "handling"
  /\ Goto(p, "hanging")
  /\ UNCHANGED <<brokerVars, done, direct, up, job, seen, crashes>>

\* The handler throws.  processEmailMessage dead-letters a message that was
\* delivered often enough; every other error ends in processMessage, which
\* logs it and returns.
HandlerFails(p) ==
  /\ stage[p] = "handling"
  /\ Goto(p, IF job[p] \in Email /\ seen[p] >= MaxRetries THEN "deadLettering"
                                                          ELSE "returned")
  /\ UNCHANGED <<brokerVars, done, direct, up, job, seen, crashes>>

\* deadLetterMessage.  When it works, processEmailMessage returns normally
\* and startReceiver goes on to complete; an error ends in processMessage.
DeadLetter(p) ==
  /\ stage[p] = "deadLettering"
  /\ Settle(p, job[p], "dead")
  /\ Goto(p, IF Holds(p, job[p]) THEN "completing" ELSE "returned")
  /\ UNCHANGED <<count, done, direct, up, job, seen, crashes>>

\* Mutant of Complete: when it is refused, the handler is called again.
CompleteRepeats(p) ==
  /\ stage[p] = "completing"
  /\ Settle(p, job[p], "completed")
  /\ Goto(p, IF Holds(p, job[p]) THEN "returned" ELSE "handling")
  /\ UNCHANGED <<count, done, direct, up, job, seen, crashes>>

\* startReceiver's own completeMessage; its error is logged.
Complete(p) ==
  /\ stage[p] = "completing"
  /\ Settle(p, job[p], "completed")
  /\ Goto(p, "returned")
  /\ UNCHANGED <<count, done, direct, up, job, seen, crashes>>

-----------------------------------------------------------------------------
\* A pod dies with whatever it was working on, and is started again.
Crash(p) ==
  /\ up[p] /\ crashes < MaxCrashes
  /\ crashes' = crashes + 1
  /\ up' = [up EXCEPT ![p] = FALSE]
  /\ job' = [job EXCEPT ![p] = NoMessage] /\ seen' = [seen EXCEPT ![p] = 0]
  /\ stage' = [stage EXCEPT ![p] = "idle"]
  /\ UNCHANGED <<brokerVars, done, direct>>

\* A pod is shut down: onModuleDestroy of the processor closes the receiver,
\* a handler that runs goes on.
StopReceiver(p) ==
  /\ up[p] /\ crashes < MaxCrashes
  /\ crashes' = crashes + 1
  /\ up' = [up EXCEPT ![p] = FALSE]
  /\ UNCHANGED <<brokerVars, done, direct, job, seen, stage>>

\* cleanup closes the client without waiting for it, and the process ends.
Cleanup(p) ==
  /\ ~up[p] /\ stage[p] # "idle"
  /\ job' = [job EXCEPT ![p] = NoMessage] /\ seen' = [seen EXCEPT ![p] = 0]
  /\ stage' = [stage EXCEPT ![p] = "idle"]
  /\ UNCHANGED <<brokerVars, done, direct, up, crashes>>

\* onModuleInit of the processor calls startReceiver, in a new process.
StartReceiver(p) ==
  /\ ~up[p] /\ stage[p] = "idle"
  /\ up' = [up EXCEPT ![p] = TRUE]
  /\ UNCHANGED <<brokerVars, done, direct, job, seen, stage, crashes>>

-----------------------------------------------------------------------------
ProcessMessage(p) == \/ HandlerSucceeds(p) \/ HandlerFails(p)
                     \/ DeadLetter(p) \/ Complete(p) \/ AutoComplete(p)

Next ==
  \/ \E m \in Message : Send(m) \/ SendFails(m) \/ LoseLock(m)
  \/ \E p \in Pod, m \in Message : Deliver(p, m)
  \/ \E p \in Pod : \/ ProcessMessage(p) \/ Crash(p) \/ StartReceiver(p)
                    \/ StopReceiver(p) \/ Cleanup(p)

Spec == Init /\ [][Next]_vars

\* Handlers end (initializeClient and the mailer have timeouts), the broker
\* delivers what is queued and releases the lock of a pod that works on
\* something else or is gone, and pods are restarted.
LapsedHolder(m) == LoseLock(m) /\ job[holder[m]] # m

Fairness ==
  /\ \A p \in Pod : WF_vars(ProcessMessage(p)) /\ WF_vars(StartReceiver(p))
  /\ \A m \in Message : /\ WF_vars(\E p \in Pod : Deliver(p, m))
                        /\ WF_vars(LapsedHolder(m))

FairSpec == Spec /\ Fairness

-----------------------------------------------------------------------------
\* Types, and a lock exactly while the message is locked.
TypeOK ==
  /\ place \in [Message -> Place]
  /\ holder \in [Message -> Pod \cup {Nobody}]
  /\ count \in [Message -> 0..MaxDelivery]
  /\ done \in [Message -> Nat]
  /\ direct \in [Message -> BOOLEAN]
  /\ up \in [Pod -> BOOLEAN]
  /\ job \in [Pod -> Message \cup {NoMessage}]
  /\ seen \in [Pod -> 0..MaxDelivery]
  /\ stage \in [Pod -> Stage]
  /\ crashes \in 0..MaxCrashes
  /\ \A m \in Message : place[m] = "locked" <=> holder[m] # Nobody
  /\ \A p \in Pod : stage[p] # "idle" <=> job[p] # NoMessage

\* A duplicate needs a lapsed lock: the handler has not succeeded more often
\* than once for each delivery that ended unsettled and once more.  Two e-mails
\* are sent, or a session is initialized twice, only after a crash or a
\* handler that outlived its lock.
DuplicatesNeedLapses == \A m \in Message : done[m] <= count[m] + 1

\* The pods whose handler has not come to an end.
Working == {p \in Pod : stage[p] = "handling"}

Abstract == INSTANCE WorkQueue WITH
              Task <- Message, NoTask <- NoMessage, Worker <- Pod,
              Tries <- MaxRetries, Limit <- MaxDelivery,
              state <- place, lapses <- count, task <- job, open <- Working

\* Whatever crashes, shutdowns, lapses and refused settlements there are, the
\* receivers are the workers of WorkQueue: none settles what is locked for
\* another, or while its own handler runs; none dead-letters a message before
\* its retries, although the deliveryCount that processEmailMessage tests is
\* that of the pod's old copy; and no delivery is handled twice.
ImplementsWorkQueue == Abstract!Spec

\* What the broker has stored is settled in the end, whatever crashes.
EventuallySettled ==
  \A m \in Message :
    place[m] \in {"queued", "locked"} ~> place[m] \in {"completed", "dead"}

\* The comment in startReceiver: "With auto-complete, errors will cause the
\* message to be retried".  A message is completed only when a handler has
\* succeeded.
CompletedMeansDone == \A m \in Message : place[m] = "completed" => done[m] > 0
=============================================================================
