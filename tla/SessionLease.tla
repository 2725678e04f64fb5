---------------------------- MODULE SessionLease ----------------------------
(***************************************************************************)
(* The cross-pod lease of one WhatsApp session.  Every pod runs the same   *)
(* WhatsAppService; the session document in MongoDB holds the lease        *)
(* (connectionOwner, connectionOwnerExpiresAt) and each pod keeps, in      *)
(* memory, whether it has a client for the session and a timer that        *)
(* refreshes the lease.                                                    *)
(*                                                                         *)
(* Every asynchronous function is cut at the awaits at which another       *)
(* function of the pod, or another pod, can run.  Time is relative: what   *)
(* is kept is the time left before an instant, and Tick lets it pass.      *)
(***************************************************************************)
EXTENDS Integers

CONSTANTS Pod,              \* names of the pods (POD_NAME)
          NoOwner,          \* connectionOwner is unset
          TTL,              \* whatsapp.sessionLockTtlMs
          RefreshInterval,  \* whatsapp.sessionLockRefreshIntervalMs
          InitTimeout,      \* WHATSAPP_CLIENT_INIT_TIMEOUT_MS
          MaxGap,           \* longest time an initialization spends before
                            \* the client is in the map, and in the cleanup
                            \* between the two attempts
          Skew,             \* how far each pod's clock is ahead
          MaxSkew,
          MaxDisturbances,  \* bound: disconnects, lost connections, crashes
          Faults            \* subset of {"stall", "mongo"}: pods may be late,
                            \* lease updates may fail

ASSUME LeaseAssumption ==
  /\ NoOwner \notin Pod
  /\ TTL \in Nat /\ RefreshInterval \in Nat \ {0}
  /\ InitTimeout \in Nat \ {0} /\ MaxGap \in Nat \ {0}
  /\ MaxSkew \in Nat
  /\ Skew \in [Pod -> 0..MaxSkew]
  /\ MaxDisturbances \in Nat
  /\ Faults \subseteq {"stall", "mongo"}

VARIABLES
  owner,      \* connectionOwner of the session document
  ttlLeft,    \* connectionOwnerExpiresAt - true time, -1 once negative
  swept,      \* reconnectActiveSessions would pick the session: its status
              \* is not FAILED or QR_REQUIRED.  A DISCONNECTED session is
              \* picked when it was connected before, as this one was.
  up,         \* the pod's process runs
  pc,         \* where initializeClient is; "idle" iff initLocks has no entry
  gap,        \* time left to that step of the initialization
  clients,    \* this.clients.has(sessionId)
  listeners,  \* clients of the pod with event handlers: the one built last
              \* ("current"), earlier ones that were dropped ("stray")
  timer,      \* sessionLockRefreshTimers.has(sessionId)
  refreshIn,  \* time left before the timer fires
  teardown,   \* where disconnectSession is
  handler,    \* where handleDisconnected is
  givenUp,    \* history: the pod gave its lease back while an
              \* initialization of its own, or its client, was still there
  disturbances  \* how many of MaxDisturbances have happened

leaseVars == <<owner, ttlLeft>>
docVars   == <<owner, ttlLeft, swept>>
initVars  == <<pc, gap>>
mapVars   == <<clients, timer, refreshIn>>
histVars  == <<givenUp, disturbances>>
vars == <<owner, ttlLeft, swept, up, pc, gap, clients, listeners,
          timer, refreshIn, teardown, handler, givenUp, disturbances>>

PC == {"idle", "preparing", "launching", "cleanup", "retrying", "finishing",
       "stuck"}
Teardown == {"none", "closing", "closingKeep", "closingKeepSeen", "releasing"}
Handler  == {"none", "closing", "releasing"}

Init ==
  /\ owner = NoOwner /\ ttlLeft = -1
  /\ swept = TRUE
  /\ up = [p \in Pod |-> TRUE]
  /\ pc = [p \in Pod |-> "idle"] /\ gap = [p \in Pod |-> 0]
  /\ clients = [p \in Pod |-> FALSE] /\ listeners = [p \in Pod |-> {}]
  /\ timer = [p \in Pod |-> FALSE] /\ refreshIn = [p \in Pod |-> 0]
  /\ teardown = [p \in Pod |-> "none"] /\ handler = [p \in Pod |-> "none"]
  /\ givenUp = [p \in Pod |-> FALSE]
  /\ disturbances = 0

-----------------------------------------------------------------------------
\* The lease operations on the session document.

\* Mutants of CanAcquire: the filter without its conditions, and without the
\* one on the expiry.
CanAcquireAlways(p) == TRUE
CanAcquireUnexpired(p) == owner = NoOwner \/ owner = p

\* The filter of acquireSessionLock, read by the clock of pod p.
CanAcquire(p) == owner = NoOwner \/ ttlLeft < Skew[p] \/ owner = p

\* connectionOwner and its expiry are set: expiresAt = now + TTL.
Grant(p) == owner' = p /\ ttlLeft' = TTL + Skew[p]

\* Mutant of Refresh: the update does not move the expiry.
RefreshKeepsExpiry(p) == UNCHANGED leaseVars

\* refreshSessionLock: only the document whose connectionOwner is p.
Refresh(p) ==
  /\ owner' = owner
  /\ ttlLeft' = IF owner = p THEN TTL + Skew[p] ELSE ttlLeft

\* Mutant of Release: the filter without connectionOwner.
ReleaseAnybodys(p) == owner' = NoOwner /\ ttlLeft' = -1

\* releaseSessionLock: the same guard; all three fields are unset.
Release(p) ==
  /\ owner'   = IF owner = p THEN NoOwner ELSE owner
  /\ ttlLeft' = IF owner = p THEN -1 ELSE ttlLeft

\* History: did this step take the lease from under pod p?
NoteGivenUp(p) ==
  givenUp' = [givenUp EXCEPT ![p] = @ \/ /\ owner = p /\ owner' # p
                                         /\ clients[p] \/ pc[p] # "idle"]

\* startSessionLockRefresh keeps a timer that already runs.
StartRefresh(p) ==
  /\ timer' = [timer EXCEPT ![p] = TRUE]
  /\ refreshIn' = [refreshIn EXCEPT ![p] = IF timer[p] THEN @
                                           ELSE RefreshInterval]

StopRefresh(p) ==
  /\ timer' = [timer EXCEPT ![p] = FALSE]
  /\ refreshIn' = [refreshIn EXCEPT ![p] = 0]

\* Mutant of DropClient: stopSessionLockRefresh is forgotten.
DropClientKeepsTimer(p) ==
  clients' = [clients EXCEPT ![p] = FALSE] /\ UNCHANGED <<timer, refreshIn>>

\* clients.delete and stopSessionLockRefresh, always together.
DropClient(p) == clients' = [clients EXCEPT ![p] = FALSE] /\ StopRefresh(p)

\* Mutant of SetClient: startSessionLockRefresh is forgotten.
SetClientWithoutTimer(p) ==
  clients' = [clients EXCEPT ![p] = TRUE] /\ UNCHANGED <<timer, refreshIn>>

\* clients.set and startSessionLockRefresh.
SetClient(p) == clients' = [clients EXCEPT ![p] = TRUE] /\ StartRefresh(p)

\* One of the bounded number of disturbances.
Disturb == disturbances < MaxDisturbances /\ disturbances' = disturbances + 1

-----------------------------------------------------------------------------
\* initializeClient.

\* Up to the client map: acquireSessionLock, then the test of clients.has.
\* A pod that does not get the lease returns and changes nothing.
AcquireLock(p) ==
  /\ up[p] /\ pc[p] = "idle" /\ CanAcquire(p)
  /\ Grant(p)
  /\ givenUp' = [givenUp EXCEPT ![p] = FALSE]
  /\ \/ /\ clients[p]
        /\ StartRefresh(p)
        /\ UNCHANGED initVars
     \/ /\ ~clients[p]
        /\ pc' = [pc EXCEPT ![p] = "preparing"]
        /\ gap' = [gap EXCEPT ![p] = MaxGap]
        /\ UNCHANGED <<timer, refreshIn>>
  /\ UNCHANGED <<swept, up, clients, listeners, teardown, handler, disturbances>>

\* reconnectActiveSessions, at start-up and every two minutes.
Sweep(p) == swept /\ AcquireLock(p)

\* createSession, recreateSession, requestReconnect, queued INIT and
\* RECONNECT messages: initializeClient whatever the status.
Request(p) == ~swept /\ AcquireLock(p)

\* The client is built, its handlers attached, and put in the map.
AddClient(p) ==
  /\ up[p] /\ pc[p] = "preparing"
  /\ SetClient(p)
  /\ listeners' = [listeners EXCEPT ![p] =
                     {"current"} \cup (IF @ = {} THEN {} ELSE {"stray"})]
  /\ pc' = [pc EXCEPT ![p] = "launching"]
  /\ gap' = [gap EXCEPT ![p] = InitTimeout]
  /\ UNCHANGED <<docVars, up, teardown, handler, histVars>>

\* client.initialize() resolved before the timeout.
Launched(p) ==
  /\ up[p] /\ pc[p] \in {"launching", "retrying"}
  /\ pc' = [pc EXCEPT ![p] = "finishing"]
  /\ gap' = [gap EXCEPT ![p] = 0]
  /\ UNCHANGED <<docVars, up, mapVars, listeners, teardown, handler, histVars>>

\* Launch error or timeout of the first attempt: clean up and retry.
LaunchFails(p) ==
  /\ up[p] /\ pc[p] = "launching"
  /\ DropClient(p)
  /\ swept' = FALSE
  /\ pc' = [pc EXCEPT ![p] = "cleanup"]
  /\ gap' = [gap EXCEPT ![p] = MaxGap]
  /\ UNCHANGED <<leaseVars, up, listeners, teardown, handler, histVars>>

\* The retry: the same client, or one with a rotated auth id when the
\* cleanup failed, goes back into the map.  The lease is not read again.
Retry(p) ==
  /\ up[p] /\ pc[p] = "cleanup"
  /\ \E rotated \in BOOLEAN :
       listeners' = IF rotated
                      THEN [listeners EXCEPT ![p] = @ \cup {"current"}]
                      ELSE listeners
  /\ SetClient(p)
  /\ pc' = [pc EXCEPT ![p] = "retrying"]
  /\ gap' = [gap EXCEPT ![p] = InitTimeout]
  /\ UNCHANGED <<docVars, up, teardown, handler, histVars>>

\* Any other error, or a failed retry: the client leaves the map but is
\* neither destroyed nor silenced.
InitFails(p) ==
  /\ up[p] /\ pc[p] \in {"preparing", "launching", "retrying"}
  /\ DropClient(p)
  /\ swept' = FALSE
  /\ pc' = [pc EXCEPT ![p] = "finishing"]
  /\ gap' = [gap EXCEPT ![p] = 0]
  /\ UNCHANGED <<leaseVars, up, listeners, teardown, handler, histVars>>

\* The finally block: the lease goes back when no client is in the map;
\* when that update fails the initLocks entry is never removed.
Finish(p) ==
  /\ up[p] /\ pc[p] = "finishing"
  /\ \/ /\ clients[p]
        /\ pc' = [pc EXCEPT ![p] = "idle"]
        /\ UNCHANGED <<leaseVars, timer, refreshIn>>
     \/ /\ ~clients[p]
        /\ StopRefresh(p)
        /\ \/ Release(p) /\ pc' = [pc EXCEPT ![p] = "idle"]
           \/ /\ "mongo" \in Faults
              /\ pc' = [pc EXCEPT ![p] = "stuck"]
              /\ UNCHANGED leaseVars
  /\ UNCHANGED <<swept, up, gap, clients, listeners, teardown,
                 handler, histVars>>

-----------------------------------------------------------------------------
\* The refresh timer and the passing of time.

\* The interval callback: it stops itself without a client, otherwise it
\* sends the update and looks neither at the result nor at an error.
RefreshTimer(p) ==
  /\ up[p] /\ timer[p] /\ refreshIn[p] = 0
  /\ \/ /\ ~clients[p]
        /\ StopRefresh(p)
        /\ UNCHANGED leaseVars
     \/ /\ clients[p]
        /\ refreshIn' = [refreshIn EXCEPT ![p] = RefreshInterval]
        /\ Refresh(p) \/ ("mongo" \in Faults /\ UNCHANGED leaseVars)
        /\ UNCHANGED timer
  /\ UNCHANGED <<swept, up, initVars, clients, listeners, teardown,
                 handler, histVars>>

\* Nothing that is due now is still undone.
OnTime(p) ==
  /\ timer[p] => refreshIn[p] > 0
  /\ pc[p] \in {"preparing", "launching", "cleanup", "retrying"} => gap[p] > 0

\* Mutant of Minus1: an interval that goes on below zero.
Minus1Negative(n) == n - 1

Minus1(n) == IF n > 0 THEN n - 1 ELSE n

Tick ==
  /\ "stall" \in Faults \/ \A p \in Pod : OnTime(p)
  /\ ttlLeft' = IF ttlLeft >= 0 THEN ttlLeft - 1 ELSE ttlLeft
  /\ refreshIn' = [p \in Pod |-> Minus1(refreshIn[p])]
  /\ gap' = [p \in Pod |-> Minus1(gap[p])]
  /\ UNCHANGED <<owner, swept, up, pc, clients, listeners, timer,
                 teardown, handler, histVars>>

-----------------------------------------------------------------------------
\* disconnectSession: called by the API, the queue, idle cleanup (keep),
\* the QR gateway (keep), a phone mismatch (keep) and shutdown.

BeginDisconnect(p, keep) ==
  /\ Disturb
  /\ up[p] /\ teardown[p] = "none"
  /\ teardown' = [teardown EXCEPT ![p] = IF keep THEN "closingKeep"
                                         ELSE "closing"]
  /\ \/ /\ clients[p]
        /\ DropClient(p)
        /\ listeners' = [listeners EXCEPT ![p] = @ \ {"current"}]
     \/ /\ ~clients[p]
        /\ UNCHANGED <<mapVars, listeners>>
  /\ UNCHANGED <<docVars, up, initVars, handler, givenUp>>

\* The browser is gone: the status is written, then the finally block sends
\* the release unless somebody has put a client back into the map.
EndDisconnect(p) ==
  /\ up[p] /\ teardown[p] \in {"closing", "closingKeep", "closingKeepSeen"}
  /\ swept' = IF teardown[p] = "closing" THEN TRUE ELSE swept
  /\ \/ /\ clients[p]
        /\ teardown' = [teardown EXCEPT ![p] = "none"]
        /\ UNCHANGED <<timer, refreshIn>>
     \/ /\ ~clients[p]
        /\ StopRefresh(p)
        /\ teardown' = [teardown EXCEPT ![p] = "releasing"]
  /\ UNCHANGED <<leaseVars, up, initVars, clients, listeners, handler,
                 histVars>>

\* The release reaches MongoDB.
ReleaseDisconnect(p) ==
  /\ up[p] /\ teardown[p] = "releasing"
  /\ teardown' = [teardown EXCEPT ![p] = "none"]
  /\ Release(p) \/ ("mongo" \in Faults /\ UNCHANGED leaseVars)
  /\ NoteGivenUp(p)
  /\ UNCHANGED <<swept, up, initVars, mapVars, listeners, handler, disturbances>>

-----------------------------------------------------------------------------
\* Events of the pod's clients.

\* handleReady.
Ready(p) ==
  /\ up[p] /\ listeners[p] # {}
  /\ swept' = TRUE
  /\ UNCHANGED <<leaseVars, up, initVars, mapVars, listeners, teardown,
                 handler, histVars>>

\* handleQRCode, when the session does not count as connected.
QrCode(p) ==
  /\ up[p] /\ listeners[p] # {}
  /\ swept' = FALSE
  /\ UNCHANGED <<leaseVars, up, initVars, mapVars, listeners, teardown,
                 handler, histVars>>

\* handleDisconnected (after a disconnected or auth_failure event), up to
\* the database writes; with a preserve marker it only drops the client.
\* The handler does not ask which of the pod's clients the event is from.
BeginDisconnected(p) ==
  /\ Disturb
  /\ up[p] /\ handler[p] = "none" /\ listeners[p] # {}
  /\ \/ /\ teardown[p] = "closingKeep"
        /\ teardown' = [teardown EXCEPT ![p] = "closingKeepSeen"]
        /\ DropClient(p)
        /\ handler' = [handler EXCEPT ![p] = "releasing"]
        /\ UNCHANGED swept
     \/ /\ teardown[p] # "closingKeep"
        /\ swept' = TRUE
        /\ handler' = [handler EXCEPT ![p] = "closing"]
        /\ UNCHANGED <<teardown, mapVars>>
  /\ UNCHANGED <<leaseVars, up, initVars, listeners, givenUp>>

\* ... after the writes (and the file cleanup of a LOGOUT, which also
\* silences the client): whatever client is in the map now is dropped.
EndDisconnected(p) ==
  /\ up[p] /\ handler[p] = "closing"
  /\ \E logout \in BOOLEAN :
       listeners' = IF logout
                      THEN [listeners EXCEPT ![p] = @ \ {"current"}]
                      ELSE listeners
  /\ DropClient(p)
  /\ handler' = [handler EXCEPT ![p] = "releasing"]
  /\ UNCHANGED <<docVars, up, initVars, teardown, histVars>>

\* ... and the lease is released.  When that fails, the error reaches the
\* event listener, which for a disconnected event writes FAILED.
ReleaseDisconnected(p) ==
  /\ up[p] /\ handler[p] = "releasing"
  /\ handler' = [handler EXCEPT ![p] = "none"]
  /\ \/ Release(p) /\ UNCHANGED swept
     \/ "mongo" \in Faults /\ swept' \in {swept, FALSE} /\ UNCHANGED leaseVars
  /\ NoteGivenUp(p)
  /\ UNCHANGED <<up, initVars, mapVars, listeners, teardown, disturbances>>

-----------------------------------------------------------------------------
\* A pod is killed: its memory is gone, the document is as it was.
Crash(p) ==
  /\ Disturb
  /\ up[p]
  /\ up' = [up EXCEPT ![p] = FALSE]
  /\ pc' = [pc EXCEPT ![p] = "idle"] /\ gap' = [gap EXCEPT ![p] = 0]
  /\ DropClient(p)
  /\ listeners' = [listeners EXCEPT ![p] = {}]
  /\ teardown' = [teardown EXCEPT ![p] = "none"]
  /\ handler' = [handler EXCEPT ![p] = "none"]
  /\ givenUp' = [givenUp EXCEPT ![p] = FALSE]
  /\ UNCHANGED docVars

\* It is started again under the same name.
Restart(p) ==
  /\ ~up[p]
  /\ up' = [up EXCEPT ![p] = TRUE]
  /\ UNCHANGED <<docVars, initVars, mapVars, listeners, teardown, handler,
                 histVars>>

-----------------------------------------------------------------------------
InitStep(p) == \/ AddClient(p) \/ Launched(p) \/ LaunchFails(p) \/ Retry(p)
               \/ InitFails(p) \/ Finish(p)

TeardownStep(p) == EndDisconnect(p) \/ ReleaseDisconnect(p)

HandlerStep(p) == EndDisconnected(p) \/ ReleaseDisconnected(p)

PodNext(p) ==
  \/ Sweep(p) \/ Request(p)
  \/ InitStep(p)
  \/ RefreshTimer(p)
  \/ \E keep \in BOOLEAN : BeginDisconnect(p, keep)
  \/ TeardownStep(p)
  \/ Ready(p) \/ QrCode(p)
  \/ BeginDisconnected(p)
  \/ HandlerStep(p)
  \/ Crash(p) \/ Restart(p)

Next == Tick \/ \E p \in Pod : PodNext(p)

Spec == Init /\ [][Next]_vars

\* The process of a pod runs what it has begun, its timers fire, MongoDB
\* answers and time passes (weak fairness).  A sweep finds the lease free
\* only now and then, so it needs strong fairness: the sweep is repeated for
\* ever by a cron job.  Nothing makes a client event, a request, a
\* disconnect or a crash happen, nor a pod return under its old name.
Fairness ==
  /\ WF_vars(Tick)
  /\ \A p \in Pod : /\ WF_vars(InitStep(p))
                    /\ WF_vars(RefreshTimer(p))
                    /\ WF_vars(TeardownStep(p))
                    /\ WF_vars(HandlerStep(p))
                    /\ SF_vars(Sweep(p))

FairSpec == Spec /\ Fairness

-----------------------------------------------------------------------------
\* Properties.

TypeOK ==
  /\ owner \in Pod \cup {NoOwner}
  /\ ttlLeft \in Int
  /\ swept \in BOOLEAN
  /\ up \in [Pod -> BOOLEAN]
  /\ pc \in [Pod -> PC] /\ gap \in [Pod -> Nat]
  /\ clients \in [Pod -> BOOLEAN]
  /\ listeners \in [Pod -> SUBSET {"current", "stray"}]
  /\ timer \in [Pod -> BOOLEAN] /\ refreshIn \in [Pod -> Nat]
  /\ teardown \in [Pod -> Teardown] /\ handler \in [Pod -> Handler]
  /\ givenUp \in [Pod -> BOOLEAN]
  /\ disturbances \in 0..MaxDisturbances

\* A client in the map of a pod that did not itself give its lease back.
Covered(p) == clients[p] /\ ~givenUp[p]

\* No pod is late and no update fails, and the lease is long enough for the
\* longest initialization: 300 s for the defaults of 120 s, 60 s and what
\* remains for MaxGap and MaxSkew.
Timely == /\ Faults = {}
          /\ MaxGap + InitTimeout + MaxGap + RefreshInterval + MaxSkew <= TTL

\* A client is in the map exactly while its lease is being refreshed, so
\* that no client outlives its lease by a forgotten timer and no timer
\* renews the lease of a client that is gone.
RefreshFollowsClient == \A p \in Pod : timer[p] <=> clients[p]

\* While timers and updates are in time, a covered client is backed by a
\* lease that no pod's clock, however far ahead, sees as expired.
ClientBackedByLease ==
  \A p \in Pod : Covered(p) => owner = p /\ ttlLeft >= MaxSkew

\* Why: from the moment a pod acquires the lease to the moment its client is
\* in the map for good, what is left of the lease covers the rest of the
\* initialization, although nothing refreshes it between the two attempts.
LeaseCovers(p, time) == owner = p /\ ttlLeft >= MaxSkew + time

WorkCovered(p) ==
  ~givenUp[p] =>
    /\ clients[p] => LeaseCovers(p, refreshIn[p])
    /\ pc[p] = "preparing" =>
         LeaseCovers(p, gap[p] + InitTimeout + MaxGap + RefreshInterval)
    /\ pc[p] = "launching" => LeaseCovers(p, gap[p] + MaxGap + RefreshInterval)
    /\ pc[p] = "cleanup" => LeaseCovers(p, gap[p] + RefreshInterval)

LeaseCoversWork == \A p \in Pod : WorkCovered(p)

\* A lease that some clock still sees as valid leaves its owner only when
\* the owner itself gives it back: at the end of a failed initialization, of
\* disconnectSession or of handleDisconnected.  Nothing of another pod's
\* ends it, whatever fails.
LeaseNotStolen ==
  [][ owner # NoOwner /\ ttlLeft >= MaxSkew /\ owner' # owner
        => /\ owner' = NoOwner
           /\ \/ pc[owner] = "finishing" /\ pc'[owner] = "idle"
              \/ teardown[owner] = "releasing" /\ teardown'[owner] = "none"
              \/ handler[owner] = "releasing" /\ handler'[owner] = "none"
    ]_vars

\* The pod that drives the session, as ExclusiveOwner sees it.
Holder == IF \E p \in Pod : Covered(p) THEN CHOOSE p \in Pod : Covered(p)
                                       ELSE NoOwner

Abstract == INSTANCE ExclusiveOwner WITH holder <- Holder

\* The lease implements ExclusiveOwner.
ImplementsExclusiveOwner == Abstract!Spec

\* Nobody works for the lease's owner any more: it crashed, or its release
\* was lost.
OrphanedLease ==
  \E p \in Pod : /\ owner = p
                 /\ ~clients[p] /\ pc[p] = "idle"
                 /\ teardown[p] = "none" /\ handler[p] = "none"

\* A pod that can initialize the session: it is up, and no failed release has
\* left its initLocks entry behind.
CanTakeOver(p) == up[p] /\ pc[p] # "stuck"

\* An orphaned lease is not for ever, even when its owner never comes back:
\* the sweep of some pod takes the session over, unless something takes it
\* out of the sweep's reach or no pod is left that could.
OrphanTakenOver ==
  OrphanedLease ~> ~OrphanedLease \/ ~swept \/ ~\E p \in Pod : CanTakeOver(p)
=============================================================================
