--------------------------- MODULE ClientRegistry ---------------------------
(***************************************************************************)
(* The in-memory bookkeeping one pod keeps for one WhatsApp session: the   *)
(* clients map, initLocks, initializingSessions, cleanupFailed and the     *)
(* disconnectingWithPreserve marker, as initializeClient, disconnectSession*)
(* and handleDisconnected change them.  What those functions write to the  *)
(* database is in ConnectionStatus, the lease they hold in SessionLease.   *)
(***************************************************************************)
EXTENDS DisconnectCallers, Integers

CONSTANTS Caller,     \* concurrent callers of initializeClient: API requests,
                      \* queue messages, the reconnect sweep
          NoCaller,
          MaxClients  \* bound: client instances built

ASSUME RegistryAssumption ==
  /\ NoCaller \notin Caller
  /\ MaxClients \in Nat

VARIABLES
  pc,            \* where each call of initializeClient is
  initLock,      \* whose promise initLocks holds for the session
  initializing,  \* initializingSessions.has
  cleanupFailed, \* cleanupFailed.has
  built,         \* number of client instances built; they are 1..built
  mapped,        \* the instance in this.clients, 0 when there is none
  mine,          \* the variable "client" of each initialization
  hears,         \* the instances that still have their event handlers
  marker,        \* disconnectingWithPreserve.has
  closing,       \* the calls of disconnectSession that await destroy()
  target,        \* the instance each of them is closing
  dropping       \* handleDisconnected is between its first await and its end

initVars  == <<pc, initLock, initializing, cleanupFailed, mine>>
closeVars == <<marker, closing, target, dropping>>
vars == <<pc, initLock, initializing, cleanupFailed, built, mapped, mine, hears,
          marker, closing, target, dropping>>

\* The program points of an initialization after its initLocks entry is set.
RunPC == {"acquiring", "preparing", "launching", "cleaning", "relaunching",
          "retrying", "finishing"}

Running(c) == pc[c] \in RunPC

Init ==
  /\ pc = [c \in Caller |-> "idle"] /\ mine = [c \in Caller |-> 0]
  /\ initLock = NoCaller
  /\ initializing = FALSE /\ cleanupFailed = FALSE
  /\ built = 0 /\ mapped = 0 /\ hears = {}
  /\ marker = FALSE /\ closing = {} /\ target = [d \in Closer |-> 0]
  /\ dropping = FALSE

-----------------------------------------------------------------------------
\* initializeClient.

Goto(c, point) == pc' = [pc EXCEPT ![c] = point]

\* Mutant of BuildClient: the new instance does not replace the old one.
BuildClientUnmapped(c) ==
  /\ built' = built + 1
  /\ mapped' = IF mine[c] = 0 THEN built' ELSE mine[c]
  /\ mine' = [mine EXCEPT ![c] = built']

\* A new instance, in the map and with handlers; the caller's "client".
BuildClient(c) ==
  /\ built' = built + 1
  /\ mapped' = built'
  /\ mine' = [mine EXCEPT ![c] = built']

\* Somebody initializes already: await its promise.
CallWaits(c) ==
  /\ pc[c] = "idle" /\ initLock # NoCaller /\ Running(initLock)
  /\ Goto(c, "waiting")
  /\ UNCHANGED <<initLock, initializing, cleanupFailed, built, mapped, mine,
                 hears, closeVars>>

\* Mutant of CallRuns: initLocks is not looked at.
CallRunsUnlocked(c) ==
  /\ pc[c] = "idle"
  /\ built + 2 <= MaxClients
  /\ initializing' = TRUE
  /\ initLock' = c
  /\ IF cleanupFailed THEN pc' = pc ELSE Goto(c, "acquiring")
  /\ UNCHANGED <<cleanupFailed, built, mapped, mine, hears, closeVars>>

\* Otherwise the call runs at once up to its first await.  (A settled promise
\* that was left in initLocks makes it return without any effect.)  A run
\* builds at most two instances.
CallRuns(c) ==
  /\ pc[c] = "idle" /\ initLock = NoCaller
  /\ built + 2 <= MaxClients
  /\ initializing' = TRUE
  /\ initLock' = c
  /\ IF cleanupFailed
       THEN pc' = pc                \* returns before the try: no finally
       ELSE Goto(c, "acquiring")
  /\ UNCHANGED <<cleanupFailed, built, mapped, mine, hears, closeVars>>

\* acquireSessionLock answered; it may also throw.
Acquire(c) ==
  /\ pc[c] = "acquiring"
  /\ \/ Goto(c, "finishing")                     \* refused, or it threw
     \/ mapped # 0 /\ Goto(c, "finishing")       \* client already exists
     \/ mapped = 0 /\ Goto(c, "preparing")
  /\ UNCHANGED <<initLock, initializing, cleanupFailed, built, mapped, mine,
                 hears, closeVars>>

\* buildClient, attachHandlers, clients.set and client.initialize().
AddClient(c) ==
  /\ pc[c] = "preparing"
  /\ BuildClient(c)
  /\ hears' = hears \cup {built'}
  /\ Goto(c, "launching")
  /\ UNCHANGED <<initLock, initializing, cleanupFailed, closeVars>>

\* client.initialize() resolved.
Launched(c) ==
  /\ pc[c] \in {"launching", "retrying"}
  /\ Goto(c, "finishing")
  /\ UNCHANGED <<initLock, initializing, cleanupFailed, built, mapped, mine,
                 hears, closeVars>>

\* Mutant of LaunchFails: client.initialize() has no timeout and never fails.
LaunchFailsNever(c) == FALSE /\ UNCHANGED vars

\* Launch error, or no answer within the timeout.
LaunchFails(c) ==
  /\ pc[c] = "launching"
  /\ mapped' = 0
  /\ Goto(c, "cleaning")
  /\ UNCHANGED <<initLock, initializing, cleanupFailed, built, mine, hears,
                 closeVars>>

\* cleanupSessionFilesByClientId: the files of one auth client id are gone,
\* or were never there, or are still locked at the last of its attempts.
FilesRemoved == {TRUE, FALSE}

\* cleanupSessionFilesForSession tries the current auth client id and the
\* session id, and has succeeded when both are clean.
CleanupResults ==
  LET ids == {"authClientId", "sessionId"}
  IN  {\A i \in ids : removed[i] : removed \in [ids -> FilesRemoved]}

\* The clean-up, and the pause after it; an error counts as a failure.
Clean(c) ==
  /\ pc[c] = "cleaning"
  /\ \E cleaned \in CleanupResults \cup {FALSE} : cleanupFailed' = ~cleaned
  /\ Goto(c, "relaunching")
  /\ UNCHANGED <<initLock, initializing, built, mapped, mine, hears, closeVars>>

\* Mutant of Retry: every launch error is retried, not only the first.
RetryAgain(c) ==
  /\ pc[c] = "relaunching"
  /\ \/ /\ cleanupFailed
        /\ BuildClient(c)
        /\ hears' = (hears \ {mine[c]}) \cup {built'}
     \/ /\ ~cleanupFailed
        /\ mapped' = mine[c]
        /\ UNCHANGED <<built, mine, hears>>
  /\ Goto(c, "launching")
  /\ UNCHANGED <<initLock, initializing, cleanupFailed, closeVars>>

\* The second attempt: with the same instance, or, when the files could not
\* be removed, with one that has a rotated auth id.
Retry(c) ==
  /\ pc[c] = "relaunching"
  /\ \/ /\ cleanupFailed
        /\ BuildClient(c)
        /\ hears' = (hears \ {mine[c]}) \cup {built'}
     \/ /\ ~cleanupFailed
        /\ mapped' = mine[c]
        /\ UNCHANGED <<built, mine, hears>>
  /\ Goto(c, "retrying")
  /\ UNCHANGED <<initLock, initializing, cleanupFailed, closeVars>>

\* An error that is not a launch error, or any error of the second attempt.
InitFails(c) ==
  /\ \/ pc[c] \in {"launching", "retrying"} /\ mapped' = 0
     \/ pc[c] \in {"preparing", "cleaning", "relaunching"} /\ mapped' = mapped
  /\ Goto(c, "finishing")
  /\ UNCHANGED <<initLock, initializing, cleanupFailed, built, mine, hears,
                 closeVars>>

\* The finally block; the promise settles and resumes whoever awaits it.
Finish(c) ==
  /\ pc[c] = "finishing"
  /\ pc' = [d \in Caller |-> IF d = c \/ pc[d] = "waiting" THEN "idle"
                                                            ELSE pc[d]]
  /\ initLock' = NoCaller
  /\ initializing' = FALSE
  /\ UNCHANGED <<cleanupFailed, built, mapped, mine, hears, closeVars>>

-----------------------------------------------------------------------------
\* disconnectSession.

\* Mutant of BeginClose: the handlers stay attached to the client.
BeginCloseHeard(d) ==
  /\ d \notin closing /\ mapped # 0
  /\ closing' = closing \cup {d}
  /\ target' = [target EXCEPT ![d] = mapped]
  /\ marker' = (marker \/ d \in Preserve)
  /\ mapped' = 0
  /\ UNCHANGED <<initVars, built, hears, dropping>>

\* Up to destroy().  Without a client a preserving call has nothing to wait
\* for: its finally block runs at once and clears the marker.
BeginClose(d) ==
  /\ d \notin closing
  /\ d = "idle" => /\ ~initializing
                   /\ \A c \in Caller : pc[c] # "cleaning"
  /\ \/ /\ mapped # 0
        /\ closing' = closing \cup {d}
        /\ target' = [target EXCEPT ![d] = mapped]
        /\ marker' = (marker \/ d \in Preserve)
        /\ hears' = hears \ {mapped}
        /\ mapped' = 0
     \/ /\ mapped = 0
        /\ closing' = IF d \in Preserve THEN closing ELSE closing \cup {d}
        /\ marker' = (marker /\ d \notin Preserve)
        /\ UNCHANGED <<target, hears, mapped>>
  /\ UNCHANGED <<initVars, built, dropping>>

\* Mutant of EndClose: the marker is not cleared.
EndCloseMarked(d) ==
  /\ d \in closing
  /\ closing' = closing \ {d}
  /\ target' = [target EXCEPT ![d] = 0]
  /\ UNCHANGED <<initVars, built, mapped, hears, marker, dropping>>

\* The browser is gone and the status is written; the finally block.
EndClose(d) ==
  /\ d \in closing
  /\ closing' = closing \ {d}
  /\ target' = [target EXCEPT ![d] = 0]
  /\ marker' = (marker /\ d \notin Preserve)
  /\ UNCHANGED <<initVars, built, mapped, hears, dropping>>

-----------------------------------------------------------------------------
\* handleDisconnected, for a disconnected or auth_failure event of any
\* instance that has handlers: only one such call is followed at a time.
BeginDisconnected ==
  /\ hears # {} /\ ~dropping
  /\ \/ /\ marker
        /\ marker' = FALSE
        /\ mapped' = 0
        /\ UNCHANGED dropping
     \/ /\ ~marker
        /\ dropping' = TRUE
        /\ UNCHANGED <<marker, mapped>>
  /\ UNCHANGED <<initVars, built, hears, closing, target>>

\* On a LOGOUT the handlers are removed and the files cleaned up before.
EndDisconnected ==
  /\ dropping
  /\ dropping' = FALSE
  /\ mapped' = 0
  /\ \E logout \in BOOLEAN : hears' = IF logout THEN hears \ {mapped} ELSE hears
  /\ UNCHANGED <<initVars, built, marker, closing, target>>

-----------------------------------------------------------------------------
InitStep(c) ==
  \/ Acquire(c) \/ AddClient(c) \/ Launched(c) \/ LaunchFails(c) \/ Clean(c)
  \/ Retry(c) \/ InitFails(c) \/ Finish(c)

Next ==
  \/ \E c \in Caller : CallWaits(c) \/ CallRuns(c) \/ InitStep(c)
  \/ \E d \in Closer : BeginClose(d) \/ EndClose(d)
  \/ BeginDisconnected \/ EndDisconnected

Spec == Init /\ [][Next]_vars

\* What the pod itself brings about: MongoDB and the file system answer, and
\* the timeout fires.  The browser need never answer (no fairness of
\* Launched), nor need anybody call.
Advance(c) ==
  \/ Acquire(c) \/ AddClient(c) \/ LaunchFails(c) \/ Clean(c) \/ Retry(c)
  \/ pc[c] = "retrying" /\ InitFails(c)
  \/ Finish(c)

Fairness == /\ \A c \in Caller : WF_vars(Advance(c))
            /\ \A d \in Closer : WF_vars(EndClose(d))
            /\ WF_vars(EndDisconnected)

FairSpec == Spec /\ Fairness

-----------------------------------------------------------------------------
\* Properties.

TypeOK ==
  /\ pc \in [Caller -> RunPC \cup {"idle", "waiting"}]
  /\ initLock \in Caller \cup {NoCaller}
  /\ initializing \in BOOLEAN /\ cleanupFailed \in BOOLEAN
  /\ built \in 0..MaxClients /\ mapped \in 0..MaxClients
  /\ mine \in [Caller -> 0..MaxClients]
  /\ hears \subseteq 1..MaxClients
  /\ marker \in BOOLEAN
  /\ closing \subseteq Closer
  /\ target \in [Closer -> 0..MaxClients]
  /\ dropping \in BOOLEAN

\* "Prevent concurrent initialization for the same session": callers may
\* overlap in any way, one of them builds and launches a client.
OneInitialization ==
  \A c, d \in Caller : Running(c) /\ Running(d) => c = d

\* The map never holds an instance that a later one replaced, although the
\* retry puts back a client that was built long before.
MapHoldsNewest == mapped \in {0, built}

\* The marker that makes handleDisconnected ignore an event is set only
\* while a preserving disconnectSession is closing a client, so that it
\* cannot swallow the loss of a later connection.
MarkerOnlyWhileClosing == marker => closing \cap Preserve # {}

\* The client being closed is silent: the events of its destroy() cannot
\* write the status that preserveStatus keeps.
ClosedClientIsSilent == \A d \in closing : target[d] \notin hears

\* Whoever awaits another caller's initialization is resumed, although the
\* browser may never answer.
WaitersResume == \A c \in Caller : pc[c] = "waiting" ~> pc[c] = "idle"

\* "... skipping init to avoid launch errors (retry later)": there can be a
\* retry only when the skipped call does not leave its entry in initLocks.
InitLockNotLeaked == initLock # NoCaller => Running(initLock)
=============================================================================
