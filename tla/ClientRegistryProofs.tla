------------------------ MODULE ClientRegistryProofs ------------------------
(***************************************************************************)
(* What one pod does with a session: proofs about ClientRegistry, for any  *)
(* set of callers and any number of client instances, that its callers     *)
(* take turns and strand nobody, and below about ConnectionStatus, for any *)
(* number of functions that overlap.                                       *)
(***************************************************************************)
EXTENDS ClientRegistry, ConnectionRecord, TLAPS

\* The promise in initLocks is that of the initialization that runs, and
\* initializingSessions has the session meanwhile.
LockHeld == \A c \in Caller : Running(c) => initLock = c /\ initializing

\* Until it has launched it for good, an initialization's client is the
\* newest instance.
ClientIsMine ==
  \A c \in Caller :
    pc[c] \in {"launching", "cleaning", "relaunching"} => mine[c] = built

\* The bound on instances is respected: a run builds at most two.
RoomLeft ==
  \A c \in Caller :
    /\ pc[c] \in {"acquiring", "preparing"} => built + 2 <= MaxClients
    /\ pc[c] \in {"launching", "cleaning", "relaunching"}
         => built + 1 <= MaxClients

\* Only instances that exist are being closed.
TargetsBuilt == \A d \in Closer : target[d] <= built

RegistryInv == /\ TypeOK /\ LockHeld /\ ClientIsMine /\ RoomLeft
               /\ TargetsBuilt /\ MapHoldsNewest

\* One step of an initialization.
LEMMA InitStepInv ==
  ASSUME RegistryInv, NEW c \in Caller, InitStep(c)
  PROVE  RegistryInv'
<1> USE RegistryAssumption
    DEF RegistryInv, TypeOK, LockHeld, ClientIsMine, RoomLeft, TargetsBuilt,
        MapHoldsNewest, Running, RunPC, Goto, closeVars
<1>1. CASE Acquire(c)
  BY <1>1 DEF Acquire
<1>2. CASE AddClient(c)
  BY <1>2 DEF AddClient, BuildClient
<1>3. CASE Launched(c)
  BY <1>3 DEF Launched
<1>4. CASE LaunchFails(c)
  BY <1>4 DEF LaunchFails
<1>5. CASE Clean(c)
  <2>1. cleanupFailed' \in BOOLEAN
    BY <1>5, Zenon DEF Clean
  <2> QED
    BY <1>5, <2>1 DEF Clean
<1>6. CASE Retry(c)
  <2> USE <1>6 DEF Retry
  <2>1. CASE cleanupFailed
    <3>1. built' = built + 1 /\ mapped' = built' /\ mine' = [mine EXCEPT ![c] = built']
      BY <2>1 DEF BuildClient
    <3>2. built' \in 0..MaxClients
      <4>1. built \in Nat /\ built + 1 <= MaxClients
        OBVIOUS
      <4> QED
        BY <3>1, <4>1
    <3>3. hears' \subseteq 1..MaxClients
      <4>1. hears' = (hears \ {mine[c]}) \cup {built'} /\ built' \in 1..MaxClients
        BY <2>1, <3>1, <3>2
      <4> QED
        BY <4>1
    <3>4. pc' = [pc EXCEPT ![c] = "retrying"]
      OBVIOUS
    <3>5. \A d \in Caller \ {c} : pc[d] \notin RunPC
      OBVIOUS
    <3>6. \A d \in Caller : pc'[d] \notin
            {"acquiring", "preparing", "launching", "cleaning", "relaunching"}
      BY <3>4, <3>5
    <3>7. LockHeld' /\ TargetsBuilt' /\ MapHoldsNewest'
      BY <3>1, <3>4
    <3>8. TypeOK'
      BY <3>1, <3>2, <3>3, <3>4
    <3> QED
      BY <3>6, <3>7, <3>8
  <2>2. CASE ~cleanupFailed
    BY <2>2
  <2> QED
    BY <2>1, <2>2
<1>7. CASE InitFails(c)
  BY <1>7 DEF InitFails
<1>8. CASE Finish(c)
  BY <1>8 DEF Finish
<1> QED
  BY <1>1, <1>2, <1>3, <1>4, <1>5, <1>6, <1>7, <1>8 DEF InitStep

\* One step of anything.
LEMMA RegistryInvStep ==
  ASSUME RegistryInv, [Next]_vars
  PROVE  RegistryInv'
<1> USE RegistryAssumption
    DEF RegistryInv, TypeOK, LockHeld, ClientIsMine, RoomLeft, TargetsBuilt,
        MapHoldsNewest, Running, RunPC, Goto, initVars, closeVars
<1>1. ASSUME NEW c \in Caller, CallWaits(c)
      PROVE  RegistryInv'
  BY <1>1 DEF CallWaits
<1>2. ASSUME NEW c \in Caller, CallRuns(c)
      PROVE  RegistryInv'
  BY <1>2 DEF CallRuns
<1>3. ASSUME NEW c \in Caller, InitStep(c)
      PROVE  RegistryInv'
  BY <1>3, InitStepInv
<1>4. ASSUME NEW d \in Closer, BeginClose(d)
      PROVE  RegistryInv'
  <2> USE <1>4 DEF BeginClose
  <2>1. CASE mapped # 0
    <3>1. target' = [target EXCEPT ![d] = mapped] /\ mapped' = 0
      BY <2>1
    <3>2. closing' \subseteq Closer /\ marker' \in BOOLEAN
      BY <2>1
    <3>3. hears' \subseteq 1..MaxClients
      BY <2>1
    <3> QED
      BY <3>1, <3>2, <3>3
  <2>2. CASE mapped = 0
    <3>1. closing' \subseteq Closer /\ marker' \in BOOLEAN
      BY <2>2
    <3> QED
      BY <2>2, <3>1
  <2> QED
    BY <2>1, <2>2
<1>5. ASSUME NEW d \in Closer, EndClose(d)
      PROVE  RegistryInv'
  BY <1>5 DEF EndClose
<1>6. CASE BeginDisconnected \/ EndDisconnected
  <2>1. /\ UNCHANGED <<initVars, built, closing, target>>
        /\ marker' \in BOOLEAN /\ dropping' \in BOOLEAN /\ mapped' \in {0, mapped}
    BY <1>6 DEF BeginDisconnected, EndDisconnected
  <2>2. hears' \subseteq hears
    BY <1>6 DEF BeginDisconnected, EndDisconnected
  <2> QED
    BY <2>1, <2>2
<1>7. CASE UNCHANGED vars
  BY <1>7 DEF vars
<1> QED
  BY <1>1, <1>2, <1>3, <1>4, <1>5, <1>6, <1>7 DEF Next

\* The inductive invariant holds in every behaviour.
LEMMA RegistryInvHolds == Spec => []RegistryInv
<1>1. Init => RegistryInv
  <2> SUFFICES ASSUME Init PROVE RegistryInv
    OBVIOUS
  <2>1. TypeOK
    <3>1. built \in 0..MaxClients /\ mapped \in 0..MaxClients
      BY RegistryAssumption DEF Init
    <3>2. mine \in [Caller -> 0..MaxClients] /\ target \in [Closer -> 0..MaxClients]
      BY RegistryAssumption DEF Init
    <3>3. hears \subseteq 1..MaxClients /\ closing \subseteq Closer
      BY DEF Init
    <3>4. pc \in [Caller -> RunPC \cup {"idle", "waiting"}]
      BY DEF Init
    <3> QED
      BY <3>1, <3>2, <3>3, <3>4 DEF Init, TypeOK
  <2>2. \A c \in Caller : pc[c] = "idle"
    BY DEF Init
  <2>3. LockHeld /\ ClientIsMine /\ RoomLeft
    BY <2>2 DEF LockHeld, ClientIsMine, RoomLeft, Running, RunPC
  <2>4. TargetsBuilt /\ MapHoldsNewest
    BY DEF Init, TargetsBuilt, MapHoldsNewest
  <2> QED
    BY <2>1, <2>3, <2>4 DEF RegistryInv
<1>2. RegistryInv /\ [Next]_vars => RegistryInv'
  BY RegistryInvStep
<1> QED
  BY <1>1, <1>2, PTL DEF Spec

-----------------------------------------------------------------------------
\* However many callers overlap, one of them initializes the session.
THEOREM OneInit == Spec => []OneInitialization
<1>1. RegistryInv => OneInitialization
  BY DEF RegistryInv, LockHeld, OneInitialization
<1> QED
  BY <1>1, RegistryInvHolds, PTL

\* The clients map never falls back to an instance that was replaced.
THEOREM NewestInMap == Spec => []MapHoldsNewest
<1>1. RegistryInv => MapHoldsNewest
  BY DEF RegistryInv
<1> QED
  BY <1>1, RegistryInvHolds, PTL

\* The marker is set only while somebody who will clear it is still closing.
THEOREM MarkerCleared == Spec => []MarkerOnlyWhileClosing
<1>1. Init => MarkerOnlyWhileClosing
  BY DEF Init, MarkerOnlyWhileClosing
<1>2. ASSUME TypeOK, MarkerOnlyWhileClosing, [Next]_vars
      PROVE  MarkerOnlyWhileClosing'
  <2> USE <1>2 DEF MarkerOnlyWhileClosing, closeVars
  <2>1. ASSUME NEW c \in Caller, CallWaits(c) \/ CallRuns(c) \/ InitStep(c)
        PROVE  MarkerOnlyWhileClosing'
    BY <2>1 DEF CallWaits, CallRuns, InitStep, Acquire, AddClient, Launched,
                LaunchFails, Clean, Retry, InitFails, Finish
  <2>2. ASSUME NEW d \in Closer, BeginClose(d) \/ EndClose(d)
        PROVE  MarkerOnlyWhileClosing'
    BY <2>2 DEF BeginClose, EndClose
  <2>3. CASE BeginDisconnected \/ EndDisconnected
    BY <2>3 DEF BeginDisconnected, EndDisconnected
  <2>4. CASE UNCHANGED vars
    BY <2>4 DEF vars
  <2> QED
    BY <2>1, <2>2, <2>3, <2>4 DEF Next
<1>3. RegistryInv => TypeOK
  BY DEF RegistryInv
<1> QED
  BY <1>1, <1>2, <1>3, RegistryInvHolds, PTL DEF Spec

\* The types hold: no run builds more instances than the bound allows, whatever
\* the callers do.
THEOREM RegistryTypes == Spec => []TypeOK
<1>1. RegistryInv => TypeOK
  BY DEF RegistryInv
<1> QED
  BY <1>1, RegistryInvHolds, PTL

\* Only a call that closes a client has a target.
TargetsClosing == \A d \in Closer : d \notin closing => target[d] = 0

\* An instance that gets handlers is newer than every one that is being closed.
LEMMA NewIsNotClosed ==
  ASSUME RegistryInv, TargetsClosing, ClosedClientIsSilent,
         UNCHANGED <<closing, target>>, hears' \subseteq hears \cup {built + 1}
  PROVE  TargetsClosing' /\ ClosedClientIsSilent'
<1>1. \A d \in Closer : target[d] \in Nat /\ target[d] <= built /\ built \in Nat
  BY RegistryAssumption DEF RegistryInv, TypeOK, TargetsBuilt
<1>2. \A d \in Closer : target[d] # built + 1
  BY <1>1
<1>3. closing \subseteq Closer
  BY DEF RegistryInv, TypeOK
<1> QED
  BY <1>2, <1>3 DEF TargetsClosing, ClosedClientIsSilent

\* The instance that disconnectSession destroys has no handlers, whatever
\* initializeClient builds, retries or maps meanwhile: the events of its
\* destroy() reach no handler.
THEOREM ClosedIsSilent == Spec => []ClosedClientIsSilent
<1> DEFINE SilentInv == TargetsClosing /\ ClosedClientIsSilent
<1>1. Init => SilentInv
  BY DEF Init, TargetsClosing, ClosedClientIsSilent
<1>2. ASSUME RegistryInv, SilentInv, [Next]_vars
      PROVE  SilentInv'
  <2>1. ASSUME NEW c \in Caller, CallWaits(c) \/ CallRuns(c) \/ InitStep(c)
        PROVE  SilentInv'
    <3>1. UNCHANGED <<closing, target>>
      BY <2>1 DEF CallWaits, CallRuns, InitStep, Acquire, AddClient, Launched,
                  LaunchFails, Clean, Retry, InitFails, Finish, closeVars
    <3>2. hears' \subseteq hears \cup {built + 1}
      BY <2>1 DEF CallWaits, CallRuns, InitStep, Acquire, AddClient, Launched,
                  LaunchFails, Clean, Retry, InitFails, Finish, BuildClient
    <3> QED
      BY <1>2, <3>1, <3>2, NewIsNotClosed
  <2>2. ASSUME NEW d \in Closer, BeginClose(d)
        PROVE  SilentInv'
    <3>1. CASE mapped # 0
      BY <1>2, <2>2, <3>1
         DEF BeginClose, TargetsClosing, ClosedClientIsSilent, RegistryInv,
             TypeOK
    <3>2. CASE mapped = 0
      <4>1. closing' \subseteq closing \cup {d} /\ closing \subseteq closing'
            /\ target' = target /\ hears' = hears
        BY <2>2, <3>2 DEF BeginClose
      <4>2. target[d] \notin hears
        BY <1>2, <2>2 DEF BeginClose, TargetsClosing, RegistryInv, TypeOK
      <4> QED
        BY <1>2, <4>1, <4>2 DEF TargetsClosing, ClosedClientIsSilent
    <3> QED
      BY <3>1, <3>2
  <2>3. ASSUME NEW d \in Closer, EndClose(d)
        PROVE  SilentInv'
    BY <1>2, <2>3
       DEF EndClose, TargetsClosing, ClosedClientIsSilent, RegistryInv, TypeOK
  <2>4. CASE BeginDisconnected \/ EndDisconnected
    <3>1. UNCHANGED <<closing, target>> /\ hears' \subseteq hears
      BY <2>4 DEF BeginDisconnected, EndDisconnected
    <3> QED
      BY <1>2, <3>1 DEF TargetsClosing, ClosedClientIsSilent
  <2>5. CASE UNCHANGED vars
    BY <1>2, <2>5 DEF vars, TargetsClosing, ClosedClientIsSilent
  <2> QED
    BY <1>2, <2>1, <2>2, <2>3, <2>4, <2>5 DEF Next
<1>3. SilentInv => ClosedClientIsSilent
  OBVIOUS
<1> HIDE DEF SilentInv
<1> QED
  BY <1>1, <1>2, <1>3, RegistryInvHolds, PTL DEF Spec
-----------------------------------------------------------------------------
\* What initLocks is for.

\* Whoever waits, waits for a call that runs: the safety half of
\* WaitersResume.
NobodyWaitsAlone ==
  \A c \in Caller :
    pc[c] = "waiting" => initLock \in Caller /\ Running(initLock)

\* The caller whose initialization runs.
Initializer ==
  IF initLock \in Caller /\ Running(initLock) THEN initLock ELSE NoCaller

Turns == INSTANCE ExclusiveOwner WITH
           Pod <- Caller, NoOwner <- NoCaller, holder <- Initializer

\* What one step does to a call and to the lock: it is left alone, it is the
\* running one and goes on, it begins, or it ends and wakes all that wait.
LEMMA TurnStep ==
  ASSUME RegistryInv, NobodyWaitsAlone, [Next]_vars
  PROVE  NobodyWaitsAlone' /\ [Turns!Next]_Initializer
<1> USE RegistryAssumption DEF RegistryInv, TypeOK, LockHeld
<1>1. ASSUME UNCHANGED <<pc, initLock>>
      PROVE  NobodyWaitsAlone' /\ Initializer' = Initializer
  BY <1>1 DEF NobodyWaitsAlone, Initializer, Running
<1>2. ASSUME NEW c \in Caller, Running(c), UNCHANGED initLock,
             NEW s \in RunPC, pc' = [pc EXCEPT ![c] = s]
      PROVE  NobodyWaitsAlone' /\ Initializer' = Initializer
  <2>1. initLock = c
    BY <1>2
  <2> QED
    BY <1>2, <2>1 DEF NobodyWaitsAlone, Initializer, Running, RunPC
<1>3. ASSUME NEW c \in Caller, CallWaits(c)
      PROVE  NobodyWaitsAlone' /\ Initializer' = Initializer
  <2>1. pc[c] = "idle" /\ pc' = [pc EXCEPT ![c] = "waiting"] /\ initLock' = initLock
    BY <1>3 DEF CallWaits, Goto
  <2>2. initLock \in Caller /\ Running(initLock) /\ initLock # c
    BY <1>3, <2>1 DEF CallWaits, Running, RunPC
  <2> QED
    BY <2>1, <2>2 DEF NobodyWaitsAlone, Initializer, Running
<1>4. ASSUME NEW c \in Caller, CallRuns(c)
      PROVE  NobodyWaitsAlone' /\ [Turns!Next]_Initializer
  <2>1. pc[c] = "idle" /\ initLock = NoCaller /\ initLock' = c
    BY <1>4 DEF CallRuns
  <2>2. Initializer = NoCaller /\ \A d \in Caller : pc[d] # "waiting"
    BY <2>1 DEF Initializer, NobodyWaitsAlone
  <2>3. CASE pc' = pc
    <3>1. ~Running(c)'
      BY <2>1, <2>3 DEF Running, RunPC
    <3> QED
      BY <2>1, <2>2, <2>3, <3>1 DEF Initializer, NobodyWaitsAlone
  <2>4. CASE pc' = [pc EXCEPT ![c] = "acquiring"]
    <3>1. Running(c)' /\ \A d \in Caller : pc'[d] # "waiting"
      BY <2>2, <2>4 DEF Running, RunPC
    <3>2. Initializer' = c
      BY <2>1, <3>1 DEF Initializer
    <3> QED
      BY <2>2, <3>1, <3>2 DEF NobodyWaitsAlone, Turns!Next, Turns!Take
  <2> QED
    BY <1>4, <2>3, <2>4 DEF CallRuns, Goto
<1>5. ASSUME NEW c \in Caller, InitStep(c), ~Finish(c)
      PROVE  NobodyWaitsAlone' /\ Initializer' = Initializer
  <2>1. \E s \in RunPC : pc' = [pc EXCEPT ![c] = s]
    BY <1>5 DEF InitStep, Acquire, AddClient, Launched, LaunchFails, Clean, Retry,
                InitFails, Goto, RunPC
  <2>2. Running(c) /\ UNCHANGED initLock
    BY <1>5 DEF InitStep, Acquire, AddClient, Launched, LaunchFails, Clean, Retry,
                InitFails, Running, RunPC
  <2> QED
    BY <1>2, <2>1, <2>2
<1>6. ASSUME NEW c \in Caller, Finish(c)
      PROVE  NobodyWaitsAlone' /\ [Turns!Next]_Initializer
  <2>1. Running(c) /\ initLock' = NoCaller
    BY <1>6 DEF Finish, Running, RunPC
  <2>2. Initializer = c /\ Initializer' = NoCaller
    BY <2>1 DEF Initializer
  <2>3. NobodyWaitsAlone'
    BY <1>6 DEF Finish, NobodyWaitsAlone
  <2> QED
    BY <2>2, <2>3 DEF Turns!Next, Turns!Yield
<1>7. CASE \/ \E d \in Closer : BeginClose(d) \/ EndClose(d)
           \/ BeginDisconnected \/ EndDisconnected
  BY <1>1, <1>7 DEF BeginClose, EndClose, BeginDisconnected, EndDisconnected,
                    initVars
<1>8. CASE UNCHANGED vars
  BY <1>1, <1>8 DEF vars
<1> QED
  BY <1>3, <1>4, <1>5, <1>6, <1>7, <1>8 DEF Next

LEMMA TurnsStart == Init => NobodyWaitsAlone /\ Turns!Init
BY RegistryAssumption DEF Init, NobodyWaitsAlone, Turns!Init, Initializer

\* However calls, closers and events overlap, a caller that awaits another's
\* promise awaits one that an initialization under way will settle: the entry
\* that a skipped call leaves in initLocks strands nobody.
THEOREM NobodyIsStranded == Spec => []NobodyWaitsAlone
<1>1. RegistryInv /\ NobodyWaitsAlone /\ [Next]_vars => NobodyWaitsAlone'
  BY TurnStep
<1> QED
  BY <1>1, TurnsStart, RegistryInvHolds, PTL DEF Spec

\* The callers of one pod take turns as the pods do with the lease: an
\* initialization begins only when none runs, and hands over through a moment
\* at which none does.
THEOREM CallersTakeTurns == Spec => Turns!Spec
<1>1. RegistryInv /\ NobodyWaitsAlone /\ [Next]_vars => [Turns!Next]_Initializer
  BY TurnStep
<1> QED
  BY <1>1, TurnsStart, RegistryInvHolds, NobodyIsStranded, PTL
     DEF Spec, Turns!Spec
-----------------------------------------------------------------------------
(***************************************************************************)
(* ConnectionStatus: what the handlers of the same pod write of the        *)
(* session, over the variables of ConnectionRecord.                        *)
(***************************************************************************)
CONSTANT MaxInFlight

Conn == INSTANCE ConnectionStatus

\* A status that no connection is behind.
Settled == {"disconnected", "failed"}

\* No call of disconnectSession is in flight.
NoneCloses ==
  /\ closer["api"] = "none" /\ closer["idle"] = "none"
  /\ closer["mismatch"] = "none"

Calls == [Closer -> {"none", "seen", "closing", "user", "removing"}]

\* An instance in the map has its handlers; only the API writes documents
\* when it closes, and only the idle cleanup looks at the status first.
ClosersFit ==
  /\ client => heard
  /\ closer["api"] # "seen"
  /\ closer["idle"] \in {"none", "seen", "closing"}
  /\ closer["mismatch"] \in {"none", "closing"}

\* Functions that did not race run one at a time, except that the logout of a
\* phone mismatch may bring a disconnected event.
OneRuns ==
  /\ recreate # "none" => qrCode = "none"
  /\ recreate # "none" \/ qrCode # "none"
       => ready = "none" /\ disc = "none" /\ NoneCloses
  /\ ready # "none" => NoneCloses
  /\ ready \notin {"none", "mismatchClose"} => disc = "none"
  /\ disc # "none" => closer["api"] = "none" /\ closer["idle"] = "none"
  /\ closer["api"] = "none" \/ closer["idle"] = "none"
  /\ closer["mismatch"] # "none"
       => closer["api"] = "none" /\ closer["idle"] = "none"

\* What the function that runs has written, or has read, still stands, unless
\* a launch failed meanwhile.
StatusFits ==
  /\ ready = "user" => status \in {"ready", "failed"}
  /\ qrCode = "user" => status \in {"qr_required", "failed"}
  /\ ready \in {"mismatchUser", "mismatchLogout", "mismatchClose"}
       => status \in Settled
  /\ disc \in {"user", "dropping"} => status \in Settled
  /\ closer["api"] \in {"user", "removing"} => status \in Settled
  /\ closer["idle"] # "none" => status \notin Connected
  /\ closer["mismatch"] # "none" => status \in Settled

\* The user's document agrees, or the function that will write it runs.
UserFollows ==
  /\ status = "ready" => user = "connected" \/ ready = "user"
  /\ status = "qr_required" => user = "disconnected" \/ qrCode = "user"

\* A session that is about to be READY, or is, has handlers, until the API
\* has silenced the client it is closing.
Heard ==
  /\ ready \in {"writing", "user"} => heard
  /\ status \in Connected => heard \/ closer["api"] = "closing"

\* The inductive invariant.
ConnectionInv ==
  /\ ConnectionTypeOK /\ QrMatchesStatus /\ ClosersFit
  /\ ~raced => OneRuns /\ StatusFits /\ UserFollows /\ Heard

\* Quiet, place by place.
LEMMA QuietMeans ==
  Quiet => /\ recreate = "none" /\ qrCode = "none" /\ ready = "none"
                /\ disc = "none" /\ NoneCloses
<1> SUFFICES ASSUME Quiet
             PROVE  /\ recreate = "none" /\ qrCode = "none" /\ ready = "none"
                    /\ disc = "none" /\ NoneCloses
  OBVIOUS
<1> DEFINE F == {<<"recreate", recreate>>, <<"qr", qrCode>>,
                 <<"ready", ready>>, <<"disc", disc>>}
<1>1. \A x \in F : x[2] = "none"
  BY DEF Quiet, InFlight
<1>2. NoneCloses
  BY DEF Quiet, InFlight, NoneCloses, Closer
<1> QED
  BY <1>1, <1>2

\* It holds at first.
LEMMA ConnectionBegins == Conn!Init => ConnectionInv
BY DEF Conn!Init, ConnectionInv, Calls, ConnectionTypeOK, Status, Closer,
       QrMatchesStatus, ClosersFit, OneRuns, NoneCloses, StatusFits,
       UserFollows, Heard, Connected, Settled, Conn!Status, Conn!Closer,
       Conn!Connected

\* The types again, the flags apart from the rest.
Flags ==
  /\ client \in BOOLEAN /\ heard \in BOOLEAN
  /\ launching \in BOOLEAN /\ probe \in BOOLEAN /\ readySessions \in BOOLEAN
  /\ preserving \in BOOLEAN

Places ==
  /\ status \in Status /\ qr \in {"none", "code", "expired"}
  /\ user \in {"disconnected", "connected", "failed"}
  /\ link \in {"none", "offline", "missed", "connected"}
  /\ recreate \in {"none", "writing"}
  /\ qrCode \in {"none", "rendering", "user"}
  /\ ready \in {"none", "writing", "user", "mismatch", "mismatchUser",
                "mismatchLogout", "mismatchClose"}
  /\ disc \in {"none", "failed", "writing", "user", "dropping"}
  /\ closer \in Calls

\* A step sets flags to TRUE or FALSE, or to another flag's value.
LEMMA FlagsStep == Flags /\ [Conn!Next]_(Conn!vars) => Flags'
<1> SUFFICES ASSUME Flags, [Conn!Next]_(Conn!vars) PROVE Flags'
  OBVIOUS
<1> USE DEF Flags, Conn!clientVars, Conn!closeVars, Conn!EnterReady,
            Conn!EnterDisconnected
<1>1. CASE UNCHANGED Conn!vars
  BY <1>1 DEF Conn!vars
<1>2. CASE \/ Conn!RecreateReads \/ Conn!RecreateWrites
           \/ Conn!Authenticated \/ Conn!AuthFailure
           \/ Conn!ReadyWrites \/ Conn!ReadyUser
           \/ Conn!MismatchWrites \/ Conn!MismatchUser
           \/ Conn!QrReads \/ Conn!QrWrites \/ Conn!QrUser \/ Conn!ExpireQr
           \/ Conn!DisconnectedWrites \/ Conn!DisconnectedUser
           \/ Conn!IdleReads \/ Conn!IdleSkips
           \/ \E d \in Closer : Conn!CloseUser(d) \/ Conn!RemoveWrites(d)
  <2>1. UNCHANGED <<Conn!clientVars, preserving>>
    BY <1>2, Zenon
       DEF Conn!RecreateReads, Conn!Authenticated, Conn!QrReads,
           Conn!AuthFailure, Conn!RecreateWrites, Conn!ReadyWrites,
           Conn!ReadyUser, Conn!MismatchWrites, Conn!MismatchUser,
           Conn!QrWrites, Conn!QrUser, Conn!ExpireQr, Conn!DisconnectedWrites,
           Conn!DisconnectedUser, Conn!IdleReads, Conn!IdleSkips,
           Conn!CloseUser, Conn!RemoveWrites
  <2> QED
    BY <2>1
<1>3. CASE Conn!Connects \/ Conn!Probe
  BY <1>3, Zenon DEF Conn!Connects, Conn!Probe
<1>4. CASE Conn!Launch \/ Conn!Launched \/ Conn!LaunchFails
  BY <1>4, Zenon DEF Conn!Launch, Conn!Launched, Conn!LaunchFails
<1>5. CASE Conn!Disconnected \/ Conn!AuthFailureContinues
  BY <1>5, Zenon DEF Conn!Disconnected, Conn!AuthFailureContinues
<1>6. CASE Conn!MismatchLogout \/ Conn!DisconnectedDrops
  BY <1>6, Zenon DEF Conn!MismatchLogout, Conn!DisconnectedDrops
<1>7. ASSUME NEW d \in Closer, Conn!BeginClose(d) \/ Conn!EndClose(d)
      PROVE  Flags'
  BY <1>7, Zenon DEF Conn!BeginClose, Conn!EndClose
<1> QED
  BY <1>1, <1>2, <1>3, <1>4, <1>5, <1>6, <1>7
     DEF Conn!Next, Conn!Starts, Conn!GoesOn, Closer, Preserve, Conn!Closer,
         Conn!Preserve

\* A step moves a function to one of its places.
LEMMA PlacesStep == Places /\ [Conn!Next]_(Conn!vars) => Places'
<1> SUFFICES ASSUME Places, [Conn!Next]_(Conn!vars) PROVE Places'
  OBVIOUS
<1> USE DEF Places, Calls, Conn!docVars, Conn!clientVars, Conn!handlerVars,
            Conn!closeVars, Conn!EnterReady, Conn!EnterDisconnected, Status,
            Conn!Status
<1>1. CASE UNCHANGED Conn!vars
  BY <1>1 DEF Conn!vars
<1>2. CASE Conn!RecreateReads \/ Conn!RecreateWrites
  BY <1>2 DEF Conn!RecreateReads, Conn!RecreateWrites
<1>3. CASE Conn!Authenticated \/ Conn!AuthFailure \/ Conn!AuthFailureContinues
  BY <1>3 DEF Conn!Authenticated, Conn!AuthFailure, Conn!AuthFailureContinues
<1>4. CASE Conn!Connects \/ Conn!Probe \/ Conn!ReadyWrites \/ Conn!ReadyUser
  BY <1>4 DEF Conn!Connects, Conn!Probe, Conn!ReadyWrites, Conn!ReadyUser
<1>5. CASE Conn!MismatchWrites \/ Conn!MismatchUser \/ Conn!MismatchLogout
  BY <1>5 DEF Conn!MismatchWrites, Conn!MismatchUser, Conn!MismatchLogout
<1>6. CASE Conn!QrReads \/ Conn!QrWrites \/ Conn!QrUser \/ Conn!ExpireQr
  BY <1>6 DEF Conn!QrReads, Conn!QrWrites, Conn!QrUser, Conn!ExpireQr
<1>7. CASE Conn!Launch \/ Conn!Launched \/ Conn!LaunchFails
  BY <1>7 DEF Conn!Launch, Conn!Launched, Conn!LaunchFails
<1>8. CASE \/ Conn!Disconnected \/ Conn!DisconnectedWrites
           \/ Conn!DisconnectedUser \/ Conn!DisconnectedDrops
  BY <1>8 DEF Conn!Disconnected, Conn!DisconnectedWrites,
              Conn!DisconnectedUser, Conn!DisconnectedDrops
<1>9. CASE Conn!IdleReads \/ Conn!IdleSkips
  BY <1>9 DEF Conn!IdleReads, Conn!IdleSkips, Closer, Conn!Closer
<1>10. ASSUME NEW d \in Closer, Conn!BeginClose(d) PROVE Places'
  <2>1. ready' \in {ready, "none"}
    BY <1>10, Zenon DEF Conn!BeginClose, Conn!Closes, Closer, Conn!Closer
  <2>2. \E x \in {"none", "closing"} : closer' = [closer EXCEPT ![d] = x]
    BY <1>10 DEF Conn!BeginClose
  <2>3. UNCHANGED <<status, qr, user, link, recreate, qrCode, disc>>
    BY <1>10, Zenon DEF Conn!BeginClose
  <2> QED
    BY <2>1, <2>2, <2>3
<1>11. ASSUME NEW d \in Closer,
              Conn!EndClose(d) \/ Conn!CloseUser(d) \/ Conn!RemoveWrites(d)
       PROVE  Places'
  BY <1>11 DEF Conn!EndClose, Conn!CloseUser, Conn!RemoveWrites, Closer,
               Conn!Closer
<1> QED
  BY <1>1, <1>2, <1>3, <1>4, <1>5, <1>6, <1>7, <1>8, <1>9, <1>10, <1>11
     DEF Conn!Next, Conn!Starts, Conn!GoesOn, Closer, Preserve, Conn!Closer,
         Conn!Preserve

\* Together.
LEMMA ConnectionTypeStep ==
  ConnectionTypeOK /\ [Conn!Next]_(Conn!vars) => ConnectionTypeOK'
<1> SUFFICES ASSUME ConnectionTypeOK, [Conn!Next]_(Conn!vars) PROVE ConnectionTypeOK'
  OBVIOUS
<1>1. raced' \in BOOLEAN
  BY DEF Conn!Next, Conn!vars, ConnectionTypeOK
<1>2. ConnectionTypeOK <=> Flags /\ Places /\ raced \in BOOLEAN
  BY Zenon DEF ConnectionTypeOK, Flags, Places, Calls
<1>3. (ConnectionTypeOK <=> Flags /\ Places /\ raced \in BOOLEAN)'
  BY Zenon DEF ConnectionTypeOK, Flags, Places, Calls
<1> QED
  BY <1>1, <1>2, <1>3, FlagsStep, PlacesStep

\* A step that begins a function keeps it: either none was in flight, or it
\* raced.
LEMMA StartsKeep ==
  ASSUME ConnectionInv, ConnectionTypeOK',
         Conn!Starts, raced' = (raced \/ ~Quiet)
  PROVE  ConnectionInv'
<1> USE DEF ConnectionInv, Calls, ConnectionTypeOK, Status, Closer, Preserve,
            Connected, Settled, QrMatchesStatus, ClosersFit, Conn!docVars,
            Conn!clientVars, Conn!handlerVars, Conn!closeVars, Conn!Status,
            Conn!Closer, Conn!Preserve, Conn!Connected
<1>1. ~raced' => /\ ~raced /\ recreate = "none" /\ qrCode = "none"
                 /\ ready = "none" /\ disc = "none" /\ NoneCloses
  BY QuietMeans
<1> USE DEF OneRuns, StatusFits, UserFollows, Heard, NoneCloses
<1>a. CASE Conn!RecreateReads
  BY <1>1, <1>a DEF Conn!RecreateReads
<1>b. CASE Conn!Authenticated
  BY <1>1, <1>b DEF Conn!Authenticated
<1>c. CASE Conn!Connects
  BY <1>1, <1>c DEF Conn!Connects, Conn!EnterReady
<1>d. CASE Conn!Probe
  BY <1>1, <1>d DEF Conn!Probe, Conn!EnterReady
<1>e. CASE Conn!QrReads
  BY <1>1, <1>e DEF Conn!QrReads
<1>f. CASE Conn!Disconnected
  BY <1>1, <1>f DEF Conn!Disconnected, Conn!EnterDisconnected
<1>g. CASE Conn!AuthFailure
  BY <1>1, <1>g DEF Conn!AuthFailure
<1>h. CASE Conn!IdleReads
  BY <1>1, <1>h DEF Conn!IdleReads
<1>i. CASE Conn!BeginClose("api")
  <2>1. closer["api"] = "none" /\ UNCHANGED ready
    BY <1>i DEF Conn!BeginClose, Conn!Closes
  <2>2. \E x \in {"none", "closing"} :
          /\ closer' = [closer EXCEPT !["api"] = x]
          /\ x = "closing"
    BY <1>i DEF Conn!BeginClose
  <2>3. /\ closer' \in Calls
        /\ closer'["api"] = "closing" /\ closer'["idle"] = closer["idle"]
        /\ closer'["mismatch"] = closer["mismatch"]
    BY <2>2
  <2> QED
    BY <1>1, <1>i, <2>1, <2>3 DEF Conn!BeginClose
<1> QED
  BY <1>a, <1>b, <1>c, <1>d, <1>e, <1>f, <1>g, <1>h, <1>i DEF Conn!Starts

\* So does one that goes on with it.
LEMMA GoingOnKeeps ==
  ASSUME ConnectionInv, Conn!GoesOn, UNCHANGED raced, ConnectionTypeOK'
  PROVE  ConnectionInv'
<1> USE DEF ConnectionInv, Calls, ConnectionTypeOK, Status, Closer, Preserve,
            Connected, Settled, QrMatchesStatus, ClosersFit, Conn!docVars,
            Conn!clientVars, Conn!handlerVars, Conn!closeVars, OneRuns,
            StatusFits, UserFollows, Heard, NoneCloses, Conn!Status,
            Conn!Closer, Conn!Preserve, Conn!Connected
<1>a. CASE Conn!Launch \/ Conn!Launched \/ Conn!LaunchFails
  <2>1. CASE Conn!Launch
    <3>1. client' /\ heard'
      BY <2>1 DEF Conn!Launch
    <3> QED
      BY <2>1, <3>1 DEF Conn!Launch
  <2>2. CASE Conn!Launched
    <3>1. UNCHANGED <<Conn!docVars, client, heard, Conn!handlerVars,
                      Conn!closeVars>>
      BY <2>2 DEF Conn!Launched
    <3> QED
      BY <3>1
  <2>3. CASE Conn!LaunchFails
    <3>1. /\ UNCHANGED <<qr, user, heard, Conn!handlerVars, Conn!closeVars>>
          /\ ~client' /\ status' = "failed"
      BY <2>3 DEF Conn!LaunchFails
    <3> QED
      BY <3>1
  <2> QED
    BY <1>a, <2>1, <2>2, <2>3
<1>b. CASE Conn!RecreateWrites
  BY <1>b DEF Conn!RecreateWrites
<1>c. CASE Conn!ReadyWrites \/ Conn!ReadyUser
  BY <1>c DEF Conn!ReadyWrites, Conn!ReadyUser
<1>d. CASE Conn!MismatchWrites \/ Conn!MismatchUser
  BY <1>d DEF Conn!MismatchWrites, Conn!MismatchUser
<1>e. CASE Conn!MismatchLogout
  BY <1>e DEF Conn!MismatchLogout, Conn!EnterDisconnected
<1>f. CASE Conn!QrWrites \/ Conn!QrUser \/ Conn!ExpireQr
  BY <1>f DEF Conn!QrWrites, Conn!QrUser, Conn!ExpireQr
<1>g. CASE Conn!AuthFailureContinues
  BY <1>g DEF Conn!AuthFailureContinues, Conn!EnterDisconnected
<1>h. CASE Conn!DisconnectedWrites \/ Conn!DisconnectedUser
  BY <1>h DEF Conn!DisconnectedWrites, Conn!DisconnectedUser
<1>i. CASE Conn!DisconnectedDrops
  BY <1>i DEF Conn!DisconnectedDrops
<1>j. CASE Conn!IdleSkips
  BY <1>j DEF Conn!IdleSkips
<1>k. ASSUME NEW d \in Preserve, Conn!BeginClose(d) PROVE ConnectionInv'
  <2>1. CASE d = "idle"
    <3>1. PICK x \in {"none", "closing"} : closer' = [closer EXCEPT ![d] = x]
      BY <1>k DEF Conn!BeginClose
    <3>2. /\ closer' \in Calls
          /\ closer'["idle"] = x /\ closer'["api"] = closer["api"]
          /\ closer'["mismatch"] = closer["mismatch"]
      BY <2>1, <3>1
    <3>3. closer["idle"] = "seen" /\ UNCHANGED ready
      BY <1>k, <2>1 DEF Conn!BeginClose, Conn!Closes
    <3> QED
      BY <1>k, <2>1, <3>2, <3>3 DEF Conn!BeginClose
  <2>2. CASE d = "mismatch"
    <3>1. PICK x \in {"none", "closing"} : closer' = [closer EXCEPT ![d] = x]
      BY <1>k DEF Conn!BeginClose
    <3>2. /\ closer' \in Calls
          /\ closer'["mismatch"] = x /\ closer'["api"] = closer["api"]
          /\ closer'["idle"] = closer["idle"]
      BY <2>2, <3>1
    <3>3. /\ closer["mismatch"] = "none" /\ ready = "mismatchClose"
          /\ ready' = "none"
      BY <1>k, <2>2 DEF Conn!BeginClose, Conn!Closes
    <3> QED
      BY <1>k, <2>2, <3>2, <3>3 DEF Conn!BeginClose
  <2> QED
    BY <2>1, <2>2
<1>l. ASSUME NEW d \in Closer, Conn!EndClose(d) PROVE ConnectionInv'
  <2>1. CASE d \in Preserve
    <3>1. /\ UNCHANGED Conn!docVars /\ closer' = [closer EXCEPT ![d] = "none"]
          /\ closer[d] = "closing"
      BY <1>l, <2>1 DEF Conn!EndClose
    <3>2. /\ closer' \in Calls
          /\ closer'["api"] = closer["api"]
          /\ closer'["idle"] \in {closer["idle"], "none"}
          /\ closer'["mismatch"] \in {closer["mismatch"], "none"}
      BY <2>1, <3>1
    <3> QED
      BY <1>l, <2>1, <3>1, <3>2 DEF Conn!EndClose
  <2>2. CASE d = "api"
    <3>1. /\ closer' = [closer EXCEPT ![d] = "user"]
          /\ closer[d] = "closing"
      BY <1>l, <2>2 DEF Conn!EndClose
    <3>2. /\ closer' \in Calls
          /\ closer'["api"] = "user" /\ closer["api"] = "closing"
          /\ closer'["idle"] = closer["idle"]
          /\ closer'["mismatch"] = closer["mismatch"]
      BY <2>2, <3>1
    <3> QED
      BY <1>l, <2>2, <3>2 DEF Conn!EndClose
  <2> QED
    BY <2>1, <2>2
<1>m. ASSUME NEW d \in Closer, Conn!CloseUser(d) \/ Conn!RemoveWrites(d)
      PROVE  ConnectionInv'
  BY <1>m DEF Conn!CloseUser, Conn!RemoveWrites
<1> QED
  BY <1>a, <1>b, <1>c, <1>d, <1>e, <1>f, <1>g, <1>h, <1>i, <1>j, <1>k, <1>l,
     <1>m DEF Conn!GoesOn

\* Every step keeps it, with the types first.
LEMMA ConnectionInvHolds == Conn!Spec => []ConnectionInv
<1>1. ConnectionInv /\ [Conn!Next]_(Conn!vars) => ConnectionInv'
  <2> SUFFICES ASSUME ConnectionInv, [Conn!Next]_(Conn!vars) PROVE ConnectionInv'
    OBVIOUS
  <2>1. CASE UNCHANGED Conn!vars
    BY <2>1 DEF Conn!vars, ConnectionInv, ConnectionTypeOK, QrMatchesStatus,
                ClosersFit, OneRuns, StatusFits, UserFollows, Heard, NoneCloses
  <2> QED
    BY <2>1, StartsKeep, GoingOnKeeps, ConnectionTypeStep
       DEF Conn!Next, ConnectionInv, Quiet, InFlight, Closer, Conn!Quiet,
           Conn!InFlight, Conn!Closer
<1> QED
  BY <1>1, ConnectionBegins, PTL DEF Conn!Spec

\* Documents, flags and the places of the handlers keep their types.
THEOREM ConnectionTypes == Conn!Spec => []ConnectionTypeOK
BY ConnectionInvHolds, PTL DEF ConnectionInv

\* However many handlers overlap at their awaits, a session that requires a QR
\* code has one or has had one until it expired, and a READY one has none.
THEOREM QrCodeFits == Conn!Spec => []QrMatchesStatus
BY ConnectionInvHolds, PTL DEF ConnectionInv

\* When no function is in flight and none ever overlapped another, the user of
\* a READY session counts as connected, that of a session that requires a QR
\* code does not - whatever events, requests and failed launches there were.
THEOREM UserFollowsSession == Conn!Spec => []UserInSync
<1>1. ConnectionInv => UserInSync
  BY QuietMeans DEF ConnectionInv, UserFollows, UserInSync
<1> QED
  BY <1>1, ConnectionInvHolds, PTL

\* Then, too, a READY or AUTHENTICATED session has an instance with handlers.
THEOREM ConnectedAreHeard == Conn!Spec => []ConnectedIsHeard
<1>1. ConnectionInv => ConnectedIsHeard
  BY QuietMeans DEF ConnectionInv, Heard, NoneCloses, Closer,
                    ConnectedIsHeard
<1> QED
  BY <1>1, ConnectionInvHolds, PTL
=============================================================================
