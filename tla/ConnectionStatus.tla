-------------------------- MODULE ConnectionStatus --------------------------
(***************************************************************************)
(* What the database says of one session's connection - the session's      *)
(* status and QR code, the owning user's whatsappConnectionStatus - and    *)
(* the functions of one pod that write it: the handlers of the client's    *)
(* events, createSession / recreateSession, disconnectSession and its      *)
(* callers.  Each is cut at the awaits between a read and a write, or two  *)
(* writes.  The client is the newest instance; how instances come and go   *)
(* is in ClientRegistry, of which only the parts these functions look at   *)
(* are here.                                                               *)
(***************************************************************************)
EXTENDS ConnectionRecord, FiniteSets, Naturals

CONSTANT MaxInFlight  \* bound: functions that await something at a time

ASSUME InFlightAssumption == MaxInFlight \in Nat \ {0}

docVars     == <<status, qr, user>>
clientVars  == <<client, heard, link, launching, probe, readySessions>>
handlerVars == <<recreate, qrCode, ready, disc>>
closeVars   == <<closer, preserving>>
vars == <<status, qr, user, client, heard, link, launching, probe,
          readySessions, recreate, qrCode, ready, disc, closer, preserving,
          raced>>

\* A session that createSession has just created.
Init ==
  /\ status = "connecting" /\ qr = "none" /\ user = "disconnected"
  /\ client = FALSE /\ heard = FALSE /\ link = "none"
  /\ launching = FALSE /\ probe = FALSE /\ readySessions = FALSE
  /\ recreate = "none" /\ qrCode = "none" /\ ready = "none" /\ disc = "none"
  /\ closer = [d \in Closer |-> "none"] /\ preserving = FALSE
  /\ raced = FALSE

-----------------------------------------------------------------------------
\* initializeClient: a new instance goes into the map and is launched.
Launch ==
  /\ ~client /\ ~launching
  /\ client' = TRUE /\ heard' = TRUE /\ link' = "offline" /\ launching' = TRUE
  /\ UNCHANGED <<docVars, probe, readySessions, handlerVars, closeVars>>

\* The first attempt sets the timer of the probe, the second does not.
Launched ==
  /\ launching /\ launching' = FALSE
  /\ probe' \in {TRUE, probe}
  /\ UNCHANGED <<docVars, client, heard, link, readySessions, handlerVars,
                 closeVars>>

LaunchFails ==
  /\ launching /\ launching' = FALSE
  /\ client' = FALSE /\ status' = "failed"
  /\ UNCHANGED <<qr, user, heard, link, probe, readySessions, handlerVars,
                 closeVars>>

\* recreateSession reads the status and later sets it to CONNECTING; it does
\* nothing to the status when it has read a connected one.
RecreateReads ==
  /\ recreate = "none" /\ status \notin Connected
  /\ recreate' = "writing"
  /\ UNCHANGED <<docVars, clientVars, qrCode, ready, disc, closeVars>>

RecreateWrites ==
  /\ recreate = "writing" /\ recreate' = "none"
  /\ status' = "connecting"
  /\ UNCHANGED <<qr, user, clientVars, qrCode, ready, disc, closeVars>>

-----------------------------------------------------------------------------
\* The authenticated event.
Authenticated ==
  /\ heard /\ link = "offline"
  /\ status' = "authenticated"
  /\ UNCHANGED <<qr, user, clientVars, handlerVars, closeVars>>

\* The first, synchronous, lines of handleDisconnected.
EnterDisconnected ==
  IF preserving
    THEN preserving' = FALSE /\ client' = FALSE /\ disc' = "none"
    ELSE disc' = "writing" /\ UNCHANGED <<preserving, client>>

\* handleReady has compared the phone numbers.
EnterReady == ready = "none" /\ ready' \in {"writing", "mismatch"}

\* The instance connects, and emits ready unless that is missed.
Connects ==
  /\ link = "offline"
  /\ \/ /\ link' = "connected" /\ heard
        /\ readySessions' = TRUE
        /\ EnterReady
     \/ link' = "missed" /\ UNCHANGED <<readySessions, ready>>
  /\ UNCHANGED <<docVars, client, heard, launching, probe, recreate, qrCode,
                 disc, closeVars>>

\* The post-init probe, 15 seconds after the launch: the ready handler is
\* called for it when the session never had a ready event.
Probe ==
  /\ probe /\ probe' = FALSE
  /\ IF client /\ link \in {"connected", "missed"} /\ ~readySessions
       THEN EnterReady
       ELSE UNCHANGED ready
  /\ UNCHANGED <<docVars, client, heard, link, launching, readySessions,
                 recreate, qrCode, disc, closeVars>>

\* Mutant of ReadyWrites: the QR code is not unset.
ReadyWritesKeepsQr ==
  /\ ready = "writing" /\ ready' = "user"
  /\ status' = "ready"
  /\ UNCHANGED <<qr, user, clientVars, recreate, qrCode, disc, closeVars>>

ReadyWrites ==
  /\ ready = "writing" /\ ready' = "user"
  /\ status' = "ready" /\ qr' = "none"
  /\ UNCHANGED <<user, clientVars, recreate, qrCode, disc, closeVars>>

\* Mutant of ReadyUser: the session's status is written to the user.
ReadyUserWritesSessionStatus ==
  /\ ready = "user" /\ ready' = "none"
  /\ user' = "ready"
  /\ UNCHANGED <<status, qr, clientVars, recreate, qrCode, disc, closeVars>>

ReadyUser ==
  /\ ready = "user" /\ ready' = "none"
  /\ user' = "connected"
  /\ UNCHANGED <<status, qr, clientVars, recreate, qrCode, disc, closeVars>>

\* failSessionWithPhoneMismatch: the session, the user, a logout, and
\* disconnectSession with preserveStatus (BeginClose("mismatch")).
MismatchWrites ==
  /\ ready = "mismatch" /\ ready' = "mismatchUser"
  /\ status' = "failed" /\ qr' = "none"
  /\ UNCHANGED <<user, clientVars, recreate, qrCode, disc, closeVars>>

MismatchUser ==
  /\ ready = "mismatchUser" /\ ready' = "mismatchLogout"
  /\ user' = "failed"
  /\ UNCHANGED <<status, qr, clientVars, recreate, qrCode, disc, closeVars>>

\* client.logout() with the handlers still attached: the client may emit
\* disconnected.  It may also fail, or time out.
MismatchLogout ==
  /\ ready = "mismatchLogout" /\ ready' = "mismatchClose"
  /\ \/ /\ client /\ heard /\ link # "none" /\ disc = "none"
        /\ link' = "none"
        /\ EnterDisconnected
     \/ UNCHANGED <<link, preserving, client, disc>>
  /\ UNCHANGED <<docVars, heard, launching, probe, readySessions, recreate,
                 qrCode, closer>>

-----------------------------------------------------------------------------
\* handleQRCode: it reads the status and asks the client in the map for its
\* state, renders the code, and writes.
QrReads ==
  /\ qrCode = "none" /\ heard /\ link # "none"
  /\ ~(status \in Connected /\ client /\ link \in {"connected", "missed"})
  /\ qrCode' = "rendering"
  /\ UNCHANGED <<docVars, clientVars, recreate, ready, disc, closeVars>>

QrWrites ==
  /\ qrCode = "rendering" /\ qrCode' = "user"
  /\ status' = "qr_required" /\ qr' = "code"
  /\ UNCHANGED <<user, clientVars, recreate, ready, disc, closeVars>>

\* Mutant of QrUser: the user is left alone.
QrUserSkipped ==
  /\ qrCode = "user" /\ qrCode' = "none"
  /\ UNCHANGED <<docVars, clientVars, recreate, ready, disc, closeVars>>

QrUser ==
  /\ qrCode = "user" /\ qrCode' = "none"
  /\ user' = "disconnected"
  /\ UNCHANGED <<status, qr, clientVars, recreate, ready, disc, closeVars>>

\* RetentionCleanupService clears a code whose time is over; the status stays.
ExpireQr ==
  /\ qr = "code" /\ qr' = "expired"
  /\ UNCHANGED <<status, user, clientVars, handlerVars, closeVars>>

-----------------------------------------------------------------------------
\* handleDisconnected, after a disconnected event.
Disconnected ==
  /\ disc = "none" /\ heard /\ link # "none"
  /\ link' = "none"
  /\ EnterDisconnected
  /\ UNCHANGED <<docVars, heard, launching, probe, readySessions, recreate,
                 qrCode, ready, closer>>

\* The auth_failure event writes FAILED first.
AuthFailure ==
  /\ disc = "none" /\ heard /\ link = "offline"
  /\ status' = "failed" /\ disc' = "failed"
  /\ UNCHANGED <<qr, user, clientVars, recreate, qrCode, ready, closeVars>>

AuthFailureContinues ==
  /\ disc = "failed"
  /\ EnterDisconnected
  /\ UNCHANGED <<docVars, heard, link, launching, probe, readySessions,
                 recreate, qrCode, ready, closer>>

DisconnectedWrites ==
  /\ disc = "writing" /\ disc' = "user"
  /\ status' = "disconnected"
  /\ UNCHANGED <<qr, user, clientVars, recreate, qrCode, ready, closeVars>>

DisconnectedUser ==
  /\ disc = "user" /\ disc' = "dropping"
  /\ user' = "disconnected"
  /\ UNCHANGED <<status, qr, clientVars, recreate, qrCode, ready, closeVars>>

\* On a LOGOUT the client is silenced and destroyed as well.
DisconnectedDrops ==
  /\ disc = "dropping" /\ disc' = "none"
  /\ client' = FALSE
  /\ \/ client /\ heard' = FALSE /\ link' = "none"
     \/ UNCHANGED <<heard, link>>
  /\ UNCHANGED <<docVars, launching, probe, readySessions, recreate, qrCode,
                 ready, closeVars>>

-----------------------------------------------------------------------------
\* Mutant of IdleReads: the status is not looked at.
IdleReadsAnyStatus ==
  /\ closer["idle"] = "none" /\ client
  /\ closer' = [closer EXCEPT !["idle"] = "seen"]
  /\ UNCHANGED <<docVars, clientVars, handlerVars, preserving>>

\* cleanupIdleClients, and maybeCloseIdleSession of the QR gateway: the
\* session is read, and closed later unless it is being initialized.
IdleReads ==
  /\ closer["idle"] = "none" /\ client /\ status \notin Connected
  /\ closer' = [closer EXCEPT !["idle"] = "seen"]
  /\ UNCHANGED <<docVars, clientVars, handlerVars, preserving>>

IdleSkips ==
  /\ closer["idle"] = "seen" /\ launching
  /\ closer' = [closer EXCEPT !["idle"] = "none"]
  /\ UNCHANGED <<docVars, clientVars, handlerVars, preserving>>

\* When each caller calls disconnectSession.
Closes(d) ==
  CASE d = "api"      -> closer[d] = "none" /\ UNCHANGED ready
    [] d = "idle"     -> closer[d] = "seen" /\ ~launching /\ UNCHANGED ready
    [] d = "mismatch" -> /\ closer[d] = "none"
                         /\ ready = "mismatchClose" /\ ready' = "none"

\* disconnectSession up to destroy(); without a client a preserving call is
\* over at once.
BeginClose(d) ==
  /\ Closes(d)
  /\ \/ /\ client
        /\ client' = FALSE /\ heard' = FALSE
        /\ closer' = [closer EXCEPT ![d] = "closing"]
        /\ preserving' = (preserving \/ d \in Preserve)
     \/ /\ ~client
        /\ closer' = [closer EXCEPT ![d] = IF d \in Preserve THEN "none"
                                                             ELSE "closing"]
        /\ preserving' = (preserving /\ d \notin Preserve)
        /\ UNCHANGED <<client, heard>>
  /\ UNCHANGED <<docVars, link, launching, probe, readySessions, recreate,
                 qrCode, disc>>

\* The browser is gone, unless it was still being launched and destroy()
\* failed, or the link is already that of a later instance, which has its
\* handlers; without preserveStatus the status is written.
EndClose(d) ==
  /\ closer[d] = "closing"
  /\ \/ ~heard /\ link' = "none"
     \/ (heard \/ launching) /\ link' = link
  /\ IF d \in Preserve
       THEN /\ closer' = [closer EXCEPT ![d] = "none"]
            /\ preserving' = FALSE
            /\ UNCHANGED docVars
       ELSE /\ closer' = [closer EXCEPT ![d] = "user"]
            /\ status' = "disconnected" /\ qr' = "none"
            /\ UNCHANGED <<user, preserving>>
  /\ UNCHANGED <<client, heard, launching, probe, readySessions, handlerVars>>

\* ... and then the user's; removeSession goes on to write the status again.
CloseUser(d) ==
  /\ closer[d] = "user"
  /\ \E point \in {"none", "removing"} : closer' = [closer EXCEPT ![d] = point]
  /\ user' = "disconnected"
  /\ UNCHANGED <<status, qr, clientVars, handlerVars, preserving>>

RemoveWrites(d) ==
  /\ closer[d] = "removing"
  /\ closer' = [closer EXCEPT ![d] = "none"]
  /\ status' = "disconnected" /\ qr' = "none"
  /\ UNCHANGED <<user, clientVars, handlerVars, preserving>>

-----------------------------------------------------------------------------
\* An event, a request, a timer or a cron job begins a function.
Starts ==
  \/ RecreateReads
  \/ Authenticated \/ Connects \/ Probe \/ QrReads
  \/ Disconnected \/ AuthFailure
  \/ IdleReads \/ BeginClose("api")

\* A function goes on after an await; the retention cleanup is one write.
GoesOn ==
  \/ Launch \/ Launched \/ LaunchFails
  \/ RecreateWrites
  \/ ReadyWrites \/ ReadyUser \/ MismatchWrites \/ MismatchUser
  \/ MismatchLogout
  \/ QrWrites \/ QrUser \/ ExpireQr
  \/ AuthFailureContinues
  \/ DisconnectedWrites \/ DisconnectedUser \/ DisconnectedDrops
  \/ IdleSkips
  \/ \E d \in Preserve : BeginClose(d)
  \/ \E d \in Closer : EndClose(d) \/ CloseUser(d) \/ RemoveWrites(d)

Next ==
  \/ /\ Starts /\ Cardinality(InFlight) < MaxInFlight
     /\ raced' = (raced \/ ~Quiet)
  \/ GoesOn /\ UNCHANGED raced

Spec == Init /\ [][Next]_vars
=============================================================================
