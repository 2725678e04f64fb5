-------------------------- MODULE ConnectionRecord --------------------------
(***************************************************************************)
(* What one pod and the database know of one session's connection, and     *)
(* what should be true of it.  ConnectionStatus has the functions that     *)
(* change it.                                                              *)
(***************************************************************************)
EXTENDS DisconnectCallers

VARIABLES
  status,        \* WhatsAppSession.status
  qr,            \* WhatsAppSession.qrCode: a code, "none", or null because
                 \* the code has "expired" and was cleared
  user,          \* User.whatsappConnectionStatus
  client,        \* this.clients.has(sessionId)
  heard,         \* the instance has its event handlers
  link,          \* the instance's connection to WhatsApp; "missed": it is
                 \* connected but never emitted its ready event
  launching,     \* an initialization is in progress
  probe,         \* the timer of the post-init state probe is set
  readySessions, \* readySessions.has(sessionId)
  recreate,      \* where recreateSession is
  qrCode,        \* where handleQRCode is
  ready,         \* where handleReady, or failSessionWithPhoneMismatch, is
  disc,          \* where handleDisconnected is
  closer,        \* where each call of disconnectSession is; that of the
                 \* API goes on as removeSession
  preserving,    \* disconnectingWithPreserve.has(sessionId)
  raced          \* history: a function began while another was in flight

Status == {"disconnected", "connecting", "qr_required", "authenticated",
           "ready", "failed"}
Connected == {"authenticated", "ready"}

\* The functions that are between two of their awaits.
InFlight ==
  {d \in Closer : closer[d] # "none"}
    \cup {h[1] : h \in {x \in {<<"recreate", recreate>>, <<"qr", qrCode>>,
                               <<"ready", ready>>, <<"disc", disc>>} :
                        x[2] # "none"}}

Quiet == InFlight = {}

-----------------------------------------------------------------------------
\* Properties.

\* The documents, the flags and the places of the functions have their types.
ConnectionTypeOK ==
  /\ status \in Status /\ qr \in {"none", "code", "expired"}
  /\ user \in {"disconnected", "connected", "failed"}
  /\ client \in BOOLEAN /\ heard \in BOOLEAN
  /\ link \in {"none", "offline", "missed", "connected"}
  /\ launching \in BOOLEAN /\ probe \in BOOLEAN /\ readySessions \in BOOLEAN
  /\ recreate \in {"none", "writing"}
  /\ qrCode \in {"none", "rendering", "user"}
  /\ ready \in {"none", "writing", "user", "mismatch", "mismatchUser",
                "mismatchLogout", "mismatchClose"}
  /\ disc \in {"none", "failed", "writing", "user", "dropping"}
  /\ closer \in [Closer -> {"none", "seen", "closing", "user", "removing"}]
  /\ preserving \in BOOLEAN /\ raced \in BOOLEAN

\* A session that requires a QR code has one, or has had one until it
\* expired, and a READY session has none, which getQRCode and the gateway's
\* snapshot would show to a connected user.
QrMatchesStatus == /\ status = "qr_required" => qr # "none"
                   /\ status = "ready" => qr # "code"

\* "Keep user-level connection status in sync for UI/filters": as long as the
\* functions do not overlap, and whatever the initialization in progress
\* does, the user of a READY session counts as connected once they are done,
\* and that of a session that requires a QR code does not.
UserInSync ==
  Quiet /\ ~raced => /\ status = "ready" => user = "connected"
                     /\ status = "qr_required" => user = "disconnected"

\* Nor is a session then left READY or AUTHENTICATED without an instance
\* that would report the loss of the connection: it is the newest one, or
\* one that a failed launch left behind.
ConnectedIsHeard == Quiet /\ ~raced /\ status \in Connected => heard
=============================================================================
