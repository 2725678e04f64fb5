---------------------------- MODULE UserRemoval ----------------------------
(***************************************************************************)
(* The removal of a user, and what goes on meanwhile: remove disconnects   *)
(* the session of the user's number, pseudonymizes the stored messages,    *)
(* deactivates the sessions and erases the personal data, each in a write  *)
(* of its own, while updates and QR requests for the user, events of the   *)
(* clients and handlers of messages are under way.  A session is named by  *)
(* the number it was created for, a pseudonym by the call that chose it.   *)
(***************************************************************************)
EXTENDS Naturals

CONSTANTS Phone,    \* numbers the user has at one time or another
          NoPhone,
          Other,    \* colleagues with a session, JIDs of groups, and JIDs
                    \* ("@lid") that hide a number
          Call,     \* bound: requests that concern the user
          NoAlias,
          Msg       \* messages and calls that sessions of the user's tenant
                    \* see, with the JID they show and the number behind it

Party == Phone \cup Other

ASSUME RemovalAssumption ==
  /\ NoPhone \notin Call \cup Party /\ NoAlias \notin Call \cup Party
  /\ Call \cap Party = {} /\ Phone \cap Other = {}
  /\ Msg \subseteq [session : Party, call : BOOLEAN, inbound : BOOLEAN,
                    chat : Party, contact : Party]

VARIABLES
  user,     \* isActive, phoneNumber, pseudonym, whatsappConnectionStatus
  session,  \* by number: status, whether userId and phoneNumber (with
            \* whatsappId) are set, and connectedAt
  client,   \* numbers whose session has a client, on whichever pod
  ready,    \* where handleReady of each client is
  docs,     \* by message: where its handler is, and the document
  call,     \* where each request is, and the number it has read
  late,     \* history: messages written after a redaction had begun
  revived,  \* history: sessions written after a deactivation
  stray,    \* history: clients that a removal did not reach, or started later
  restored  \* history: the erased user was written to

removal == <<late, revived, stray, restored>>
vars == <<user, session, client, ready, docs, call, late, revived, stray,
          restored>>

Connection == {"disconnected", "connecting", "connected", "failed"}
Status == {"none", "connecting", "ready", "disconnected", "failed"}
Session == [status : Status, owned : BOOLEAN, phone : BOOLEAN, since : BOOLEAN]
NoSession == [status |-> "none", owned |-> FALSE, phone |-> FALSE,
              since |-> FALSE]
Removing == {"disconnect", "redactFrom", "redactTo", "deactivate", "erase"}
Stage == {"unused", "updating", "asking", "recreating", "starting", "telling",
          "writing", "over", "failed", "removed"} \cup Removing

\* The removals that have passed a point.
Past(P) == {c \in Call : call[c].at \in P}
PastDisconnect == (Removing \cup {"removed"}) \ {"disconnect"}
PastFrom == {"redactTo", "deactivate", "erase", "removed"}
PastTo == PastFrom \ {"redactTo"}
PastDeactivate == {"erase", "removed"}

\* disconnectSession has run for p; some call has deactivated the sessions.
WasDisconnected(p) == \E c \in Past(PastDisconnect) : call[c].phone = p
WasDeactivated == Past(PastDeactivate) # {}

Goes(c, at) == call' = [call EXCEPT ![c].at = at]

\* An owner or a number for session p, and a client for it, that come too late.
Revives(p, tooLate) == revived' = IF tooLate THEN revived \cup {p} ELSE revived
Strays(p) == stray' = IF WasDisconnected(p) THEN stray \cup {p} ELSE stray
Restores == restored' = (restored \/ ~user.active)

-----------------------------------------------------------------------------
\* Removing the user.

\* findOne wants an active user.  The pseudonym is stored in the last write
\* only, so a removal that is retried never finds one to use again.
AskRemove(c) ==
  /\ call[c].at = "unused" /\ user.active
  /\ call' = [call EXCEPT ![c] =
       [at |-> IF user.phone = NoPhone THEN "deactivate" ELSE "disconnect",
        phone |-> user.phone]]
  /\ UNCHANGED <<user, session, client, ready, docs, removal>>

\* The session and the user are marked; errors are ignored.
Disconnected(p) ==
  IF session[p].status = "none"
    THEN UNCHANGED <<session, user>>
    ELSE /\ session' = [session EXCEPT ![p].status = "disconnected"]
         /\ user' = IF session[p].owned
                      THEN [user EXCEPT !.conn = "disconnected"] ELSE user

\* disconnectSession reaches a client on this pod only.
Disconnect(c) ==
  LET p == call[c].phone IN
  /\ call[c].at = "disconnect"
  /\ Disconnected(p) \/ UNCHANGED <<session, user>>
  /\ \/ client' = client \ {p} /\ UNCHANGED stray
     \/ p \in client /\ stray' = stray \cup {p} /\ UNCHANGED client
  /\ Goes(c, "redactFrom")
  /\ UNCHANGED <<ready, docs, late, revived, restored>>

\* Mutant of Redacted: the pseudonym is taken from the user's document.
RedactedByUser(c) == user.alias

\* buildRedactedParticipantId
Redacted(c) == c

\* updateMany over the stored messages that are from the number.
RedactFrom(c) ==
  LET p == call[c].phone
      hit(d) == d.at = "stored" /\ p \in {d.from, d.fromNumber}
  IN
  /\ call[c].at = "redactFrom"
  /\ docs' = [m \in Msg |->
       IF hit(docs[m])
         THEN [docs[m] EXCEPT !.from = Redacted(c), !.fromNumber = Redacted(c),
                              !.contact = NoPhone, !.info = FALSE]
         ELSE docs[m]]
  /\ Goes(c, "redactTo")
  /\ UNCHANGED <<user, session, client, ready, removal>>

\* Mutant of RedactTo: the filter of RedactFrom once more.
RedactToByFrom(c) ==
  LET p == call[c].phone IN
  /\ call[c].at = "redactTo"
  /\ docs' = [m \in Msg |->
       IF docs[m].at = "stored" /\ p \in {docs[m].from, docs[m].fromNumber}
         THEN [docs[m] EXCEPT !.to = Redacted(c), !.toNumber = Redacted(c)]
         ELSE docs[m]]
  /\ Goes(c, "deactivate")
  /\ UNCHANGED <<user, session, client, ready, removal>>

\* The same for the messages to the number.
RedactTo(c) ==
  LET p == call[c].phone
      hit(d) == d.at = "stored" /\ p \in {d.to, d.toNumber}
  IN
  /\ call[c].at = "redactTo"
  /\ docs' = [m \in Msg |->
       IF hit(docs[m])
         THEN [docs[m] EXCEPT !.to = Redacted(c), !.toNumber = Redacted(c)]
         ELSE docs[m]]
  /\ Goes(c, "deactivate")
  /\ UNCHANGED <<user, session, client, ready, removal>>

\* deactivateSessionsForDeletedUser finds sessions by their userId; connectedAt
\* stays, and so does the stored login.
Deactivate(c) ==
  /\ call[c].at = "deactivate"
  /\ session' = [p \in Phone |->
       IF session[p].owned
         THEN [session[p] EXCEPT !.status = "disconnected", !.owned = FALSE,
                                 !.phone = FALSE]
         ELSE session[p]]
  /\ Goes(c, "erase")
  /\ UNCHANGED <<user, client, ready, docs, removal>>

\* findByIdAndUpdate, of an erased user again when two removals overlap.
Erase(c) ==
  /\ call[c].at = "erase"
  /\ user' = [active |-> FALSE, phone |-> NoPhone, alias |-> c,
              conn |-> "disconnected"]
  /\ Goes(c, "removed")
  /\ UNCHANGED <<session, client, ready, docs, removal>>

\* A write fails: the request does, and the user stays as it is.
RemoveFails(c) ==
  /\ call[c].at \in Removing \ {"disconnect"}
  /\ Goes(c, "failed")
  /\ UNCHANGED <<user, session, client, ready, docs, removal>>

-----------------------------------------------------------------------------
\* Other requests that concern the user.

\* update with a number: findOne, and a write by _id.
AskUpdate(c, p) ==
  /\ call[c].at = "unused" /\ user.active
  /\ call' = [call EXCEPT ![c] = [at |-> "updating", phone |-> p]]
  /\ UNCHANGED <<user, session, client, ready, docs, removal>>

WriteUpdate(c) ==
  /\ call[c].at = "updating"
  /\ user' = [user EXCEPT !.phone = call[c].phone]
  /\ Restores
  /\ Goes(c, "over")
  /\ UNCHANGED <<session, client, ready, docs, late, revived, stray>>

\* generateQrForPhoneNumber looks for an active user with the number, and
\* returns when the session is connected.
AskByPhone(c) ==
  /\ call[c].at = "unused" /\ user.active /\ user.phone # NoPhone
  /\ session[user.phone].status # "ready"
  /\ Goes(c, "asking")
  /\ UNCHANGED <<user, session, client, ready, docs, removal>>

\* regenerateQRCode looks again.
AskQr(c) ==
  /\ call[c].at \in {"unused", "asking"}
  /\ IF /\ user.active /\ user.phone # NoPhone
        /\ session[user.phone].status # "ready"
       THEN call' = [call EXCEPT ![c] = [at |-> "recreating",
                                         phone |-> user.phone]]
       ELSE Goes(c, "over")
  /\ UNCHANGED <<user, session, client, ready, docs, removal>>

\* recreateSession creates the session, or makes the user its owner again.
Recreate(c) ==
  LET p == call[c].phone IN
  /\ call[c].at = "recreating"
  /\ session' = [session EXCEPT ![p].owned = TRUE,
                   ![p].status = IF @ = "ready" THEN @ ELSE "connecting"]
  /\ Revives(p, WasDeactivated)
  /\ Goes(c, "starting")
  /\ UNCHANGED <<user, client, ready, docs, late, stray, restored>>

\* It starts a client unless there is one, or none comes up.
StartClient(c) ==
  LET p == call[c].phone IN
  /\ call[c].at = "starting"
  /\ \/ UNCHANGED <<client, stray>>
     \/ client' = client \cup {p} /\ Strays(p)
  /\ Goes(c, "telling")
  /\ UNCHANGED <<user, session, ready, docs, late, revived, restored>>

\* updateWhatsAppConnectionStatus, before and after the wait for a QR code:
\* findOne, and a write by _id.
Tell(c) ==
  /\ call[c].at = "telling"
  /\ Goes(c, IF user.active THEN "writing" ELSE "over")
  /\ UNCHANGED <<user, session, client, ready, docs, removal>>

WriteConnection(c) ==
  /\ call[c].at = "writing"
  /\ user' \in {[user EXCEPT !.conn = s] : s \in {"connecting", "failed"}}
  /\ Restores
  /\ call' \in {[call EXCEPT ![c].at = s] : s \in {"telling", "over"}}
  /\ UNCHANGED <<session, client, ready, docs, late, revived, stray>>

-----------------------------------------------------------------------------
\* Clients.  Their life is modelled in ClientRegistry, what their events write
\* in ConnectionStatus.

\* The sweep, at the start of a pod or by the scheduler: it looks neither at
\* userId nor at isActive.
Reconnectable(p) ==
  \/ session[p].status \in {"ready", "connecting"}
  \/ session[p].status = "disconnected" /\ (session[p].since \/ session[p].phone)

Reconnect(p) ==
  /\ Reconnectable(p)
  /\ client' = client \cup {p}
  /\ Strays(p)
  /\ UNCHANGED <<user, session, ready, docs, call, late, revived, restored>>

\* handleReady compares the number with that of the owner, if there is one and
\* it has one.
ReadyReads(p) ==
  /\ p \in client /\ ready[p] = "idle"
  /\ IF session[p].owned /\ user.phone \notin {NoPhone, p}
       THEN /\ session' = [session EXCEPT ![p].status = "failed"]
            /\ user' = [user EXCEPT !.conn = "failed"]
            /\ client' = client \ {p}
            /\ Restores
            /\ UNCHANGED ready
       ELSE /\ ready' = [ready EXCEPT ![p] = "writing"]
            /\ UNCHANGED <<session, user, client, restored>>
  /\ UNCHANGED <<docs, call, late, revived, stray>>

ReadyWrites(p) ==
  /\ ready[p] = "writing"
  /\ session' = [session EXCEPT ![p].status = "ready", ![p].phone = TRUE,
                                ![p].since = TRUE]
  /\ Revives(p, ~session[p].owned)
  /\ ready' = [ready EXCEPT ![p] = IF session[p].owned THEN "telling" ELSE "idle"]
  /\ UNCHANGED <<user, client, docs, call, late, stray, restored>>

ReadyTells(p) ==
  /\ ready[p] = "telling"
  /\ user' = [user EXCEPT !.conn = "connected"]
  /\ Restores
  /\ ready' = [ready EXCEPT ![p] = "idle"]
  /\ UNCHANGED <<session, client, docs, call, late, revived, stray>>

\* The client goes: a disconnected event, or an idle cleanup or a crash, which
\* leave the documents alone.
Lose(p) ==
  /\ p \in client
  /\ client' = client \ {p}
  /\ Disconnected(p) \/ UNCHANGED <<session, user>>
  /\ UNCHANGED <<ready, docs, call, removal>>

-----------------------------------------------------------------------------
\* Messages, from their event to their document (MessageStore has the rest of
\* the handlers).

\* getContactInfo: the number of the contact, or the JID of the group.
ContactPhone(m) == IF m.inbound THEN m.chat ELSE NoPhone

\* The document of a message: from and to are JIDs, a group's among them, the
\* numbers come from the contact and the session; the metadata have the
\* contact's number and what checkIfRegisteredUser finds.
Document(m, at) ==
  [at |-> at, contact |-> ContactPhone(m), info |-> FALSE,
   from       |-> IF m.inbound THEN m.chat ELSE m.session,
   fromNumber |-> IF m.inbound THEN m.contact ELSE m.session,
   to         |-> IF m.inbound THEN m.session ELSE m.chat,
   toNumber   |-> IF m.inbound THEN m.session ELSE m.chat]

\* The document of a call: the JID that hides a number is replaced by the
\* number, if the client can tell it.
CallDocuments(m) ==
  {[at |-> "stored", contact |-> NoPhone, info |-> FALSE,
    from       |-> IF m.inbound THEN peer ELSE m.session,
    fromNumber |-> IF m.inbound THEN peer ELSE m.session,
    to         |-> IF m.inbound THEN m.session ELSE peer,
    toNumber   |-> IF m.inbound THEN m.session ELSE peer] :
   peer \in {m.chat, m.contact}}

\* checkIfRegisteredUser: an active user has the number of the sender.
Registered(m) == m.inbound /\ user.active /\ m.chat = user.phone

Heard(m) == m.session \in Phone => m.session \in client

\* The handler finds the session, and looks the sender and the contacts up.
Handle(m) ==
  /\ ~m.call /\ docs[m].at = "unseen" /\ Heard(m)
  /\ docs' = [docs EXCEPT ![m].at = "handled", ![m].info = Registered(m)]
  /\ UNCHANGED <<user, session, client, ready, call, removal>>

Writes(m) == late' = IF Past(PastFrom) # {} THEN late \cup {m} ELSE late

\* create
Store(m) ==
  /\ docs[m].at = "handled"
  /\ docs' = [docs EXCEPT ![m].at = "stored"]
  /\ Writes(m)
  /\ UNCHANGED <<user, session, client, ready, call, revived, stray, restored>>

\* An event of a call: it is created, or what is there is overwritten.
HandleCall(m) ==
  /\ m.call /\ Heard(m)
  /\ docs' \in {[docs EXCEPT ![m] = d] : d \in CallDocuments(m)}
  /\ Writes(m)
  /\ UNCHANGED <<user, session, client, ready, call, revived, stray, restored>>

-----------------------------------------------------------------------------
\* The user is connected under one number.
Init ==
  /\ \E p \in Phone :
       /\ user = [active |-> TRUE, phone |-> p, alias |-> NoAlias,
                  conn |-> "connected"]
       /\ session = [q \in Phone |->
            IF q = p THEN [status |-> "ready", owned |-> TRUE, phone |-> TRUE,
                           since |-> TRUE]
                     ELSE NoSession]
       /\ client = {p}
  /\ ready = [p \in Phone |-> "idle"]
  /\ docs = [m \in Msg |-> Document(m, "unseen")]
  /\ call = [c \in Call |-> [at |-> "unused", phone |-> NoPhone]]
  /\ late = {} /\ revived = {} /\ stray = {} /\ restored = FALSE

Remove(c) == \/ AskRemove(c) \/ Disconnect(c) \/ RedactFrom(c) \/ RedactTo(c)
             \/ Deactivate(c) \/ Erase(c) \/ RemoveFails(c)
Update(c) == (\E p \in Phone : AskUpdate(c, p)) \/ WriteUpdate(c)
Qr(c) == \/ AskByPhone(c) \/ AskQr(c) \/ Recreate(c) \/ StartClient(c)
         \/ Tell(c) \/ WriteConnection(c)
Event(p) == \/ Reconnect(p) \/ ReadyReads(p) \/ ReadyWrites(p) \/ ReadyTells(p)
            \/ Lose(p)

Next == \/ \E c \in Call : Remove(c) \/ Update(c) \/ Qr(c)
        \/ \E p \in Phone : Event(p)
        \/ \E m \in Msg : Handle(m) \/ Store(m) \/ HandleCall(m)

Spec == Init /\ [][Next]_vars

-----------------------------------------------------------------------------
Side == Party \cup Call
Doc == [at : {"unseen", "handled", "stored"}, info : BOOLEAN, from : Side,
        fromNumber : Side, to : Side, toNumber : Side,
        contact : Party \cup {NoPhone}]

\* Types: a stored name is a participant's or a pseudonym.
TypeOK ==
  /\ user \in [active : BOOLEAN, phone : Phone \cup {NoPhone},
               alias : Call \cup {NoAlias}, conn : Connection]
  /\ session \in [Phone -> Session]
  /\ client \subseteq Phone
  /\ ready \in [Phone -> {"idle", "writing", "telling"}]
  /\ docs \in [Msg -> Doc]
  /\ call \in [Call -> [at : Stage, phone : Phone \cup {NoPhone}]]
  /\ late \subseteq Msg /\ revived \subseteq Phone /\ stray \subseteq Phone
  /\ restored \in BOOLEAN

\* A number that has been removed.
Gone == {call[c].phone : c \in Past({"removed"})}

\* When a removal has gone through, whatever ran beside it and however many
\* attempts failed before (USV 1883, W 488, W 586): the user has no number and
\* no connection, unless a request that had found the user active wrote later;
\* no stored message names the removed number, unless it was stored when the
\* redaction had begun; no session has an owner or a number, unless a QR
\* request or a client that came up wrote it later; and the number has no
\* client, unless the removal ran on another pod or one was started later.
NameGone ==
  ~user.active =>
    /\ restored \/ (user.phone = NoPhone /\ user.conn = "disconnected")
    /\ \A m \in Msg \ late : docs[m].at = "stored" =>
         /\ docs[m].from \notin Gone /\ docs[m].fromNumber \notin Gone
         /\ docs[m].to \notin Gone /\ docs[m].toNumber \notin Gone
         /\ docs[m].contact \notin Gone \ {NoPhone}
         /\ docs[m].info => m.chat \notin Gone
    /\ \A p \in Phone \ revived : ~session[p].owned /\ ~session[p].phone
    /\ client \cap Gone \subseteq stray
=============================================================================
