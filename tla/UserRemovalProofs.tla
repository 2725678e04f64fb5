------------------------- MODULE UserRemovalProofs -------------------------
(***************************************************************************)
(* Proofs about UserRemoval, for any numbers, requests and messages.       *)
(***************************************************************************)
EXTENDS UserRemoval, TLAPS

CallRecord == [at : Stage, phone : Phone \cup {NoPhone}]

\* A QR request that creates the session or its client has read a number.
RequestsHaveNumber ==
  \A c \in Call : call[c].at \in {"recreating", "starting"} =>
                    call[c].phone \in Phone

TypeInv == TypeOK /\ RequestsHaveNumber

-----------------------------------------------------------------------------
\* What changing some fields of a record does.

LEMMA CallGoes ==
  ASSUME call \in [Call -> CallRecord], NEW c \in Call, NEW s \in Stage,
         Goes(c, s)
  PROVE  /\ call' \in [Call -> CallRecord]
         /\ call'[c].at = s /\ call'[c].phone = call[c].phone
         /\ \A d \in Call \ {c} : call'[d] = call[d]
<1>1. call' = [call EXCEPT ![c] = [call[c] EXCEPT !.at = s]]
  BY DEF Goes
<1>2. call[c] \in CallRecord
  OBVIOUS
<1>3. /\ [call[c] EXCEPT !.at = s] \in CallRecord
      /\ [call[c] EXCEPT !.at = s].at = s
      /\ [call[c] EXCEPT !.at = s].phone = call[c].phone
  BY <1>2 DEF CallRecord
<1> QED
  BY <1>1, <1>3

LEMMA FromRedacted ==
  ASSUME NEW d \in Doc, NEW x \in Side,
         NEW e, e = [d EXCEPT !.from = x, !.fromNumber = x,
                              !.contact = NoPhone, !.info = FALSE]
  PROVE  /\ e \in Doc
         /\ e.at = d.at /\ e.from = x /\ e.fromNumber = x
         /\ e.contact = NoPhone /\ e.info = FALSE
         /\ e.to = d.to /\ e.toNumber = d.toNumber
BY DEF Doc

LEMMA ToRedacted ==
  ASSUME NEW d \in Doc, NEW x \in Side,
         NEW e, e = [d EXCEPT !.to = x, !.toNumber = x]
  PROVE  /\ e \in Doc
         /\ e.at = d.at /\ e.from = d.from /\ e.fromNumber = d.fromNumber
         /\ e.contact = d.contact /\ e.info = d.info
         /\ e.to = x /\ e.toNumber = x
BY DEF Doc

LEMMA DocMoves ==
  ASSUME NEW d \in Doc, NEW s \in {"handled", "stored"}, NEW i \in BOOLEAN,
         NEW e, e = [d EXCEPT !.at = s, !.info = i]
  PROVE  /\ e \in Doc
         /\ e.at = s /\ e.info = i /\ e.contact = d.contact
         /\ e.from = d.from /\ e.fromNumber = d.fromNumber
         /\ e.to = d.to /\ e.toNumber = d.toNumber
BY DEF Doc

LEMMA StatusSet ==
  ASSUME NEW r \in Session, NEW s \in Status, NEW q, q = [r EXCEPT !.status = s]
  PROVE  q \in Session /\ q.owned = r.owned /\ q.phone = r.phone
BY DEF Session

LEMMA Cleared ==
  ASSUME NEW r \in Session,
         NEW q, q = [r EXCEPT !.status = "disconnected", !.owned = FALSE,
                              !.phone = FALSE]
  PROVE  q \in Session /\ ~q.owned /\ ~q.phone
BY DEF Session, Status

LEMMA Owned ==
  ASSUME NEW r \in Session, NEW s \in Status,
         NEW q, q = [r EXCEPT !.owned = TRUE, !.status = s]
  PROVE  q \in Session /\ q.owned /\ q.phone = r.phone
BY DEF Session

LEMMA CameUp ==
  ASSUME NEW r \in Session,
         NEW q, q = [r EXCEPT !.status = "ready", !.phone = TRUE, !.since = TRUE]
  PROVE  q \in Session /\ q.owned = r.owned /\ q.phone
BY DEF Session, Status

\* What the requests and events that write one session do to it.

LEMMA RecreateSession ==
  ASSUME session \in [Phone -> Session], NEW c \in Call, Recreate(c),
         call[c].phone \in Phone
  PROVE  /\ session' \in [Phone -> Session]
         /\ session'[call[c].phone].phone = session[call[c].phone].phone
         /\ \A p \in Phone \ {call[c].phone} : session'[p] = session[p]
<1> DEFINE p == call[c].phone
           s == IF session[p].status = "ready" THEN "ready" ELSE "connecting"
           q == [session[p] EXCEPT !.owned = TRUE, !.status = s]
<1>1. session' = [session EXCEPT ![p] = q]
  BY DEF Recreate
<1>2. s \in Status
  BY DEF Status
<1>3. session[p] \in Session
  OBVIOUS
<1>4. q \in Session /\ q.phone = session[p].phone
  <2>1. \A r \in Session, t \in Status :
          /\ [r EXCEPT !.owned = TRUE, !.status = t] \in Session
          /\ [r EXCEPT !.owned = TRUE, !.status = t].phone = r.phone
    BY Owned
  <2> HIDE DEF s
  <2> QED
    BY <1>2, <1>3, <2>1, Zenon
<1> HIDE DEF q
<1> QED
  BY <1>1, <1>4

LEMMA FailedSession ==
  ASSUME session \in [Phone -> Session], NEW p \in Phone, NEW s \in Status,
         session' = [session EXCEPT ![p].status = s]
  PROVE  /\ session' \in [Phone -> Session]
         /\ session'[p].owned = session[p].owned
         /\ session'[p].phone = session[p].phone
         /\ \A q \in Phone \ {p} : session'[q] = session[q]
<1> DEFINE q == [session[p] EXCEPT !.status = s]
<1>1. session' = [session EXCEPT ![p] = q]
  OBVIOUS
<1>2. session[p] \in Session
  OBVIOUS
<1>3. q \in Session /\ q.owned = session[p].owned /\ q.phone = session[p].phone
  BY <1>2, StatusSet
<1> HIDE DEF q
<1> QED
  BY <1>1, <1>3

LEMMA ReadySession ==
  ASSUME session \in [Phone -> Session], NEW p \in Phone, ReadyWrites(p)
  PROVE  /\ session' \in [Phone -> Session]
         /\ session'[p].owned = session[p].owned /\ session'[p].phone
         /\ \A q \in Phone \ {p} : session'[q] = session[q]
<1> DEFINE q == [session[p] EXCEPT !.status = "ready", !.phone = TRUE,
                                   !.since = TRUE]
<1>1. session' = [session EXCEPT ![p] = q]
  BY DEF ReadyWrites
<1>2. session[p] \in Session
  OBVIOUS
<1>3. q \in Session /\ q.owned = session[p].owned /\ q.phone
  BY <1>2, CameUp
<1> HIDE DEF q
<1> QED
  BY <1>1, <1>3

-----------------------------------------------------------------------------
\* Types.

LEMMA RemoveTypes ==
  ASSUME TypeInv, NEW c \in Call, Remove(c)
  PROVE  TypeInv'
<1> USE RemovalAssumption
<1>0. call \in [Call -> CallRecord]
  BY DEF TypeInv, TypeOK, CallRecord
<1>1. CASE AskRemove(c)
  <2>1. call' \in [Call -> CallRecord]
    BY <1>1, <1>0 DEF AskRemove, TypeInv, TypeOK, CallRecord, Stage, Removing
  <2>2. RequestsHaveNumber'
    BY <1>1, <1>0 DEF AskRemove, TypeInv, RequestsHaveNumber, CallRecord
  <2> QED
    BY <1>1, <2>1, <2>2 DEF AskRemove, TypeInv, TypeOK, CallRecord, removal
<1>2. CASE RequestsHaveNumber' /\ call' \in [Call -> CallRecord]
  <2> USE <1>2 DEF TypeInv, TypeOK, CallRecord, removal
  <2>1. CASE Disconnect(c)
    <3>1. session' \in [Phone -> Session]
      BY <2>1, StatusSet DEF Disconnect, Disconnected, Status
    <3>2. user' \in [active : BOOLEAN, phone : Phone \cup {NoPhone},
                     alias : Call \cup {NoAlias}, conn : Connection]
      BY <2>1 DEF Disconnect, Disconnected, Connection
    <3>3. client' \subseteq Phone /\ stray' \subseteq Phone
      BY <2>1 DEF Disconnect
    <3> QED
      BY <2>1, <3>1, <3>2, <3>3 DEF Disconnect
  <2>2. CASE RedactFrom(c)
    <3>1. docs' \in [Msg -> Doc]
      BY <2>2, FromRedacted DEF RedactFrom, Redacted, Side
    <3> QED
      BY <2>2, <3>1 DEF RedactFrom
  <2>3. CASE RedactTo(c)
    <3>1. docs' \in [Msg -> Doc]
      BY <2>3, ToRedacted DEF RedactTo, Redacted, Side
    <3> QED
      BY <2>3, <3>1 DEF RedactTo
  <2>4. CASE Deactivate(c)
    <3>1. session' \in [Phone -> Session]
      BY <2>4, Cleared DEF Deactivate
    <3> QED
      BY <2>4, <3>1 DEF Deactivate
  <2>5. CASE Erase(c)
    BY <2>5 DEF Erase, Connection
  <2>6. CASE RemoveFails(c)
    BY <2>6 DEF RemoveFails
  <2> QED
    BY <2>1, <2>2, <2>3, <2>4, <2>5, <2>6, <1>1 DEF Remove
<1>3. ASSUME NEW s \in Stage \ {"recreating", "starting"}, Goes(c, s)
      PROVE  RequestsHaveNumber' /\ call' \in [Call -> CallRecord]
  BY <1>0, <1>3, CallGoes DEF TypeInv, RequestsHaveNumber
<1> QED
  BY <1>1, <1>2, <1>3 DEF Remove, Disconnect, RedactFrom, RedactTo, Deactivate,
                          Erase, RemoveFails, Stage, Removing

LEMMA RequestTypes ==
  ASSUME TypeInv, NEW c \in Call, Update(c) \/ Qr(c)
  PROVE  TypeInv'
<1> USE RemovalAssumption
<1>0. call \in [Call -> CallRecord]
  BY DEF TypeInv, TypeOK, CallRecord
<1>1. ASSUME NEW p \in Phone, AskUpdate(c, p)
      PROVE  TypeInv'
  <2>1. call' \in [Call -> CallRecord]
    BY <1>1, <1>0 DEF AskUpdate, CallRecord, Stage
  <2>2. RequestsHaveNumber'
    BY <1>1, <1>0 DEF AskUpdate, TypeInv, RequestsHaveNumber, CallRecord
  <2> QED
    BY <1>1, <2>1, <2>2 DEF AskUpdate, TypeInv, TypeOK, CallRecord, removal
<1>2. CASE WriteUpdate(c)
  <2>1. RequestsHaveNumber' /\ call' \in [Call -> CallRecord]
    BY <1>0, <1>2, CallGoes DEF WriteUpdate, TypeInv, RequestsHaveNumber, Stage
  <2>2. restored' \in BOOLEAN
    BY <1>2, Zenon DEF WriteUpdate, Restores
  <2>3. call[c].phone \in Phone \cup {NoPhone}
    BY <1>0 DEF CallRecord
  <2>4. user' \in [active : BOOLEAN, phone : Phone \cup {NoPhone},
                   alias : Call \cup {NoAlias}, conn : Connection]
    BY <1>2, <2>3 DEF WriteUpdate, TypeInv, TypeOK
  <2> QED
    BY <1>2, <2>1, <2>2, <2>4 DEF WriteUpdate, TypeInv, TypeOK, CallRecord
<1>3. CASE AskByPhone(c)
  <2>1. RequestsHaveNumber' /\ call' \in [Call -> CallRecord]
    BY <1>0, <1>3, CallGoes DEF AskByPhone, TypeInv, RequestsHaveNumber, Stage
  <2> QED
    BY <1>3, <2>1 DEF AskByPhone, TypeInv, TypeOK, CallRecord, removal
<1>4. CASE AskQr(c)
  <2>1. RequestsHaveNumber' /\ call' \in [Call -> CallRecord]
    <3>1. CASE Goes(c, "over")
      BY <1>0, <3>1, CallGoes DEF TypeInv, RequestsHaveNumber, Stage
    <3>2. CASE /\ user.phone # NoPhone
               /\ call' = [call EXCEPT ![c] = [at |-> "recreating",
                                               phone |-> user.phone]]
      <4>1. user.phone \in Phone
        BY <3>2 DEF TypeInv, TypeOK
      <4> QED
        BY <1>0, <3>2, <4>1 DEF TypeInv, RequestsHaveNumber, CallRecord, Stage
    <3> QED
      BY <1>4, <3>1, <3>2 DEF AskQr
  <2> QED
    BY <1>4, <2>1 DEF AskQr, TypeInv, TypeOK, CallRecord, removal
<1>5. CASE Recreate(c)
  <2>1. call[c].phone \in Phone
    BY <1>5 DEF Recreate, TypeInv, RequestsHaveNumber
  <2>2. RequestsHaveNumber' /\ call' \in [Call -> CallRecord]
    BY <1>0, <1>5, <2>1, CallGoes DEF Recreate, TypeInv, RequestsHaveNumber, Stage
  <2>3. session' \in [Phone -> Session]
    BY <1>5, <2>1, RecreateSession DEF TypeInv, TypeOK
  <2>4. revived' \subseteq Phone
    BY <1>5, <2>1 DEF Recreate, Revives, TypeInv, TypeOK
  <2> QED
    BY <1>5, <2>2, <2>3, <2>4 DEF Recreate, TypeInv, TypeOK, CallRecord
<1>6. CASE StartClient(c)
  <2>1. call[c].phone \in Phone
    BY <1>6 DEF StartClient, TypeInv, RequestsHaveNumber
  <2>2. RequestsHaveNumber' /\ call' \in [Call -> CallRecord]
    BY <1>0, <1>6, CallGoes DEF StartClient, TypeInv, RequestsHaveNumber, Stage
  <2>3. client' \subseteq Phone /\ stray' \subseteq Phone
    BY <1>6, <2>1 DEF StartClient, Strays, TypeInv, TypeOK
  <2> QED
    BY <1>6, <2>2, <2>3 DEF StartClient, TypeInv, TypeOK, CallRecord
<1>7. CASE Tell(c)
  <2>1. RequestsHaveNumber' /\ call' \in [Call -> CallRecord]
    BY <1>0, <1>7, CallGoes DEF Tell, TypeInv, RequestsHaveNumber, Stage
  <2> QED
    BY <1>7, <2>1 DEF Tell, TypeInv, TypeOK, CallRecord, removal
<1>8. CASE WriteConnection(c)
  <2>1. PICK s \in {"telling", "over"} : Goes(c, s)
    BY <1>8 DEF WriteConnection, Goes
  <2>2. RequestsHaveNumber' /\ call' \in [Call -> CallRecord]
    BY <1>0, <2>1, CallGoes DEF TypeInv, RequestsHaveNumber, Stage
  <2>3. restored' \in BOOLEAN
    BY <1>8, Zenon DEF WriteConnection, Restores
  <2>4. user' \in [active : BOOLEAN, phone : Phone \cup {NoPhone},
                   alias : Call \cup {NoAlias}, conn : Connection]
    BY <1>8 DEF WriteConnection, TypeInv, TypeOK, Connection
  <2> QED
    BY <1>8, <2>2, <2>3, <2>4 DEF WriteConnection, TypeInv, TypeOK, CallRecord
<1> QED
  BY <1>1, <1>2, <1>3, <1>4, <1>5, <1>6, <1>7, <1>8 DEF Update, Qr

LEMMA EventTypes ==
  ASSUME TypeInv, NEW p \in Phone, Event(p)
  PROVE  TypeInv'
<1> USE RemovalAssumption DEF TypeInv, TypeOK
<1>0. RequestsHaveNumber' /\ UNCHANGED call
  BY DEF Event, Reconnect, ReadyReads, ReadyWrites, ReadyTells, Lose, removal,
         RequestsHaveNumber
<1>1. CASE Reconnect(p)
  BY <1>0, <1>1 DEF Reconnect, Strays
<1>2. CASE ReadyReads(p)
  <2>1. restored' \in BOOLEAN
    BY <1>2, Zenon DEF ReadyReads, Restores
  <2>2. session' \in [Phone -> Session]
    BY <1>2, FailedSession DEF ReadyReads, Status
  <2>3. user' \in [active : BOOLEAN, phone : Phone \cup {NoPhone},
                   alias : Call \cup {NoAlias}, conn : Connection]
    BY <1>2 DEF ReadyReads, Connection
  <2> QED
    BY <1>0, <1>2, <2>1, <2>2, <2>3 DEF ReadyReads
<1>3. CASE ReadyWrites(p)
  <2>1. session' \in [Phone -> Session]
    BY <1>3, ReadySession
  <2>2. revived' \subseteq Phone
    BY <1>3 DEF ReadyWrites, Revives
  <2> QED
    BY <1>0, <1>3, <2>1, <2>2 DEF ReadyWrites
<1>4. CASE ReadyTells(p)
  <2>1. restored' \in BOOLEAN
    BY <1>4, Zenon DEF ReadyTells, Restores
  <2> QED
    BY <1>0, <1>4, <2>1 DEF ReadyTells, Connection
<1>5. CASE Lose(p)
  <2>1. session' \in [Phone -> Session]
    BY <1>5, StatusSet DEF Lose, Disconnected, Status
  <2>2. user' \in [active : BOOLEAN, phone : Phone \cup {NoPhone},
                   alias : Call \cup {NoAlias}, conn : Connection]
    BY <1>5 DEF Lose, Disconnected, Connection
  <2> QED
    BY <1>0, <1>5, <2>1, <2>2 DEF Lose, removal
<1> QED
  BY <1>1, <1>2, <1>3, <1>4, <1>5 DEF Event

LEMMA MessageTypes ==
  ASSUME TypeInv, NEW m \in Msg, Handle(m) \/ Store(m) \/ HandleCall(m)
  PROVE  TypeInv'
<1> USE RemovalAssumption DEF TypeInv, TypeOK
<1>0. RequestsHaveNumber' /\ UNCHANGED call
  BY DEF Handle, Store, HandleCall, RequestsHaveNumber
<1>1. CASE Handle(m)
  <2>1. Registered(m) \in BOOLEAN
    BY Zenon DEF Registered
  <2> DEFINE d == [docs[m] EXCEPT !.at = "handled", !.info = Registered(m)]
  <2>2. docs' = [docs EXCEPT ![m] = d] /\ docs[m] \in Doc
    BY <1>1 DEF Handle
  <2>3. docs' \in [Msg -> Doc]
    <3>1. d \in Doc
      BY <2>1, <2>2, DocMoves
    <3> HIDE DEF d
    <3> QED  BY <2>2, <3>1
  <2> QED
    BY <1>0, <1>1, <2>3 DEF Handle, removal
<1>2. CASE Store(m)
  <2>1. docs' \in [Msg -> Doc]
    <3> DEFINE d == [docs[m] EXCEPT !.at = "stored"]
    <3>1. docs' = [docs EXCEPT ![m] = d] /\ docs[m] \in Doc
      BY <1>2 DEF Store
    <3>2. d \in Doc
      BY <3>1 DEF Doc
    <3> HIDE DEF d
    <3> QED  BY <3>1, <3>2
  <2> QED
    BY <1>0, <1>2, <2>1 DEF Store, Writes
<1>3. CASE HandleCall(m)
  <2>1. m.session \in Party /\ m.chat \in Party /\ m.contact \in Party
    BY Zenon
  <2>2. ASSUME NEW peer \in {m.chat, m.contact}
        PROVE  [at |-> "stored", contact |-> NoPhone, info |-> FALSE,
                from       |-> IF m.inbound THEN peer ELSE m.session,
                fromNumber |-> IF m.inbound THEN peer ELSE m.session,
                to         |-> IF m.inbound THEN m.session ELSE peer,
                toNumber   |-> IF m.inbound THEN m.session ELSE peer] \in Doc
    BY <2>1 DEF Doc, Side
  <2>3. CallDocuments(m) \subseteq Doc
    BY <2>2 DEF CallDocuments
  <2>4. docs' \in [Msg -> Doc]
    BY <1>3, <2>3 DEF HandleCall
  <2> QED
    BY <1>0, <1>3, <2>4 DEF HandleCall, Writes
<1> QED
  BY <1>1, <1>2, <1>3

LEMMA InitTypes == Init => TypeInv
<1> SUFFICES ASSUME Init PROVE TypeInv
  OBVIOUS
<1> USE RemovalAssumption
<1>1. PICK p \in Phone :
        /\ user = [active |-> TRUE, phone |-> p, alias |-> NoAlias,
                   conn |-> "connected"]
        /\ session = [q \in Phone |->
             IF q = p THEN [status |-> "ready", owned |-> TRUE, phone |-> TRUE,
                            since |-> TRUE]
                      ELSE NoSession]
        /\ client = {p}
  BY DEF Init
<1>2. session \in [Phone -> Session]
  BY <1>1 DEF Session, NoSession, Status
<1>3. \A m \in Msg : Document(m, "unseen") \in Doc
  BY DEF Document, ContactPhone, Doc, Side, Party
<1>4. docs \in [Msg -> Doc]
  BY <1>3 DEF Init
<1>5. RequestsHaveNumber
  BY DEF Init, RequestsHaveNumber
<1> QED
  BY <1>1, <1>2, <1>4, <1>5 DEF Init, TypeInv, TypeOK, Stage, Connection

LEMMA TypeInvStep ==
  ASSUME TypeInv, [Next]_vars
  PROVE  TypeInv'
<1>1. CASE UNCHANGED vars
  BY <1>1 DEF vars, TypeInv, TypeOK, RequestsHaveNumber
<1> QED
  BY <1>1, RemoveTypes, RequestTypes, EventTypes, MessageTypes DEF Next

\* However requests, events and messages interleave, every document keeps its
\* type: a stored name is a participant's or a pseudonym.
THEOREM RemovalTypeCorrect == Spec => []TypeOK
<1>1. TypeInv /\ [Next]_vars => TypeInv'
  BY TypeInvStep
<1>2. TypeInv => TypeOK
  BY DEF TypeInv
<1> QED
  BY InitTypes, <1>1, <1>2, PTL DEF Spec
-----------------------------------------------------------------------------
\* The removed number is gone: the invariant that makes it so.

\* The erased user is empty, unless it was written to.
UserGone ==
  ~user.active =>
    /\ restored \/ (user.phone = NoPhone /\ user.conn = "disconnected")
    /\ \E c \in Call : call[c].at = "removed"

\* A session whose owner is gone has no number, unless its client came up
\* later; after a deactivation no session has either.
SessionsGone ==
  /\ \A p \in Phone : session[p].phone /\ ~session[p].owned => p \in revived
  /\ WasDeactivated =>
       \A p \in Phone \ revived : ~session[p].owned /\ ~session[p].phone

ClientsGone ==
  \A c \in Call : call[c].at \in PastDisconnect /\ call[c].phone \in client =>
                    call[c].phone \in stray

\* What a document tells of its sender in its metadata, from tells as well, so
\* that the filter of the first redaction finds it.
SenderInFrom ==
  \A m \in Msg :
    /\ docs[m].contact # NoPhone => docs[m].from = docs[m].contact
    /\ docs[m].info => docs[m].from = m.chat
    /\ docs[m].at = "unseen" =>
         docs[m].from = (IF m.inbound THEN m.chat ELSE m.session)

FromGone ==
  \A c \in Call, m \in Msg \ late :
    call[c].at \in PastFrom /\ call[c].phone \in Phone /\ docs[m].at = "stored" =>
      /\ docs[m].from # call[c].phone /\ docs[m].fromNumber # call[c].phone
      /\ docs[m].contact # call[c].phone
      /\ docs[m].info => m.chat # call[c].phone

ToGone ==
  \A c \in Call, m \in Msg \ late :
    call[c].at \in PastTo /\ call[c].phone \in Phone /\ docs[m].at = "stored" =>
      docs[m].to # call[c].phone /\ docs[m].toNumber # call[c].phone

Message(m) == Handle(m) \/ Store(m) \/ HandleCall(m)

\* Which step brings a request past which point.

LEMMA Stages ==
  /\ PastDisconnect = {"redactFrom", "redactTo", "deactivate", "erase", "removed"}
  /\ PastFrom = {"redactTo", "deactivate", "erase", "removed"}
  /\ PastTo = {"deactivate", "erase", "removed"}
  /\ PastDeactivate = {"erase", "removed"}
BY DEF PastDisconnect, PastFrom, PastTo, PastDeactivate, Removing

LEMMA RemovalPasses ==
  ASSUME TypeInv, NEW c \in Call, Remove(c), NEW d \in Call
  PROVE  /\ call'[d].at \in PastDeactivate =>
              call[d].at \in PastDeactivate \/ Deactivate(c)
         /\ call[d].at = "removed" => call'[d].at = "removed"
         /\ call'[d].at \in PastDisconnect /\ call'[d].phone \in Phone =>
              /\ call'[d].phone = call[d].phone
              /\ call[d].at \in PastDisconnect \/ (d = c /\ Disconnect(c))
              /\ call'[d].at \in PastFrom =>
                   call[d].at \in PastFrom \/ (d = c /\ RedactFrom(c))
              /\ call'[d].at \in PastTo =>
                   call[d].at \in PastTo \/ (d = c /\ RedactTo(c))
<1> USE Stages, RemovalAssumption
<1>0. call \in [Call -> CallRecord]
  BY DEF TypeInv, TypeOK, CallRecord
<1>1. CASE AskRemove(c)
  <2>1. CASE d # c
    BY <1>1, <1>0, <2>1 DEF AskRemove
  <2>2. CASE d = c
    <3>1. call'[c] = [at |-> IF user.phone = NoPhone THEN "deactivate"
                                                     ELSE "disconnect",
                      phone |-> user.phone]
      BY <1>1, <1>0 DEF AskRemove
    <3>2. NoPhone \notin Phone /\ call[c].at = "unused"
      BY <1>1 DEF AskRemove, Party
    <3> QED
      BY <2>2, <3>1, <3>2
  <2> QED  BY <2>1, <2>2
<1>2. CASE Disconnect(c)
  <2>1. call[c].at = "disconnect" /\ Goes(c, "redactFrom")
    BY <1>2 DEF Disconnect
  <2> QED
    BY <1>0, <1>2, <2>1, CallGoes DEF Stage, Removing
<1>3. CASE RedactFrom(c)
  <2>1. call[c].at = "redactFrom" /\ Goes(c, "redactTo")
    BY <1>3 DEF RedactFrom
  <2> QED
    BY <1>0, <1>3, <2>1, CallGoes DEF Stage, Removing
<1>4. CASE RedactTo(c)
  <2>1. call[c].at = "redactTo" /\ Goes(c, "deactivate")
    BY <1>4 DEF RedactTo
  <2> QED
    BY <1>0, <1>4, <2>1, CallGoes DEF Stage, Removing
<1>5. CASE Deactivate(c)
  <2>1. call[c].at = "deactivate" /\ Goes(c, "erase")
    BY <1>5 DEF Deactivate
  <2> QED
    BY <1>0, <1>5, <2>1, CallGoes DEF Stage, Removing
<1>6. CASE Erase(c)
  <2>1. call[c].at = "erase" /\ Goes(c, "removed")
    BY <1>6 DEF Erase
  <2> QED
    BY <1>0, <1>6, <2>1, CallGoes DEF Stage, Removing
<1>7. CASE RemoveFails(c)
  <2>1. call[c].at \in Removing /\ Goes(c, "failed")
    BY <1>7 DEF RemoveFails
  <2> QED
    BY <1>0, <1>7, <2>1, CallGoes DEF Stage, Removing
<1> QED
  BY <1>1, <1>2, <1>3, <1>4, <1>5, <1>6, <1>7 DEF Remove

LEMMA RequestsPassNothing ==
  ASSUME TypeInv, NEW c \in Call, Update(c) \/ Qr(c), NEW d \in Call
  PROVE  /\ call'[d].at \in PastDisconnect => call'[d] = call[d]
         /\ call[d].at = "removed" => call'[d].at = "removed"
<1> USE Stages
<1>0. call \in [Call -> CallRecord]
  BY DEF TypeInv, TypeOK, CallRecord
<1>1. call[c].at # "removed"
  BY DEF Update, Qr, AskUpdate, WriteUpdate, AskByPhone, AskQr, Recreate,
         StartClient, Tell, WriteConnection
<1>2. ASSUME NEW s \in Stage \ PastDisconnect, Goes(c, s)
      PROVE  call'[d].at \in PastDisconnect => call'[d] = call[d]
  BY <1>0, <1>2, CallGoes
<1>3. ASSUME NEW s \in Stage \ PastDisconnect, NEW p,
             call' = [call EXCEPT ![c] = [at |-> s, phone |-> p]]
      PROVE  call'[d].at \in PastDisconnect => call'[d] = call[d]
  BY <1>0, <1>3
<1>4. \A e \in Call \ {c} : call'[e] = call[e]
  <2>1. CASE \E s \in Stage : Goes(c, s)
    BY <1>0, <2>1, CallGoes
  <2>2. CASE \E r : call' = [call EXCEPT ![c] = r]
    BY <1>0, <2>2
  <2>3. CASE WriteConnection(c)
    BY <1>0, <2>1, <2>3 DEF WriteConnection, Goes, Stage
  <2> QED
    BY <2>1, <2>2, <2>3 DEF Update, Qr, AskUpdate, WriteUpdate, AskByPhone,
       AskQr, Recreate, StartClient, Tell, Stage
<1>5. call'[d].at \in PastDisconnect => call'[d] = call[d]
  <2>1. CASE \E p \in Phone : AskUpdate(c, p)
    BY <1>3, <2>1 DEF AskUpdate, Stage
  <2>2. CASE AskQr(c)
    BY <1>2, <1>3, <2>2 DEF AskQr, Stage
  <2>3. CASE WriteConnection(c)
    BY <1>2, <2>3 DEF WriteConnection, Goes, Stage
  <2> QED
    BY <1>2, <2>1, <2>2, <2>3 DEF Update, Qr, WriteUpdate, AskByPhone,
       Recreate, StartClient, Tell, Stage
<1> QED
  BY <1>1, <1>4, <1>5

LEMMA CallsKept ==
  ASSUME (\E p \in Phone : Event(p)) \/ (\E m \in Msg : Message(m))
  PROVE  call' = call
BY DEF Event, Message, Reconnect, ReadyReads, ReadyWrites, ReadyTells, Lose,
       Handle, Store, HandleCall

LEMMA NextCases ==
  ASSUME Next
  PROVE  \/ \E c \in Call : Remove(c)
         \/ \E c \in Call : Update(c) \/ Qr(c)
         \/ \E p \in Phone : Event(p)
         \/ \E m \in Msg : Message(m)
BY DEF Next, Message

-----------------------------------------------------------------------------
\* The user.

LEMMA UserGoneStep ==
  ASSUME TypeInv, UserGone, Next
  PROVE  UserGone'
<1>1. ASSUME NEW c \in Call, call[c].at = "removed"
      PROVE  call'[c].at = "removed"
  BY <1>1, NextCases, RemovalPasses, RequestsPassNothing, CallsKept
<1>2. CASE \E c \in Call : Erase(c)
  <2>1. PICK c \in Call : Erase(c)
    BY <1>2
  <2>2. call \in [Call -> CallRecord] /\ Goes(c, "removed")
    BY <2>1 DEF Erase, TypeInv, TypeOK, CallRecord
  <2>3. call'[c].at = "removed"
    BY <2>2, CallGoes DEF Stage
  <2>4. user'.phone = NoPhone /\ user'.conn = "disconnected"
    BY <2>1 DEF Erase
  <2> QED
    BY <2>3, <2>4 DEF UserGone
<1>3. CASE UNCHANGED <<user, restored>>
  BY <1>1, <1>3 DEF UserGone
<1>4. CASE /\ user' = [user EXCEPT !.conn = "disconnected"]
           /\ UNCHANGED restored
  <2>1. /\ user'.active = user.active /\ user'.phone = user.phone
        /\ user'.conn = "disconnected"
    BY <1>4 DEF TypeInv, TypeOK
  <2> QED
    BY <1>1, <1>4, <2>1 DEF UserGone
<1>5. CASE Restores /\ user'.active = user.active
  BY <1>1, <1>5 DEF UserGone, Restores
<1>6. CASE \E c \in Call : WriteUpdate(c) \/ WriteConnection(c)
  <2>1. user'.active = user.active /\ Restores
    BY <1>6 DEF WriteUpdate, WriteConnection, TypeInv, TypeOK
  <2> QED
    BY <1>5, <2>1
<1>7. CASE \E p \in Phone : ReadyReads(p) \/ ReadyTells(p)
  <2>1. UNCHANGED <<user, restored>> \/ (Restores /\ user'.active = user.active)
    BY <1>7 DEF ReadyReads, ReadyTells, TypeInv, TypeOK
  <2> QED
    BY <1>3, <1>5, <2>1
<1>8. CASE \E c \in Call : Disconnect(c)
  BY <1>3, <1>4, <1>8 DEF Disconnect, Disconnected
<1>9. CASE \E p \in Phone : Lose(p)
  BY <1>3, <1>4, <1>9 DEF Lose, Disconnected, removal
<1> QED
  BY <1>2, <1>3, <1>6, <1>7, <1>8, <1>9 DEF Next, Remove, Update, Qr, Event,
     AskRemove, RedactFrom, RedactTo, Deactivate, RemoveFails, AskUpdate,
     AskByPhone, AskQr, Recreate, StartClient, Tell, Reconnect, ReadyWrites,
     Handle, Store, HandleCall, removal
-----------------------------------------------------------------------------
\* The sessions.

LEMMA SessionsGoneStep ==
  ASSUME TypeInv, SessionsGone, Next
  PROVE  SessionsGone'
<1> USE RemovalAssumption
<1>0. session \in [Phone -> Session] /\ revived \subseteq Phone
  BY DEF TypeInv, TypeOK
<1>1. ASSUME NEW c \in Call, Deactivate(c)
      PROVE  SessionsGone'
  <2>1. UNCHANGED revived
    BY <1>1 DEF Deactivate, removal
  <2>2. ASSUME NEW p \in Phone
        PROVE  /\ ~session'[p].owned
               /\ session'[p].phone => session[p].phone /\ ~session[p].owned
    <3>1. session'[p] = IF session[p].owned
                          THEN [session[p] EXCEPT !.status = "disconnected",
                                  !.owned = FALSE, !.phone = FALSE]
                          ELSE session[p]
      BY <1>1 DEF Deactivate
    <3>2. session[p] \in Session
      BY <1>0
    <3>3. CASE session[p].owned
      BY <3>1, <3>2, <3>3, Cleared
    <3>4. CASE ~session[p].owned
      BY <3>1, <3>4
    <3> QED  BY <3>3, <3>4
  <2> QED
    BY <2>1, <2>2 DEF SessionsGone
<1>2. CASE ~\E c \in Call : Deactivate(c)
  <2>1. WasDeactivated' => WasDeactivated
    <3>1. ASSUME NEW d \in Call, call'[d].at \in PastDeactivate
          PROVE  call[d].at \in PastDeactivate
      BY <1>2, <3>1, NextCases, RemovalPasses, RequestsPassNothing, CallsKept,
         Stages
    <3> QED
      BY <3>1 DEF WasDeactivated, Past
  <2>2. CASE UNCHANGED <<session, revived>>
    BY <2>1, <2>2 DEF SessionsGone
  <2>3. CASE \E p \in Phone, s \in Status :
               session' = [session EXCEPT ![p].status = s] /\ UNCHANGED revived
    BY <1>0, <2>1, <2>3, FailedSession DEF SessionsGone
  <2>4. ASSUME NEW c \in Call, Recreate(c)
        PROVE  SessionsGone'
    <3> DEFINE p == call[c].phone
    <3>1. p \in Phone
      BY <2>4 DEF TypeInv, RequestsHaveNumber, Recreate
    <3>2. /\ session'[p].phone = session[p].phone
          /\ \A q \in Phone \ {p} : session'[q] = session[q]
      BY <1>0, <2>4, <3>1, RecreateSession
    <3>3. session'[p].owned
      <4>1. session' = [session EXCEPT ![p].owned = TRUE,
              ![p].status = IF @ = "ready" THEN @ ELSE "connecting"]
        BY <2>4 DEF Recreate
      <4> QED
        BY <1>0, <3>1, <4>1 DEF Session
    <3>4. revived \subseteq revived' /\ (WasDeactivated => p \in revived')
      BY <2>4 DEF Recreate, Revives
    <3> QED
      BY <2>1, <3>1, <3>2, <3>3, <3>4 DEF SessionsGone
  <2>5. ASSUME NEW p \in Phone, ReadyWrites(p)
        PROVE  SessionsGone'
    <3>1. /\ session'[p].owned = session[p].owned /\ session'[p].phone
          /\ \A q \in Phone \ {p} : session'[q] = session[q]
      BY <1>0, <2>5, ReadySession
    <3>2. /\ revived \subseteq revived'
          /\ ~session[p].owned => p \in revived'
      BY <2>5 DEF ReadyWrites, Revives
    <3> QED
      BY <2>1, <3>1, <3>2 DEF SessionsGone
  <2>6. CASE \E p \in Phone : ReadyReads(p)
    BY <2>2, <2>3, <2>6 DEF ReadyReads, Status
  <2>7. CASE \E p \in Phone : Lose(p)
    BY <2>2, <2>3, <2>7 DEF Lose, Disconnected, Status, removal
  <2>8. CASE \E c \in Call : Disconnect(c)
    <3>1. PICK c \in Call : Disconnect(c)
      BY <2>8
    <3>2. CASE UNCHANGED session
      BY <2>2, <3>1, <3>2 DEF Disconnect
    <3>3. CASE /\ session[call[c].phone].status # "none"
               /\ session' = [session EXCEPT ![call[c].phone].status
                                             = "disconnected"]
      <4>1. CASE call[c].phone \in Phone
        BY <2>3, <3>1, <3>3, <4>1 DEF Disconnect, Status
      <4>2. CASE call[c].phone \notin Phone
        <5>1. session' = session
          BY <1>0, <3>3, <4>2
        <5> QED  BY <3>2, <5>1
      <4> QED  BY <4>1, <4>2
    <3> QED
      BY <3>1, <3>2, <3>3 DEF Disconnect, Disconnected
  <2> QED
    BY <1>2, <2>2, <2>4, <2>5, <2>6, <2>7, <2>8 DEF Next, Remove, Update, Qr,
       Event, AskRemove, RedactFrom, RedactTo, Erase, RemoveFails, AskUpdate,
       WriteUpdate, AskByPhone, AskQr, StartClient, Tell, WriteConnection,
       Reconnect, ReadyTells, Handle, Store, HandleCall, removal
<1> QED
  BY <1>1, <1>2

-----------------------------------------------------------------------------
\* The clients.

LEMMA ClientsGoneStep ==
  ASSUME TypeInv, ClientsGone, Next
  PROVE  ClientsGone'
<1>0. client \subseteq Phone /\ client' \subseteq Phone
  <2>1. TypeInv'
    BY TypeInvStep
  <2> QED  BY <2>1 DEF TypeInv, TypeOK
<1>1. ASSUME NEW d \in Call, call'[d].at \in PastDisconnect,
             call'[d].phone \in client'
      PROVE  \/ call[d].at \in PastDisconnect /\ call'[d].phone = call[d].phone
             \/ /\ Disconnect(d) /\ call'[d].phone = call[d].phone
  BY <1>0, <1>1, NextCases, RemovalPasses, RequestsPassNothing, CallsKept
<1>2. ASSUME NEW c \in Call, Disconnect(c)
      PROVE  ClientsGone'
  <2> DEFINE p == call[c].phone
  <2>1. \/ client' = client \ {p} /\ UNCHANGED stray
        \/ p \in client /\ stray' = stray \cup {p} /\ UNCHANGED client
    BY <1>2 DEF Disconnect
  <2>2. Remove(c)
    BY <1>2 DEF Remove
  <2>3. ASSUME NEW d \in Call, call'[d].at \in PastDisconnect,
               call'[d].phone \in client'
        PROVE  call'[d].phone \in stray'
    <3>1. /\ call'[d].phone = call[d].phone
          /\ call[d].at \in PastDisconnect \/ d = c
      BY <1>0, <2>2, <2>3, RemovalPasses
    <3> QED
      BY <2>1, <2>3, <3>1 DEF ClientsGone
  <2> QED
    BY <2>3 DEF ClientsGone
<1>3. CASE ~\E c \in Call : Disconnect(c)
  <2>1. CASE client' \subseteq client /\ UNCHANGED stray
    BY <1>1, <1>3, <2>1 DEF ClientsGone
  <2>2. ASSUME NEW p, client' = client \cup {p}, Strays(p)
        PROVE  ClientsGone'
    BY <1>1, <1>3, <2>2 DEF ClientsGone, Strays, WasDisconnected, Past
  <2> QED
    BY <1>3, <2>1, <2>2 DEF Next, Remove, Update, Qr, Event, AskRemove,
       RedactFrom, RedactTo, Deactivate, Erase, RemoveFails, AskUpdate,
       WriteUpdate, AskByPhone, AskQr, Recreate, StartClient, Tell,
       WriteConnection, Reconnect, ReadyReads, ReadyWrites, ReadyTells, Lose,
       Handle, Store, HandleCall, removal
<1> QED
  BY <1>2, <1>3
-----------------------------------------------------------------------------
\* The documents.

DocsGone == SenderInFrom /\ FromGone /\ ToGone

LEMMA DocsKept ==
  ASSUME TypeInv, DocsGone, Next, UNCHANGED <<docs, late>>,
         ~\E c \in Call : RedactFrom(c) \/ RedactTo(c)
  PROVE  DocsGone'
<1>1. ASSUME NEW d \in Call, call'[d].at \in PastFrom, call'[d].phone \in Phone
      PROVE  /\ call[d].at \in PastFrom /\ call'[d].phone = call[d].phone
             /\ call'[d].at \in PastTo => call[d].at \in PastTo
  BY <1>1, NextCases, RemovalPasses, RequestsPassNothing, CallsKept, Stages
<1>2. PastTo \subseteq PastFrom
  BY Stages
<1>3. SenderInFrom'
  BY DEF DocsGone, SenderInFrom
<1>4. FromGone'
  BY <1>1 DEF DocsGone, FromGone
<1>5. ToGone'
  BY <1>1, <1>2 DEF DocsGone, ToGone
<1> QED
  BY <1>3, <1>4, <1>5 DEF DocsGone

LEMMA RedactFromDocs ==
  ASSUME TypeInv, DocsGone, NEW c \in Call, RedactFrom(c)
  PROVE  DocsGone'
<1> USE RemovalAssumption
<1> DEFINE p == call[c].phone
           hit(m) == docs[m].at = "stored" /\ p \in {docs[m].from, docs[m].fromNumber}
<1>1. ASSUME NEW m \in Msg
      PROVE  /\ docs'[m].at = docs[m].at
             /\ docs'[m].to = docs[m].to /\ docs'[m].toNumber = docs[m].toNumber
             /\ hit(m) => /\ docs'[m].from = c /\ docs'[m].fromNumber = c
                          /\ docs'[m].contact = NoPhone /\ ~docs'[m].info
             /\ ~hit(m) => docs'[m] = docs[m]
  <2>1. docs'[m] = IF hit(m)
                     THEN [docs[m] EXCEPT !.from = c, !.fromNumber = c,
                                          !.contact = NoPhone, !.info = FALSE]
                     ELSE docs[m]
    BY <1>1 DEF RedactFrom, Redacted
  <2>2. docs[m] \in Doc /\ c \in Side
    BY DEF TypeInv, TypeOK, Side
  <2>3. CASE hit(m)
    <3>0. PICK d \in Doc : d = docs[m]
      BY <2>2
    <3>1. docs'[m] = [d EXCEPT !.from = c, !.fromNumber = c,
                               !.contact = NoPhone, !.info = FALSE]
      BY <2>1, <2>3, <3>0, Zenon
    <3>2. /\ docs'[m].at = docs[m].at
          /\ docs'[m].from = c /\ docs'[m].fromNumber = c
          /\ docs'[m].contact = NoPhone /\ docs'[m].info = FALSE
          /\ docs'[m].to = docs[m].to /\ docs'[m].toNumber = docs[m].toNumber
      BY <2>2, <3>0, <3>1 DEF Doc
    <3> QED
      BY <2>3, <3>2
  <2>4. CASE ~hit(m)
    BY <2>1, <2>4
  <2> QED  BY <2>3, <2>4
<1>2. UNCHANGED late /\ Remove(c)
  BY DEF RedactFrom, removal, Remove
<1>3. ASSUME NEW d \in Call, call'[d].at \in PastFrom, call'[d].phone \in Phone
      PROVE  /\ call'[d].phone = call[d].phone
             /\ call[d].at \in PastFrom \/ d = c
             /\ call'[d].at \in PastTo => call[d].at \in PastTo
  <2>1. call[c].at = "redactFrom"
    BY DEF RedactFrom
  <2> QED
    BY <1>2, <1>3, <2>1, RemovalPasses, Stages DEF RedactTo
<1>4. SenderInFrom'
  <2> SUFFICES ASSUME NEW m \in Msg
               PROVE  /\ docs'[m].contact # NoPhone => docs'[m].from = docs'[m].contact
                      /\ docs'[m].info => docs'[m].from = m.chat
                      /\ docs'[m].at = "unseen" =>
                           docs'[m].from = (IF m.inbound THEN m.chat ELSE m.session)
    BY DEF SenderInFrom
  <2>1. CASE hit(m)
    BY <1>1, <2>1
  <2>2. CASE ~hit(m)
    BY <1>1, <2>2 DEF DocsGone, SenderInFrom
  <2> QED  BY <2>1, <2>2
<1>5. FromGone'
  <2> SUFFICES ASSUME NEW d \in Call, NEW m \in Msg \ late,
                      call'[d].at \in PastFrom, call'[d].phone \in Phone,
                      docs'[m].at = "stored"
               PROVE  LET q == call'[d].phone IN
                      /\ docs'[m].from # q /\ docs'[m].fromNumber # q
                      /\ docs'[m].contact # q
                      /\ docs'[m].info => m.chat # q
    BY <1>2 DEF FromGone
  <2>1. CASE hit(m)
    BY <1>1, <2>1 DEF Party
  <2>2. CASE ~hit(m)
    <3>1. docs'[m] = docs[m] /\ call'[d].phone = call[d].phone
      BY <1>1, <1>3, <2>2
    <3>2. call'[d].phone # NoPhone
      BY DEF Party
    <3>3. CASE call[d].at \in PastFrom
      BY <3>1, <3>3 DEF DocsGone, FromGone
    <3>4. CASE d = c
      BY <2>2, <3>1, <3>2, <3>4 DEF DocsGone, SenderInFrom
    <3> QED  BY <1>3, <3>3, <3>4
  <2> QED  BY <2>1, <2>2
<1>6. ToGone'
  <2>1. PastTo \subseteq PastFrom
    BY Stages
  <2> QED
    BY <1>1, <1>2, <1>3, <2>1 DEF DocsGone, ToGone
<1> QED
  BY <1>4, <1>5, <1>6 DEF DocsGone

LEMMA RedactToDocs ==
  ASSUME TypeInv, DocsGone, NEW c \in Call, RedactTo(c)
  PROVE  DocsGone'
<1> USE RemovalAssumption
<1> DEFINE p == call[c].phone
           hit(m) == docs[m].at = "stored" /\ p \in {docs[m].to, docs[m].toNumber}
<1>1. ASSUME NEW m \in Msg
      PROVE  /\ docs'[m].at = docs[m].at /\ docs'[m].info = docs[m].info
             /\ docs'[m].from = docs[m].from
             /\ docs'[m].fromNumber = docs[m].fromNumber
             /\ docs'[m].contact = docs[m].contact
             /\ hit(m) => docs'[m].to = c /\ docs'[m].toNumber = c
             /\ ~hit(m) => docs'[m] = docs[m]
  <2>1. docs'[m] = IF hit(m)
                     THEN [docs[m] EXCEPT !.to = c, !.toNumber = c]
                     ELSE docs[m]
    BY <1>1 DEF RedactTo, Redacted
  <2>2. docs[m] \in Doc /\ c \in Side
    BY DEF TypeInv, TypeOK, Side
  <2>3. CASE hit(m)
    <3>0. PICK d \in Doc : d = docs[m]
      BY <2>2
    <3>1. docs'[m] = [d EXCEPT !.to = c, !.toNumber = c]
      BY <2>1, <2>3, <3>0, Zenon
    <3>2. /\ docs'[m].at = docs[m].at /\ docs'[m].info = docs[m].info
          /\ docs'[m].from = docs[m].from
          /\ docs'[m].fromNumber = docs[m].fromNumber
          /\ docs'[m].contact = docs[m].contact
          /\ docs'[m].to = c /\ docs'[m].toNumber = c
      BY <2>2, <3>0, <3>1 DEF Doc
    <3> QED
      BY <2>3, <3>2
  <2>4. CASE ~hit(m)
    BY <2>1, <2>4
  <2> QED  BY <2>3, <2>4
<1>2. UNCHANGED late /\ Remove(c)
  BY DEF RedactTo, removal, Remove
<1>3. ASSUME NEW d \in Call, call'[d].at \in PastFrom, call'[d].phone \in Phone
      PROVE  /\ call'[d].phone = call[d].phone
             /\ call[d].at \in PastFrom
             /\ call'[d].at \in PastTo => call[d].at \in PastTo \/ d = c
  <2>1. call[c].at = "redactTo"
    BY DEF RedactTo
  <2> QED
    BY <1>2, <1>3, <2>1, RemovalPasses, Stages
<1>4. SenderInFrom'
  BY <1>1 DEF DocsGone, SenderInFrom
<1>5. FromGone'
  BY <1>1, <1>2, <1>3 DEF DocsGone, FromGone
<1>6. ToGone'
  <2> SUFFICES ASSUME NEW d \in Call, NEW m \in Msg \ late,
                      call'[d].at \in PastTo, call'[d].phone \in Phone,
                      docs'[m].at = "stored"
               PROVE  docs'[m].to # call'[d].phone /\ docs'[m].toNumber # call'[d].phone
    BY <1>2 DEF ToGone
  <2>0. call'[d].phone = call[d].phone /\ (call[d].at \in PastTo \/ d = c)
    BY <1>3, Stages
  <2>1. CASE hit(m)
    BY <1>1, <2>1 DEF Party
  <2>2. CASE ~hit(m)
    BY <1>1, <2>0, <2>2 DEF DocsGone, ToGone
  <2> QED  BY <2>1, <2>2
<1> QED
  BY <1>4, <1>5, <1>6 DEF DocsGone

LEMMA MessageDocs ==
  ASSUME TypeInv, DocsGone, NEW m \in Msg, Message(m)
  PROVE  DocsGone'
<1> USE RemovalAssumption
<1>0. docs \in [Msg -> Doc] /\ call' = call /\ docs[m] \in Doc
  BY CallsKept DEF TypeInv, TypeOK
<1>1. ASSUME NEW d \in Doc, docs' = [docs EXCEPT ![m] = d],
             d.contact # NoPhone => d.from = d.contact,
             d.info => d.from = m.chat,
             d.at # "unseen",
             late \subseteq late',
             d.at = "stored" => Writes(m)
      PROVE  DocsGone'
  <2>1. docs'[m] = d /\ \A n \in Msg \ {m} : docs'[n] = docs[n]
    BY <1>0, <1>1
  <2>2. SenderInFrom'
    BY <1>1, <2>1 DEF DocsGone, SenderInFrom
  <2>3. ASSUME d.at = "stored", m \notin late'
        PROVE  \A c \in Call : call[c].at \notin PastFrom
    BY <1>1, <2>3 DEF Writes, Past
  <2>4. PastTo \subseteq PastFrom
    BY Stages
  <2>5. FromGone'
    BY <1>0, <1>1, <2>1, <2>3 DEF DocsGone, FromGone
  <2>6. ToGone'
    BY <1>0, <1>1, <2>1, <2>3, <2>4 DEF DocsGone, ToGone
  <2> QED
    BY <2>2, <2>5, <2>6 DEF DocsGone
<1>2. CASE Handle(m)
  <2> DEFINE d == [docs[m] EXCEPT !.at = "handled", !.info = Registered(m)]
  <2>1. Registered(m) \in BOOLEAN
    BY Zenon DEF Registered
  <2>2. docs' = [docs EXCEPT ![m] = d] /\ docs[m].at = "unseen" /\ late' = late
    BY <1>2 DEF Handle, removal
  <2>3. /\ d \in Doc /\ d.at = "handled" /\ d.info = Registered(m)
        /\ d.contact = docs[m].contact /\ d.from = docs[m].from
    <3>1. PICK e \in Doc : e = docs[m]
      BY <1>0
    <3>2. PICK i \in BOOLEAN : i = Registered(m)
      BY <2>1
    <3>3. d = [e EXCEPT !.at = "handled", !.info = i]
      BY <3>1, <3>2, Zenon
    <3> HIDE DEF d
    <3> QED
      BY <3>1, <3>2, <3>3 DEF Doc
  <2>4. Registered(m) => docs[m].from = m.chat
    BY <2>2 DEF Registered, DocsGone, SenderInFrom
  <2>5. docs[m].contact # NoPhone => docs[m].from = docs[m].contact
    BY DEF DocsGone, SenderInFrom
  <2> HIDE DEF d
  <2> QED
    BY <1>1, <2>2, <2>3, <2>4, <2>5
<1>3. CASE Store(m)
  <2> DEFINE d == [docs[m] EXCEPT !.at = "stored"]
  <2>1. docs' = [docs EXCEPT ![m] = d] /\ Writes(m)
    BY <1>3 DEF Store
  <2>2. /\ d \in Doc /\ d.at = "stored" /\ d.info = docs[m].info
        /\ d.contact = docs[m].contact /\ d.from = docs[m].from
    BY <1>0 DEF Doc
  <2>3. late \subseteq late'
    BY <2>1 DEF Writes
  <2>4. /\ docs[m].contact # NoPhone => docs[m].from = docs[m].contact
        /\ docs[m].info => docs[m].from = m.chat
    BY DEF DocsGone, SenderInFrom
  <2> HIDE DEF d
  <2> QED
    BY <1>1, <2>1, <2>2, <2>3, <2>4
<1>4. CASE HandleCall(m)
  <2>1. PICK d \in CallDocuments(m) : docs' = [docs EXCEPT ![m] = d] /\ Writes(m)
    BY <1>4 DEF HandleCall
  <2>2. late \subseteq late'
    BY <2>1 DEF Writes
  <2>3. d.at = "stored" /\ d.contact = NoPhone /\ ~d.info
    BY DEF CallDocuments
  <2>4. d \in Doc
    <3>1. TypeInv'
      BY <1>4, MessageTypes
    <3>2. docs'[m] \in Doc /\ docs'[m] = d
      BY <1>0, <2>1, <3>1 DEF TypeInv, TypeOK
    <3> QED  BY <3>2
  <2> QED
    BY <1>1, <2>1, <2>2, <2>3, <2>4
<1> QED
  BY <1>2, <1>3, <1>4 DEF Message

LEMMA DocsGoneStep ==
  ASSUME TypeInv, DocsGone, Next
  PROVE  DocsGone'
<1>1. CASE \E c \in Call : RedactFrom(c) \/ RedactTo(c)
  BY <1>1, RedactFromDocs, RedactToDocs
<1>2. CASE \E m \in Msg : Message(m)
  BY <1>2, MessageDocs
<1>3. CASE /\ ~\E c \in Call : RedactFrom(c) \/ RedactTo(c)
           /\ ~\E m \in Msg : Message(m)
  <2>1. UNCHANGED <<docs, late>>
    BY <1>3 DEF Next, Message, Remove, Update, Qr, Event, AskRemove, Disconnect,
       Deactivate, Erase, RemoveFails, AskUpdate, WriteUpdate, AskByPhone,
       AskQr, Recreate, StartClient, Tell, WriteConnection, Reconnect,
       ReadyReads, ReadyWrites, ReadyTells, Lose, removal
  <2> QED
    BY <1>3, <2>1, DocsKept
<1> QED
  BY <1>1, <1>2, <1>3

-----------------------------------------------------------------------------
RemovalInv == TypeInv /\ UserGone /\ SessionsGone /\ ClientsGone /\ DocsGone

LEMMA InitGone == Init => RemovalInv
<1> SUFFICES ASSUME Init PROVE RemovalInv
  OBVIOUS
<1>1. user.active
  BY DEF Init
<1>2. \A c \in Call : call[c].at = "unused"
  BY DEF Init
<1>3. UserGone
  BY <1>1 DEF UserGone
<1>4. SessionsGone
  <2>1. \A p \in Phone : session[p].phone => session[p].owned
    BY DEF Init, NoSession
  <2> QED
    BY <1>2, <2>1, Stages DEF SessionsGone, WasDeactivated, Past
<1>5. ClientsGone
  BY <1>2, Stages DEF ClientsGone
<1>6. DocsGone
  <2>1. \A m \in Msg : docs[m] = Document(m, "unseen")
    BY DEF Init
  <2>2. SenderInFrom
    <3> SUFFICES ASSUME NEW m \in Msg
                 PROVE  /\ docs[m].contact # NoPhone =>
                             docs[m].from = docs[m].contact
                        /\ docs[m].info => docs[m].from = m.chat
                        /\ docs[m].from = (IF m.inbound THEN m.chat ELSE m.session)
      BY DEF SenderInFrom
    <3>1. docs[m] = Document(m, "unseen")
      BY <2>1
    <3>2. docs[m].contact = (IF m.inbound THEN m.chat ELSE NoPhone)
      BY <3>1 DEF Document, ContactPhone
    <3>3. docs[m].info = FALSE
      BY <3>1 DEF Document
    <3>4. docs[m].from = (IF m.inbound THEN m.chat ELSE m.session)
      BY <3>1 DEF Document
    <3> QED
      BY <3>2, <3>3, <3>4
  <2> QED
    BY <1>2, <2>2, Stages DEF DocsGone, FromGone, ToGone
<1> QED
  BY <1>3, <1>4, <1>5, <1>6, InitTypes DEF RemovalInv

LEMMA RemovalInvStep ==
  ASSUME RemovalInv, [Next]_vars
  PROVE  RemovalInv'
<1>1. CASE UNCHANGED vars
  BY <1>1 DEF vars, RemovalInv, TypeInv, TypeOK, RequestsHaveNumber, UserGone,
     SessionsGone, WasDeactivated, Past, ClientsGone, DocsGone, SenderInFrom,
     FromGone, ToGone
<1>2. CASE Next
  BY <1>2, TypeInvStep, UserGoneStep, SessionsGoneStep, ClientsGoneStep,
     DocsGoneStep DEF RemovalInv
<1> QED
  BY <1>1, <1>2

LEMMA GoneIsGone ==
  ASSUME RemovalInv
  PROVE  NameGone
<1> USE RemovalAssumption
<1> SUFFICES ASSUME ~user.active PROVE NameGone
  BY DEF NameGone
<1>1. \A q \in Gone : \E c \in Call : call[c].at = "removed" /\ q = call[c].phone
  BY DEF Gone, Past
<1>2. ASSUME NEW q \in Gone, q # NoPhone
      PROVE  q \in Phone
  BY <1>1, <1>2 DEF RemovalInv, TypeInv, TypeOK
<1>3. ASSUME NEW m \in Msg \ late, docs[m].at = "stored"
      PROVE  /\ docs[m].from \notin Gone /\ docs[m].fromNumber \notin Gone
             /\ docs[m].to \notin Gone /\ docs[m].toNumber \notin Gone
             /\ docs[m].contact \notin Gone \ {NoPhone}
             /\ docs[m].info => m.chat \notin Gone
  <2>1. docs[m] \in Doc /\ m.chat \in Party
    BY DEF RemovalInv, TypeInv, TypeOK
  <2>2. NoPhone \notin Side
    BY DEF Side
  <2>3. /\ docs[m].from # NoPhone /\ docs[m].fromNumber # NoPhone
        /\ docs[m].to # NoPhone /\ docs[m].toNumber # NoPhone
        /\ m.chat # NoPhone
    BY <2>1, <2>2 DEF Doc, Side
  <2>4. ASSUME NEW q \in Gone, q \in Phone
        PROVE  /\ docs[m].from # q /\ docs[m].fromNumber # q
               /\ docs[m].to # q /\ docs[m].toNumber # q
               /\ docs[m].contact # q
               /\ docs[m].info => m.chat # q
    BY <1>1, <1>3, <2>4, Stages DEF RemovalInv, DocsGone, FromGone, ToGone
  <2> QED
    BY <1>2, <2>3, <2>4
<1>4. WasDeactivated
  BY Stages DEF RemovalInv, UserGone, WasDeactivated, Past
<1>5. client \cap Gone \subseteq stray
  BY <1>1, Stages DEF RemovalInv, ClientsGone
<1> QED
  BY <1>3, <1>4, <1>5 DEF NameGone, RemovalInv, UserGone, SessionsGone

\* When a removal has gone through, the user's number is gone from the user,
\* the stored messages, the sessions and the clients, but for what was written
\* by a request, an event or a handler that was under way (USV 1883, W 488).
THEOREM NumberGone == Spec => []NameGone
<1>1. RemovalInv /\ [Next]_vars => RemovalInv'
  BY RemovalInvStep
<1>2. RemovalInv => NameGone
  BY GoneIsGone
<1> QED
  BY InitGone, <1>1, <1>2, PTL DEF Spec
=============================================================================
