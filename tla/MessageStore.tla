---------------------------- MODULE MessageStore ----------------------------
(***************************************************************************)
(* How the WhatsApp messages and calls of one session become documents of  *)
(* the messages collection and counts of the session: handleIncomingMessage*)
(* handleOutgoingMessage, handleCallEvent and handleMessageAck.  None of   *)
(* the collection's indexes is unique, and handlers of different events,   *)
(* and of the same event seen by two clients, overlap at every await.      *)
(***************************************************************************)
EXTENDS FiniteSets, Functions, Naturals

CONSTANTS Msg,        \* messages and calls of the session, by whatsappMessageId
          Inbound,    \* those that others sent
          Call,       \* those that are calls
          Twin,       \* pairs with the same from, to and body, sent at most 5
                      \* seconds apart
          Slot,       \* bound: handlers that run at a time
          NoMsg,
          MaxEvents,  \* bound: how often the event of one message is emitted
                      \* (two clients, history after a reconnect)
          MaxAcks     \* bound: how many acks of one message are emitted

ASSUME StoreAssumption ==
  /\ Inbound \subseteq Msg /\ Call \subseteq Msg
  /\ Twin \subseteq (Msg \ Call) \X (Msg \ Call)
  /\ \A m, n \in Msg : <<m, n>> \in Twin => <<n, m>> \in Twin
  /\ IsFiniteSet(Slot) /\ IsFiniteSet(Msg)
  /\ NoMsg \notin Msg
  /\ MaxEvents \in Nat /\ MaxAcks \in Nat

VARIABLES
  docs,      \* number of documents with the message's id
  status,    \* status of the one that findOneAndUpdate finds
  moved,     \* its sentAt is no longer the message's timestamp
  received,  \* messagesReceived of the session
  sent,      \* messagesSent
  delivered, \* messagesDelivered
  failed,    \* messagesFailed
  events, acks,  \* events emitted for each message
  job, stage     \* what each running handler works on, and where it is

storeVars == <<docs, status, moved>>
countVars == <<received, sent, delivered, failed>>
eventVars == <<events, acks>>
vars == <<docs, status, moved, received, sent, delivered, failed, events,
          acks, job, stage>>

MessageStatus == {"pending", "sent", "delivered", "read", "failed"}

Stage == {"idle", "byId", "byContent", "preparing", "updating", "counting",
          "countDelivered", "countFailed"}

Init ==
  /\ docs = [m \in Msg |-> 0]
  /\ status = [m \in Msg |-> "none"]
  /\ moved = [m \in Msg |-> FALSE]
  /\ received = 0 /\ sent = 0 /\ delivered = 0 /\ failed = 0
  /\ events = [m \in Msg |-> 0] /\ acks = [m \in Msg |-> 0]
  /\ job = [s \in Slot |-> NoMsg] /\ stage = [s \in Slot |-> "idle"]

-----------------------------------------------------------------------------
Goto(s, point) == stage' = [stage EXCEPT ![s] = point] /\ UNCHANGED job

\* The handler returns.
Return(s) == /\ job' = [job EXCEPT ![s] = NoMsg]
             /\ stage' = [stage EXCEPT ![s] = "idle"]

\* A message, message_create or call event reaches its handler, which finds
\* the session.  A message without body, media or call log is not stored and
\* is left out here.
Event(s, m) ==
  /\ stage[s] = "idle" /\ events[m] < MaxEvents
  /\ events' = [events EXCEPT ![m] = @ + 1]
  /\ job' = [job EXCEPT ![s] = m]
  /\ stage' = [stage EXCEPT ![s] = "byId"]
  /\ UNCHANGED <<storeVars, countVars, acks>>

\* Mutant of FindById: the id is looked up, the result is not used.
FindByIdIgnored(s) ==
  /\ stage[s] = "byId"
  /\ Goto(s, IF job[s] \in Call THEN "preparing" ELSE "byContent")
  /\ UNCHANGED <<storeVars, countVars, eventVars>>

\* Is a document with this id there already?  A message is dropped then, a
\* call is updated.
FindById(s) ==
  /\ stage[s] = "byId"
  /\ IF docs[job[s]] = 0
       THEN Goto(s, IF job[s] \in Call THEN "preparing" ELSE "byContent")
       ELSE IF job[s] \in Call THEN Goto(s, "updating") ELSE Return(s)
  /\ UNCHANGED <<storeVars, countVars, eventVars>>

\* Mutant of FindByContent: no look for twins.
FindByContentSkipped(s) ==
  /\ stage[s] = "byContent"
  /\ Goto(s, "preparing")
  /\ UNCHANGED <<storeVars, countVars, eventVars>>

\* The documents of m itself, or of one with the same participants and
\* content that was sent within five seconds.
SameContent(m) == {n \in Msg : docs[n] > 0 /\ (n = m \/ <<m, n>> \in Twin)}

\* Is there such a document?  One whose sentAt was overwritten may be out of
\* the window.
FindByContent(s) ==
  /\ stage[s] = "byContent"
  /\ \/ SameContent(job[s]) # {} /\ Return(s)
     \/ (\A n \in SameContent(job[s]) : moved[n]) /\ Goto(s, "preparing")
  /\ UNCHANGED <<storeVars, countVars, eventVars>>

\* The status of a new document.
NewStatus(m) == IF m \in Inbound THEN "delivered" ELSE "sent"

\* Mutant of Create: the document has no status.
CreateWithoutStatus(s) ==
  /\ stage[s] = "preparing"
  /\ docs' = [docs EXCEPT ![job[s]] = @ + 1]
  /\ Goto(s, "counting")
  /\ UNCHANGED <<status, moved, countVars, eventVars>>

\* Entity, media and contacts are looked up; then the document is created.
Create(s) ==
  /\ stage[s] = "preparing"
  /\ docs' = [docs EXCEPT ![job[s]] = @ + 1]
  /\ status' = [status EXCEPT ![job[s]] =
                  IF docs[job[s]] > 0 THEN @ ELSE NewStatus(job[s])]
  /\ Goto(s, "counting")
  /\ UNCHANGED <<moved, countVars, eventVars>>

\* A call that is there is overwritten, its status included; nothing is
\* counted.
UpdateCall(s) ==
  /\ stage[s] = "updating"
  /\ status' = [status EXCEPT ![job[s]] = NewStatus(job[s])]
  /\ Return(s)
  /\ UNCHANGED <<docs, moved, countVars, eventVars>>

\* Mutant of CountMessage: received and sent are swapped for calls.
CountMessageAsReceived(s) ==
  /\ stage[s] = "counting"
  /\ received' = received + 1
  /\ Return(s)
  /\ UNCHANGED <<storeVars, sent, delivered, failed, eventVars>>

\* The session's statistics.
CountMessage(s) ==
  /\ stage[s] = "counting"
  /\ IF job[s] \in Inbound THEN received' = received + 1 /\ UNCHANGED sent
                           ELSE sent' = sent + 1 /\ UNCHANGED received
  /\ Return(s)
  /\ UNCHANGED <<storeVars, delivered, failed, eventVars>>

\* Any await may throw; the handler logs the error and returns.
Fails(s) ==
  /\ stage[s] # "idle"
  /\ Return(s)
  /\ UNCHANGED <<storeVars, countVars, eventVars>>

-----------------------------------------------------------------------------
\* handleMessageAck: one update of the document, if it is there, and then,
\* whether it is or not, of the session's statistics.
Ack(s, m, to) ==
  /\ stage[s] = "idle" /\ acks[m] < MaxAcks
  /\ m \notin Inbound /\ m \notin Call
  /\ acks' = [acks EXCEPT ![m] = @ + 1]
  /\ IF docs[m] > 0
       THEN /\ status' = [status EXCEPT ![m] = to]
            /\ moved' = [moved EXCEPT ![m] = @ \/ to = "sent"]
       ELSE UNCHANGED <<status, moved>>
  /\ IF to \in {"delivered", "failed"}
       THEN /\ job' = [job EXCEPT ![s] = m]
            /\ stage' = [stage EXCEPT ![s] =
                 IF to = "delivered" THEN "countDelivered" ELSE "countFailed"]
       ELSE UNCHANGED <<job, stage>>
  /\ UNCHANGED <<docs, countVars, events>>

CountAck(s) ==
  /\ \/ /\ stage[s] = "countDelivered"
        /\ delivered' = delivered + 1 /\ UNCHANGED failed
     \/ /\ stage[s] = "countFailed"
        /\ failed' = failed + 1 /\ UNCHANGED delivered
  /\ Return(s)
  /\ UNCHANGED <<storeVars, received, sent, eventVars>>

-----------------------------------------------------------------------------
Next ==
  \E s \in Slot :
    \/ \E m \in Msg : Event(s, m) \/ \E to \in MessageStatus : Ack(s, m, to)
    \/ FindById(s) \/ FindByContent(s) \/ Create(s) \/ UpdateCall(s)
    \/ CountMessage(s) \/ CountAck(s) \/ Fails(s)

Spec == Init /\ [][Next]_vars

-----------------------------------------------------------------------------
\* Types.
TypeOK ==
  /\ docs \in [Msg -> Nat]
  /\ status \in [Msg -> MessageStatus \cup {"none"}]
  /\ moved \in [Msg -> BOOLEAN]
  /\ received \in Nat /\ sent \in Nat /\ delivered \in Nat /\ failed \in Nat
  /\ events \in [Msg -> 0..MaxEvents] /\ acks \in [Msg -> 0..MaxAcks]
  /\ job \in [Slot -> Msg \cup {NoMsg}] /\ stage \in [Slot -> Stage]
  /\ \A s \in Slot : stage[s] = "idle" <=> job[s] = NoMsg
  /\ \A m \in Msg : docs[m] = 0 <=> status[m] = "none"

\* The handlers that have found no document of m and will store one.
Storing(m) ==
  {s \in Slot : job[s] = m /\ stage[s] \in {"byContent", "preparing"}}

\* "Check if message already exists by whatsappMessageId": a message that is
\* received again (second client, history after a reconnect, retry after an
\* error) is stored again only by handlers that overlapped with the first:
\* with k handlers at a time no message has more than k documents, however
\* often its event comes; with one there is never a second.
DuplicatesNeedOverlap ==
  \A m \in Msg :
    docs[m] > 0 => docs[m] + Cardinality(Storing(m)) <= Cardinality(Slot)

\* The handlers that have stored one of ms and have yet to count it.
Counting(ms) == {s \in Slot : job[s] \in ms /\ stage[s] = "counting"}

\* The session's counts never run ahead of the stored documents: whatever
\* fails between the document and its count, and however the handlers
\* interleave, nothing is counted twice, in the wrong direction, or unstored.
CountersCovered ==
  /\ received + Cardinality(Counting(Inbound)) <= SumFunctionOnSet(docs, Inbound)
  /\ sent + Cardinality(Counting(Msg \ Inbound))
       <= SumFunctionOnSet(docs, Msg \ Inbound)

\* The handlers that are past both look-ups for one of ms.
Preparing(ms) == {s \in Slot : job[s] \in ms /\ stage[s] = "preparing"}

\* "Check for duplicate by content": of two messages with the same
\* participants and body, sent within five seconds, one document is stored,
\* or as many as handlers overlapped, unless an ack moved a stored sentAt.
TwinsNeedOverlap ==
  \A p \in Twin :
    /\ ~moved[p[1]] /\ ~moved[p[2]] /\ p[1] # p[2]
    /\ docs[p[1]] + docs[p[2]] > 0
    => docs[p[1]] + docs[p[2]] + Cardinality(Preparing({p[1], p[2]}))
         <= Cardinality(Slot)
=============================================================================
