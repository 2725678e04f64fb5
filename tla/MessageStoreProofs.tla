------------------------- MODULE MessageStoreProofs -------------------------
(***************************************************************************)
(* Proofs about MessageStore, for any messages, handlers and bounds: the   *)
(* types, how many documents overlapping handlers may store of a message   *)
(* or of two alike, and that the session's counters never exceed what is   *)
(* stored.                                                                 *)
(***************************************************************************)
EXTENDS MessageStore, FiniteSetTheorems, WellFoundedInduction, TLAPS

\* A call is updated only where a document of it was found.
UpdatesFound == \A s \in Slot : stage[s] = "updating" => docs[job[s]] > 0

\* A step stores nothing new, or one more document of the message m that the
\* handler s worked on, which then no longer stores it.
Adds(s, m) ==
  /\ s \in Slot /\ m \in Msg /\ s \in Storing(m)
  /\ docs' = [docs EXCEPT ![m] = @ + 1]
  /\ s \notin Storing(m)'
  /\ \A n \in Msg : Storing(n)' \subseteq Storing(n)

\* The handlers that store a message are finitely many.
LEMMA StoringFinite ==
  ASSUME NEW m, NEW T \in SUBSET Storing(m)
  PROVE  /\ IsFiniteSet(T) /\ Cardinality(T) \in Nat
         /\ Cardinality(T) <= Cardinality(Slot)
<1>1. T \subseteq Slot
  BY DEF Storing
<1> QED
  BY <1>1, StoreAssumption, FS_Subset, FS_CardinalityType

\* What one handler's step does to the types.
LEMMA TypeStep == TypeOK /\ UpdatesFound /\ [Next]_vars => TypeOK'
<1> SUFFICES ASSUME TypeOK, UpdatesFound, [Next]_vars PROVE TypeOK'
  OBVIOUS
<1> USE StoreAssumption DEF TypeOK, MessageStatus, Stage
<1>1. CASE UNCHANGED vars
  BY <1>1 DEF vars
<1> SUFFICES ASSUME NEW s \in Slot,
                    \/ \E m \in Msg : Event(s, m) \/ \E to \in MessageStatus : Ack(s, m, to)
                    \/ FindById(s) \/ FindByContent(s) \/ Create(s)
                    \/ UpdateCall(s) \/ CountMessage(s) \/ CountAck(s) \/ Fails(s)
             PROVE  TypeOK'
  BY <1>1 DEF Next
<1> USE DEF Goto, Return, storeVars, countVars, eventVars
<1>2. CASE \E m \in Msg : Event(s, m)
  BY <1>2 DEF Event
<1>3. CASE \E m \in Msg : \E to \in MessageStatus : Ack(s, m, to)
  <2> PICK m \in Msg, to \in MessageStatus : Ack(s, m, to)
    BY <1>3
  <2> DEFINE AckTypes == /\ status' \in [Msg -> MessageStatus \cup {"none"}]
                         /\ moved' \in [Msg -> BOOLEAN]
                         /\ \A n \in Msg : docs[n] = 0 <=> status'[n] = "none"
  <2>1. ASSUME docs[m] > 0 PROVE AckTypes
    <3>1. status' = [status EXCEPT ![m] = to]
      BY <2>1 DEF Ack
    <3>2. moved' = [moved EXCEPT ![m] = @ \/ to = "sent"]
      BY <2>1 DEF Ack
    <3>3. moved' \in [Msg -> BOOLEAN]
      BY <3>2, Zenon
    <3>4. status' \in [Msg -> MessageStatus \cup {"none"}]
      BY <3>1
    <3>5. \A n \in Msg : docs[n] = 0 <=> status'[n] = "none"
      BY <2>1, <3>1
    <3> QED
      BY <3>3, <3>4, <3>5
  <2>2. ASSUME ~(docs[m] > 0) PROVE AckTypes
    <3>1. UNCHANGED <<status, moved>>
      BY <2>2 DEF Ack
    <3> QED
      BY <3>1
  <2>3. acks' \in [Msg -> 0..MaxAcks] /\ UNCHANGED <<docs, countVars, events>>
    BY DEF Ack
  <2>4. /\ job' \in [Slot -> Msg \cup {NoMsg}] /\ stage' \in [Slot -> Stage]
        /\ \A t \in Slot : stage'[t] = "idle" <=> job'[t] = NoMsg
    BY DEF Ack
  <2> QED
    BY <2>1, <2>2, <2>3, <2>4
<1>4. CASE FindById(s) \/ FindByContent(s)
  BY <1>4 DEF FindById, FindByContent
<1>5. CASE Create(s)
  BY <1>5 DEF Create, NewStatus
<1>6. CASE UpdateCall(s)
  BY <1>6 DEF UpdateCall, UpdatesFound, NewStatus
<1>7. CASE CountMessage(s) \/ CountAck(s) \/ Fails(s)
  BY <1>7 DEF CountMessage, CountAck, Fails
<1> QED
  BY <1>2, <1>3, <1>4, <1>5, <1>6, <1>7

\* Documents are only ever added, and a call keeps the one it was found by.
LEMMA UpdatesStep == TypeOK /\ UpdatesFound /\ [Next]_vars => UpdatesFound'
<1> SUFFICES ASSUME TypeOK, UpdatesFound, [Next]_vars,
                    NEW t \in Slot, stage'[t] = "updating"
             PROVE  docs'[job'[t]] > 0
  BY DEF UpdatesFound
<1> USE DEF TypeOK, UpdatesFound
<1>1. CASE UNCHANGED vars
  BY <1>1 DEF vars
<1>2. ASSUME NEW s \in Slot, NEW m \in Msg, Event(s, m)
      PROVE  docs'[job'[t]] > 0
  BY <1>2 DEF Event, storeVars
<1>3. ASSUME NEW s \in Slot, NEW m \in Msg, NEW to \in MessageStatus, Ack(s, m, to)
      PROVE  docs'[job'[t]] > 0
  BY <1>3 DEF Ack
<1>4. ASSUME NEW s \in Slot, FindById(s) \/ FindByContent(s)
      PROVE  docs'[job'[t]] > 0
  BY <1>4 DEF FindById, FindByContent, Goto, Return, storeVars
<1>5. ASSUME NEW s \in Slot, Create(s)
      PROVE  docs'[job'[t]] > 0
  BY <1>5 DEF Create, Goto
<1>6. ASSUME NEW s \in Slot,
             UpdateCall(s) \/ CountMessage(s) \/ CountAck(s) \/ Fails(s)
      PROVE  docs'[job'[t]] > 0
  BY <1>6 DEF UpdateCall, CountMessage, CountAck, Fails, Return, storeVars
<1> QED
  BY <1>1, <1>2, <1>3, <1>4, <1>5, <1>6 DEF Next

\* The only step that stores is Create; the only one that makes a handler
\* store finds no document.
LEMMA StoresOrNot ==
  ASSUME TypeOK, [Next]_vars
  PROVE  \/ /\ docs' = docs
            /\ \A n \in Msg : docs[n] > 0 => Storing(n)' \subseteq Storing(n)
         \/ \E s \in Slot, m \in Msg : Adds(s, m)
<1> USE DEF TypeOK
<1> DEFINE Same == /\ docs' = docs
                   /\ \A n \in Msg : docs[n] > 0 => Storing(n)' \subseteq Storing(n)
<1>1. CASE UNCHANGED vars
  BY <1>1 DEF vars, Storing
<1>2. ASSUME NEW s \in Slot, NEW m \in Msg, Event(s, m)
      PROVE  Same
  BY <1>2 DEF Event, Storing, storeVars
<1>3. ASSUME NEW s \in Slot, NEW m \in Msg, NEW to \in MessageStatus, Ack(s, m, to)
      PROVE  Same
  BY <1>3 DEF Ack, Storing
<1>4. ASSUME NEW s \in Slot, FindById(s) \/ FindByContent(s)
      PROVE  Same
  BY <1>4 DEF FindById, FindByContent, Goto, Return, storeVars, Storing
<1>5. ASSUME NEW s \in Slot, Create(s)
      PROVE  \E m \in Msg : Adds(s, m)
  <2>1. job[s] \in Msg /\ s \in Storing(job[s])
    BY <1>5 DEF Create, Storing
  <2>2. s \notin Storing(job[s])'
    BY <1>5 DEF Create, Goto, Storing
  <2>3. ASSUME NEW n \in Msg PROVE Storing(n)' \subseteq Storing(n)
    BY <1>5 DEF Create, Goto, Storing
  <2> QED
    <3>1. docs' = [docs EXCEPT ![job[s]] = @ + 1]
      BY <1>5 DEF Create
    <3>2. Adds(s, job[s])
      BY <2>1, <2>2, <2>3, <3>1 DEF Adds
    <3> QED
      BY <2>1, <3>2
<1>6. ASSUME NEW s \in Slot,
             UpdateCall(s) \/ CountMessage(s) \/ CountAck(s) \/ Fails(s)
      PROVE  Same
  BY <1>6 DEF UpdateCall, CountMessage, CountAck, Fails, Return, storeVars, Storing
<1> QED
  BY <1>1, <1>2, <1>3, <1>4, <1>5, <1>6 DEF Next

\* Documents and the handlers that will store add up to no more than all
\* handlers, and no step changes that.
LEMMA OverlapStep ==
  TypeOK /\ DuplicatesNeedOverlap /\ [Next]_vars => DuplicatesNeedOverlap'
<1> SUFFICES ASSUME TypeOK, DuplicatesNeedOverlap, [Next]_vars,
                    NEW n \in Msg, docs'[n] > 0
             PROVE  docs'[n] + Cardinality(Storing(n)') <= Cardinality(Slot)
  BY DEF DuplicatesNeedOverlap
<1>1. docs[n] \in Nat /\ Cardinality(Slot) \in Nat
  BY StoreAssumption, FS_CardinalityType DEF TypeOK
<1>2. IsFiniteSet(Storing(n)) /\ Cardinality(Storing(n)) \in Nat
  BY StoringFinite
<1>3. ASSUME docs'[n] = docs[n], Storing(n)' \subseteq Storing(n)
      PROVE  docs'[n] + Cardinality(Storing(n)') <= Cardinality(Slot)
  <2>1. Cardinality(Storing(n)') <= Cardinality(Storing(n))
    BY <1>2, <1>3, FS_Subset
  <2>2. Cardinality(Storing(n)') \in Nat
    BY <1>3, StoringFinite
  <2>3. docs[n] + Cardinality(Storing(n)) <= Cardinality(Slot)
    BY <1>3 DEF DuplicatesNeedOverlap
  <2> QED
    BY <1>1, <1>2, <1>3, <2>1, <2>2, <2>3
<1>4. ASSUME NEW s \in Slot, Adds(s, n)
      PROVE  docs'[n] + Cardinality(Storing(n)') <= Cardinality(Slot)
  <2>1. docs'[n] = docs[n] + 1
    BY <1>4 DEF Adds, TypeOK
  <2>2. Cardinality(Storing(n)') \in Nat
    BY <1>4, StoringFinite DEF Adds
  <2>3. CASE docs[n] = 0
    <3>1. Storing(n)' \subseteq Slot \ {s}
      BY <1>4 DEF Adds, Storing
    <3>2. /\ IsFiniteSet(Slot \ {s})
          /\ Cardinality(Slot \ {s}) = Cardinality(Slot) - 1
      BY <1>4, StoreAssumption, FS_RemoveElement
    <3>3. Cardinality(Storing(n)') <= Cardinality(Slot \ {s})
      BY <3>1, <3>2, FS_Subset
    <3> QED
      BY <1>1, <2>1, <2>2, <2>3, <3>2, <3>3
  <2>4. CASE docs[n] > 0
    <3>1. Storing(n)' \subseteq Storing(n) \ {s} /\ s \in Storing(n)
      BY <1>4 DEF Adds
    <3>2. /\ IsFiniteSet(Storing(n) \ {s})
          /\ Cardinality(Storing(n) \ {s}) = Cardinality(Storing(n)) - 1
      BY <3>1, <1>2, FS_RemoveElement
    <3>3. Cardinality(Storing(n)') <= Cardinality(Storing(n) \ {s})
      BY <3>1, <3>2, FS_Subset
    <3>4. docs[n] + Cardinality(Storing(n)) <= Cardinality(Slot)
      BY <2>4 DEF DuplicatesNeedOverlap
    <3> QED
      BY <1>1, <1>2, <2>1, <2>2, <3>2, <3>3, <3>4
  <2> QED
    BY <1>1, <2>3, <2>4
<1>5. CASE \E s \in Slot, m \in Msg : Adds(s, m)
  <2> PICK s \in Slot, m \in Msg : Adds(s, m)
    BY <1>5
  <2>1. CASE m = n
    BY <1>4, <2>1
  <2>2. CASE m # n
    BY <1>3, <2>2 DEF Adds, TypeOK
  <2> QED
    BY <2>1, <2>2
<1>6. CASE /\ docs' = docs
           /\ \A k \in Msg : docs[k] > 0 => Storing(k)' \subseteq Storing(k)
  BY <1>3, <1>6
<1> QED
  BY <1>5, <1>6, StoresOrNot

\* All three hold at the start.
LEMMA StoreInvInit == Init => TypeOK /\ UpdatesFound /\ DuplicatesNeedOverlap
BY StoreAssumption
   DEF Init, TypeOK, UpdatesFound, DuplicatesNeedOverlap, MessageStatus, Stage

\* The documents, counts and handlers keep their types; a document has a
\* status exactly when it exists.
THEOREM StoreTypeCorrect == Spec => []TypeOK
<1>1. TypeOK /\ UpdatesFound /\ [Next]_vars => (TypeOK /\ UpdatesFound)'
  BY TypeStep, UpdatesStep
<1> QED
  BY <1>1, StoreInvInit, PTL DEF Spec

\* With k handlers at a time, no message ever has more than k documents,
\* however often its event is emitted and whatever fails: duplicates come from
\* overlapping handlers only.
THEOREM DuplicatesBounded == Spec => []DuplicatesNeedOverlap
BY StoreTypeCorrect, StoreInvInit, OverlapStep, PTL DEF Spec

-----------------------------------------------------------------------------
\* Messages with the same content.

\* The documents of m and n together.
Copies(m, n) == docs[m] + docs[n]

\* A step adds a document of m or n, by a handler that was preparing it.
Copied(s, m, n) ==
  /\ s \in Preparing({m, n}) /\ s \notin Preparing({m, n})'
  /\ Preparing({m, n})' \subseteq Preparing({m, n})
  /\ Copies(m, n)' = Copies(m, n) + 1

\* Once m or n is stored unmoved, the look-up by content lets no other handler
\* of the two pass.
LEMMA TwinStores ==
  ASSUME TypeOK, [Next]_vars,
         NEW m \in Msg, NEW n \in Msg, <<m, n>> \in Twin, m # n,
         ~moved'[m], ~moved'[n]
  PROVE  \/ /\ Copies(m, n)' = Copies(m, n)
            /\ Copies(m, n) > 0 => Preparing({m, n})' \subseteq Preparing({m, n})
         \/ \E s \in Slot : Copied(s, m, n)
<1> USE DEF TypeOK
<1> DEFINE Same == /\ Copies(m, n)' = Copies(m, n)
                   /\ Copies(m, n) > 0
                        => Preparing({m, n})' \subseteq Preparing({m, n})
<1>0. m \notin Call /\ n \notin Call /\ <<n, m>> \in Twin
  BY StoreAssumption
<1>1. CASE UNCHANGED vars
  BY <1>1 DEF vars, Preparing, Copies
<1>2. ASSUME NEW s \in Slot, NEW k \in Msg, Event(s, k)
      PROVE  Same
  BY <1>2 DEF Event, Preparing, storeVars, Copies
<1>3. ASSUME NEW s \in Slot, NEW k \in Msg, NEW to \in MessageStatus, Ack(s, k, to)
      PROVE  Same
  BY <1>3 DEF Ack, Preparing, Copies
<1>4. ASSUME NEW s \in Slot, FindById(s)
      PROVE  Same
  BY <1>0, <1>4 DEF FindById, Goto, Return, storeVars, Preparing, Copies
<1>5. ASSUME NEW s \in Slot, FindByContent(s)
      PROVE  Same
  <2>1. docs' = docs /\ moved' = moved /\ Copies(m, n)' = Copies(m, n)
    BY <1>5 DEF FindByContent, storeVars, Copies
  <2>2. CASE Return(s)
    BY <2>1, <2>2 DEF Return, Preparing
  <2>3. CASE Goto(s, "preparing") /\ job[s] \notin {m, n}
    BY <2>1, <2>3 DEF Goto, Preparing
  <2>4. CASE /\ \A k \in SameContent(job[s]) : moved[k]
             /\ job[s] \in {m, n}
    <3>1. m \notin SameContent(job[s]) /\ n \notin SameContent(job[s])
      BY <2>1, <2>4
    <3>2. ~(docs[m] > 0) /\ ~(docs[n] > 0)
      BY <1>0, <2>4, <3>1 DEF SameContent
    <3>3. Copies(m, n) = 0
      BY <3>2 DEF Copies
    <3> QED
      BY <2>1, <3>3
  <2>5. Return(s) \/ /\ \A k \in SameContent(job[s]) : moved[k]
                     /\ Goto(s, "preparing")
    BY <1>5 DEF FindByContent
  <2> QED
    BY <2>2, <2>3, <2>4, <2>5
<1>6. ASSUME NEW s \in Slot, Create(s), job[s] \in {m, n}
      PROVE  Copied(s, m, n)
  <2>1. s \in Preparing({m, n}) /\ s \notin Preparing({m, n})'
    BY <1>6 DEF Create, Goto, Preparing
  <2>2. Preparing({m, n})' \subseteq Preparing({m, n})
    BY <1>6 DEF Create, Goto, Preparing
  <2>3. Copies(m, n)' = Copies(m, n) + 1
    BY <1>6 DEF Create, Copies
  <2> QED
    BY <2>1, <2>2, <2>3 DEF Copied
<1>7. ASSUME NEW s \in Slot, Create(s), job[s] \notin {m, n}
      PROVE  Same
  BY <1>7 DEF Create, Goto, Preparing, Copies
<1>8. ASSUME NEW s \in Slot,
             UpdateCall(s) \/ CountMessage(s) \/ CountAck(s) \/ Fails(s)
      PROVE  Same
  BY <1>8 DEF UpdateCall, CountMessage, CountAck, Fails, Return, storeVars,
              Preparing, Copies
<1> QED
  BY <1>1, <1>2, <1>3, <1>4, <1>5, <1>6, <1>7, <1>8 DEF Next

\* An ack's overwritten sentAt is never put back.
LEMMA MovedStays ==
  ASSUME TypeOK, [Next]_vars, NEW m \in Msg, moved[m]
  PROVE  moved'[m]
<1> USE DEF TypeOK
<1>1. ASSUME NEW s \in Slot, NEW k \in Msg, NEW to \in MessageStatus, Ack(s, k, to)
      PROVE  moved'[m]
  <2>1. CASE UNCHANGED moved
    BY <2>1
  <2>2. CASE moved' = [moved EXCEPT ![k] = @ \/ to = "sent"]
    BY <2>2, Zenon
  <2> QED
    BY <1>1, <2>1, <2>2 DEF Ack
<1>2. ASSUME NEW s \in Slot, NEW k \in Msg, Event(s, k)
      PROVE  moved'[m]
  BY <1>2 DEF Event, storeVars
<1>3. ASSUME NEW s \in Slot, \/ FindById(s) \/ FindByContent(s) \/ Create(s)
                             \/ UpdateCall(s) \/ CountMessage(s) \/ CountAck(s)
                             \/ Fails(s)
      PROVE  moved'[m]
  BY <1>3 DEF FindById, FindByContent, Create, UpdateCall, CountMessage,
              CountAck, Fails, storeVars
<1> QED
  BY <1>1, <1>2, <1>3 DEF Next, vars

\* The copies of two twins, and the handlers preparing more, add up to no more
\* than all handlers, and no step changes that.
LEMMA TwinStep ==
  TypeOK /\ TwinsNeedOverlap /\ [Next]_vars => TwinsNeedOverlap'
<1> DEFINE Bound(m, n) ==
      Copies(m, n) + Cardinality(Preparing({m, n})) <= Cardinality(Slot)
<1> SUFFICES ASSUME TypeOK, TwinsNeedOverlap, [Next]_vars,
                    NEW m \in Msg, NEW n \in Msg, <<m, n>> \in Twin, m # n,
                    ~moved'[m], ~moved'[n], Copies(m, n)' > 0
             PROVE  Bound(m, n)'
  <2>1. ASSUME NEW p \in Twin PROVE p[1] \in Msg /\ p[2] \in Msg /\ p = <<p[1], p[2]>>
    BY StoreAssumption
  <2> QED
    BY <2>1 DEF TwinsNeedOverlap, Copies
<1>1. Copies(m, n) \in Nat /\ Cardinality(Slot) \in Nat
  BY StoreAssumption, FS_CardinalityType DEF TypeOK, Copies
<1>2. /\ IsFiniteSet(Preparing({m, n})) /\ Cardinality(Preparing({m, n})) \in Nat
      /\ Cardinality(Preparing({m, n})) <= Cardinality(Slot)
  <2>1. Preparing({m, n}) \subseteq Slot
    BY DEF Preparing
  <2> QED
    BY <2>1, StoreAssumption, FS_Subset, FS_CardinalityType
<1>3. ASSUME Copies(m, n) > 0 PROVE Bound(m, n)
  <2>1. ~moved[m] /\ ~moved[n]
    BY MovedStays
  <2>2. <<m, n>>[1] = m /\ <<m, n>>[2] = n
    OBVIOUS
  <2> QED
    BY <1>3, <2>1, <2>2 DEF TwinsNeedOverlap, Copies
<1>4. CASE /\ Copies(m, n)' = Copies(m, n)
           /\ Copies(m, n) > 0 => Preparing({m, n})' \subseteq Preparing({m, n})
  <2>1. Copies(m, n) > 0
    BY <1>4
  <2>2. Cardinality(Preparing({m, n})') <= Cardinality(Preparing({m, n}))
    BY <1>2, <1>4, <2>1, FS_Subset
  <2>3. Cardinality(Preparing({m, n})') \in Nat
    BY <1>2, <1>4, <2>1, FS_Subset, FS_CardinalityType
  <2> QED
    BY <1>1, <1>2, <1>3, <1>4, <2>1, <2>2, <2>3
<1>5. ASSUME NEW s \in Slot, Copied(s, m, n)
      PROVE  Bound(m, n)'
  <2>1. Preparing({m, n})' \subseteq Preparing({m, n}) \ {s}
    BY <1>5 DEF Copied
  <2>2. /\ IsFiniteSet(Preparing({m, n}) \ {s})
        /\ Cardinality(Preparing({m, n}) \ {s}) = Cardinality(Preparing({m, n})) - 1
    BY <1>2, <1>5, FS_RemoveElement DEF Copied
  <2>3. /\ Cardinality(Preparing({m, n})') <= Cardinality(Preparing({m, n})) - 1
        /\ Cardinality(Preparing({m, n})') \in Nat
    <3>1. /\ IsFiniteSet(Preparing({m, n})')
          /\ Cardinality(Preparing({m, n})')
               <= Cardinality(Preparing({m, n}) \ {s})
      BY <2>1, <2>2, FS_Subset
    <3>2. Cardinality(Preparing({m, n})') \in Nat
      BY <3>1, FS_CardinalityType
    <3> QED
      BY <2>2, <3>1, <3>2
  <2>4. Copies(m, n)' = Copies(m, n) + 1
    BY <1>5 DEF Copied
  <2>5. CASE Copies(m, n) = 0
    BY <1>1, <1>2, <2>3, <2>4, <2>5
  <2>6. CASE Copies(m, n) > 0
    BY <1>1, <1>2, <1>3, <2>3, <2>4, <2>6
  <2> QED
    BY <1>1, <2>5, <2>6
<1> QED
  BY <1>4, <1>5, TwinStores

\* Of two messages with the same participants and body, sent within five
\* seconds, as many documents are stored as handlers overlapped, and no more:
\* one handler at a time stores one of the two, once.
THEOREM TwinsBounded == Spec => []TwinsNeedOverlap
<1>1. Init => TwinsNeedOverlap
  BY StoreAssumption DEF Init, TwinsNeedOverlap
<1>2. TypeOK /\ TwinsNeedOverlap /\ [Next]_vars => TwinsNeedOverlap'
  BY TwinStep
<1> QED
  BY <1>1, <1>2, StoreTypeCorrect, PTL DEF Spec

-----------------------------------------------------------------------------
\* Sums over sets of messages.

\* Sets of numbers have a least element.
LEMMA LeastOf ==
  ASSUME NEW T \in SUBSET Nat, T # {}
  PROVE  \E n \in T : \A k \in T : n <= k
<1>1. PICK n \in T : \A k \in T : <<k, n>> \notin OpToRel(<, Nat)
  BY NatLessThanWellFounded, WFMin
<1>2. \A k \in T : ~(k < n)
  BY <1>1 DEF OpToRel
<1> QED
  BY <1>2

\* The element that a fold takes next.
First(s) == CHOOSE x \in s : TRUE

\* The equation of the sum's recursive function.
SumOf(f, g, s) == IF s = {} THEN 0 ELSE f[First(s)] + g[s \ {First(s)}]

Sums(f, S) == CHOOSE g : g = [s \in SUBSET S |-> SumOf(f, g, s)]

\* It is what the community module's sum evaluates.
LEMMA SumsIs ==
  ASSUME NEW f, NEW S
  PROVE  SumFunctionOnSet(f, S) = Sums(f, S)[S]
BY DEF SumFunctionOnSet, FoldFunctionOnSet, MapThenFoldSet, Sums, SumOf, First

\* First is a member of its set.
LEMMA FirstIn == ASSUME NEW s, s # {} PROVE First(s) \in s
BY DEF First

\* A sum function over the subsets of S of at most n elements.
Small(S, n) == {s \in SUBSET S : Cardinality(s) <= n}
Summing(f, S, n, g) ==
  g \in [Small(S, n) -> Nat] /\ \A s \in Small(S, n) : g[s] = SumOf(f, g, s)

\* Without its first member a set is smaller by one.
LEMMA SmallStep ==
  ASSUME NEW S, IsFiniteSet(S), NEW n \in Nat, NEW s \in Small(S, n + 1), s # {}
  PROVE  First(s) \in s /\ s \ {First(s)} \in Small(S, n)
<1>1. First(s) \in s /\ s \in SUBSET S /\ Cardinality(s) <= n + 1
  BY FirstIn DEF Small
<1>2. IsFiniteSet(s) /\ Cardinality(s) \in Nat
  BY <1>1, FS_Subset, FS_CardinalityType
<1>3. Cardinality(s \ {First(s)}) = Cardinality(s) - 1
  BY <1>1, <1>2, FS_RemoveElement
<1> QED
  BY <1>1, <1>2, <1>3 DEF Small

\* The recursion of the sum has a value at every subset.
LEMMA SummingExists ==
  ASSUME NEW S, IsFiniteSet(S), NEW f, \A x \in S : f[x] \in Nat, NEW n \in Nat
  PROVE  \E g : Summing(f, S, n, g)
<1> DEFINE T == {k \in Nat : ~ \E g : Summing(f, S, k, g)}
<1> SUFFICES ASSUME T # {} PROVE FALSE
  OBVIOUS
<1>1. PICK k \in T : \A j \in T : k <= j
  <2>1. T \in SUBSET Nat
    OBVIOUS
  <2> HIDE DEF T
  <2> QED
    BY <2>1, LeastOf
<1>2. CASE k = 0
  <2>1. \A s \in Small(S, 0) : s = {}
    <3>1. SUFFICES ASSUME NEW s \in Small(S, 0) PROVE s = {}
      OBVIOUS
    <3>2. IsFiniteSet(s) /\ Cardinality(s) <= 0
      BY FS_Subset DEF Small
    <3> QED
      BY <3>2, FS_CardinalityType, FS_EmptySet
  <2> DEFINE g == [s \in Small(S, 0) |-> 0]
  <2>2. Summing(f, S, 0, g)
    BY <2>1 DEF Summing, SumOf
  <2> QED
    BY <1>2, <2>2
<1>3. CASE k # 0
  <2>1. k - 1 \in Nat /\ k - 1 \notin T
    BY <1>1, <1>3
  <2>2. PICK g : Summing(f, S, k - 1, g)
    BY <2>1
  <2> DEFINE h == [s \in Small(S, k) |-> SumOf(f, g, s)]
  <2>3. \A s \in Small(S, k) : s # {} =>
          First(s) \in s /\ s \in SUBSET S /\ s \ {First(s)} \in Small(S, k - 1)
    <3>1. k = (k - 1) + 1
      BY <1>3
    <3>2. \A s \in Small(S, k) : s \in SUBSET S
      BY DEF Small
    <3> QED
      BY <2>1, <3>1, <3>2, SmallStep
  <2>4. Small(S, k - 1) \subseteq Small(S, k)
    <3>1. \A s \in SUBSET S : Cardinality(s) \in Nat
      BY FS_Subset, FS_CardinalityType
    <3> QED
      BY <2>1, <3>1 DEF Small
  <2>5. h \in [Small(S, k) -> Nat]
    BY <2>2, <2>3 DEF Summing, SumOf
  <2>6. ASSUME NEW s \in Small(S, k), s # {}
        PROVE  h[s \ {First(s)}] = g[s \ {First(s)}]
    <3>1. s \ {First(s)} \in Small(S, k - 1) /\ s \ {First(s)} \in Small(S, k)
      BY <2>3, <2>4, <2>6
    <3> QED
      BY <2>2, <3>1 DEF Summing
  <2>7. \A s \in Small(S, k) : h[s] = SumOf(f, h, s)
    BY <2>6 DEF SumOf
  <2>8. Summing(f, S, k, h)
    BY <2>5, <2>7 DEF Summing
  <2> QED
    BY <2>8
<1> QED
  BY <1>2, <1>3

\* The recursive function of a sum satisfies its equation.
LEMMA SumsDefined ==
  ASSUME NEW S, IsFiniteSet(S), NEW f, \A x \in S : f[x] \in Nat
  PROVE  /\ Sums(f, S) \in [SUBSET S -> Nat]
         /\ \A s \in SUBSET S : Sums(f, S)[s] = SumOf(f, Sums(f, S), s)
<1>1. PICK n \in Nat : n = Cardinality(S)
  BY FS_CardinalityType
<1>2. Small(S, n) = SUBSET S
  BY <1>1, FS_Subset DEF Small
<1>3. PICK g : Summing(f, S, n, g)
  BY SummingExists
<1>4. g = [s \in SUBSET S |-> SumOf(f, g, s)]
  BY <1>2, <1>3 DEF Summing
<1>5. Sums(f, S) = [s \in SUBSET S |-> SumOf(f, Sums(f, S), s)]
  BY <1>4 DEF Sums
<1>6. \A s \in SUBSET S : Sums(f, S)[s] = SumOf(f, Sums(f, S), s)
  BY <1>5
<1> DEFINE T == {k \in Nat : \E s \in SUBSET S : Cardinality(s) = k
                               /\ Sums(f, S)[s] \notin Nat}
<1>7. T = {}
  <2> SUFFICES ASSUME T # {} PROVE FALSE
    OBVIOUS
  <2>1. PICK k \in T : \A j \in T : k <= j
    <3>1. T \in SUBSET Nat
      OBVIOUS
    <3> HIDE DEF T
    <3> QED
      BY <3>1, LeastOf
  <2>2. PICK s \in SUBSET S : Cardinality(s) = k /\ Sums(f, S)[s] \notin Nat
    OBVIOUS
  <2>3. s # {}
    <3>1. {} \in SUBSET S /\ SumOf(f, Sums(f, S), {}) = 0
      BY DEF SumOf
    <3>2. Sums(f, S)[{}] = 0
      BY <1>6, <3>1
    <3> QED
      BY <2>2, <3>2
  <2>4. First(s) \in s /\ IsFiniteSet(s)
    BY <2>3, FirstIn, FS_Subset
  <2>5. Cardinality(s \ {First(s)}) = k - 1 /\ k - 1 \in Nat
    <3>1. k = Cardinality(s) /\ k \in Nat
      BY <2>2
    <3>2. /\ IsFiniteSet(s \ {First(s)})
          /\ Cardinality(s \ {First(s)}) = Cardinality(s) - 1
      BY <2>4, FS_RemoveElement
    <3> QED
      BY <3>1, <3>2, FS_CardinalityType
  <2>6. Sums(f, S)[s \ {First(s)}] \in Nat
    BY <2>1, <2>5
  <2>7. Sums(f, S)[s] = f[First(s)] + Sums(f, S)[s \ {First(s)}]
    BY <1>6, <2>3 DEF SumOf
  <2> QED
    BY <2>2, <2>4, <2>6, <2>7
<1>8. \A s \in SUBSET S : Sums(f, S)[s] \in Nat
  BY <1>7, FS_Subset, FS_CardinalityType
<1> QED
  BY <1>5, <1>6, <1>8

\* One more at m is one more in the sum of what m is in, and nothing elsewhere.
LEMMA SumAdds ==
  ASSUME NEW S, IsFiniteSet(S), NEW f, NEW g, NEW m,
         \A x \in S : f[x] \in Nat /\ g[x] = f[x] + (IF x = m THEN 1 ELSE 0)
  PROVE  /\ SumFunctionOnSet(f, S) \in Nat
         /\ SumFunctionOnSet(g, S)
              = SumFunctionOnSet(f, S) + (IF m \in S THEN 1 ELSE 0)
<1> DEFINE F == Sums(f, S)
           G == Sums(g, S)
           More(s) == IF m \in s THEN 1 ELSE 0
           T == {k \in Nat : \E s \in SUBSET S : Cardinality(s) = k
                               /\ G[s] # F[s] + More(s)}
<1>1. /\ F \in [SUBSET S -> Nat] /\ G \in [SUBSET S -> Nat]
      /\ \A s \in SUBSET S : F[s] = SumOf(f, F, s) /\ G[s] = SumOf(g, G, s)
  <2>1. \A x \in S : g[x] \in Nat
    OBVIOUS
  <2> QED
    BY <2>1, SumsDefined
<1> HIDE DEF F, G
<1>2. T = {}
  <2> SUFFICES ASSUME T # {} PROVE FALSE
    OBVIOUS
  <2>1. PICK k \in T : \A j \in T : k <= j
    <3>1. T \in SUBSET Nat
      OBVIOUS
    <3> HIDE DEF T
    <3> QED
      BY <3>1, LeastOf
  <2>2. PICK s \in SUBSET S : Cardinality(s) = k /\ G[s] # F[s] + More(s)
    OBVIOUS
  <2>3. s # {}
    <3>1. {} \in SUBSET S /\ SumOf(f, F, {}) = 0 /\ SumOf(g, G, {}) = 0
      BY DEF SumOf
    <3>2. F[{}] = 0 /\ G[{}] = 0
      BY <1>1, <3>1
    <3> QED
      BY <2>2, <3>2
  <2> DEFINE x == First(s)
             r == s \ {x}
  <2>4. x \in s /\ IsFiniteSet(s) /\ r \in SUBSET S
    BY <2>3, FirstIn, FS_Subset
  <2>5. F[s] = f[x] + F[r] /\ G[s] = g[x] + G[r]
    BY <1>1, <2>3 DEF SumOf
  <2> HIDE DEF x
  <2>6. Cardinality(r) = k - 1 /\ k - 1 \in Nat
    <3>1. k = Cardinality(s) /\ k \in Nat
      BY <2>2
    <3>2. IsFiniteSet(r) /\ Cardinality(r) = Cardinality(s) - 1
      BY <2>4, FS_RemoveElement
    <3> QED
      BY <3>1, <3>2, FS_CardinalityType
  <2>7. G[r] = F[r] + More(r)
    BY <2>1, <2>4, <2>6
  <2>8. f[x] \in Nat /\ F[r] \in Nat
    BY <1>1, <2>4
  <2>9. CASE x = m
    BY <2>2, <2>4, <2>5, <2>7, <2>8, <2>9
  <2>10. CASE x # m
    BY <2>2, <2>4, <2>5, <2>7, <2>8, <2>10
  <2> QED
    BY <2>9, <2>10
<1>3. Cardinality(S) \in Nat
  BY FS_CardinalityType
<1>4. F[S] \in Nat /\ G[S] = F[S] + More(S)
  BY <1>1, <1>2, <1>3
<1> QED
  BY <1>4, SumsIs DEF F, G

-----------------------------------------------------------------------------
\* The counts of the session.

\* A count and the handlers yet to count are covered by the documents: still,
\* when nothing is stored or counted, when a handler counts, and when one stores.
LEMMA CoverKeeps ==
  ASSUME TypeOK, NEW ms \in SUBSET Msg, NEW n \in Nat, NEW k \in Nat,
         n + Cardinality(Counting(ms)) <= SumFunctionOnSet(docs, ms),
         \/ docs' = docs /\ k = n /\ Counting(ms)' \subseteq Counting(ms)
         \/ /\ docs' = docs /\ k = n + 1
            /\ \E s \in Counting(ms) : Counting(ms)' \subseteq Counting(ms) \ {s}
         \/ /\ k = n
            /\ \E s \in Slot, m \in Msg :
                 /\ docs' = [docs EXCEPT ![m] = @ + 1]
                 /\ Counting(ms)' \subseteq
                      Counting(ms) \cup (IF m \in ms THEN {s} ELSE {})
  PROVE  k + Cardinality(Counting(ms)') <= SumFunctionOnSet(docs', ms)
<1> DEFINE C == Counting(ms)
           D == Counting(ms)'
<1>1. IsFiniteSet(C) /\ Cardinality(C) \in Nat /\ IsFiniteSet(ms)
  <2>1. C \subseteq Slot
    BY DEF Counting
  <2> QED
    BY <2>1, StoreAssumption, FS_Subset, FS_CardinalityType
<1>2. IsFiniteSet(D) /\ Cardinality(D) \in Nat
  <2>1. D \subseteq Slot
    BY DEF Counting
  <2> QED
    BY <2>1, StoreAssumption, FS_Subset, FS_CardinalityType
<1>3. SumFunctionOnSet(docs, ms) \in Nat
  <2>1. \A x \in ms : docs[x] \in Nat
    BY DEF TypeOK
  <2>2. SumFunctionOnSet(docs, ms) = Sums(docs, ms)[ms]
    BY SumsIs
  <2>3. Sums(docs, ms) \in [SUBSET ms -> Nat]
    BY <1>1, <2>1, SumsDefined
  <2>4. ms \in SUBSET ms
    OBVIOUS
  <2> QED
    BY <2>2, <2>3, <2>4
<1> HIDE DEF C, D
<1>4. CASE docs' = docs /\ k = n /\ D \subseteq C
  <2>1. Cardinality(D) <= Cardinality(C)
    BY <1>1, <1>4, FS_Subset
  <2> QED
    BY <1>1, <1>2, <1>3, <1>4, <2>1 DEF C, D
<1>5. ASSUME docs' = docs, k = n + 1, NEW s \in C, D \subseteq C \ {s}
      PROVE  k + Cardinality(D) <= SumFunctionOnSet(docs', ms)
  <2>1. IsFiniteSet(C \ {s}) /\ Cardinality(C \ {s}) = Cardinality(C) - 1
    BY <1>1, <1>5, FS_RemoveElement
  <2>2. Cardinality(D) <= Cardinality(C) - 1
    BY <1>5, <2>1, FS_Subset
  <2> QED
    BY <1>1, <1>2, <1>3, <1>5, <2>2 DEF C
<1>6. ASSUME k = n, NEW s \in Slot, NEW m \in Msg,
             docs' = [docs EXCEPT ![m] = @ + 1],
             D \subseteq C \cup (IF m \in ms THEN {s} ELSE {})
      PROVE  k + Cardinality(D) <= SumFunctionOnSet(docs', ms)
  <2>1. \A x \in ms : docs[x] \in Nat
                     /\ docs'[x] = docs[x] + (IF x = m THEN 1 ELSE 0)
    BY <1>6 DEF TypeOK
  <2>2. SumFunctionOnSet(docs', ms)
          = SumFunctionOnSet(docs, ms) + (IF m \in ms THEN 1 ELSE 0)
    BY <1>1, <2>1, SumAdds
  <2>3. Cardinality(D) <= Cardinality(C) + (IF m \in ms THEN 1 ELSE 0)
    <3>1. CASE m \in ms
      <4>1. IsFiniteSet(C \cup {s}) /\ Cardinality(C \cup {s}) \in Nat
            /\ Cardinality(C \cup {s}) <= Cardinality(C) + 1
        <5>1. /\ IsFiniteSet(C \cup {s})
              /\ \/ Cardinality(C \cup {s}) = Cardinality(C)
                 \/ Cardinality(C \cup {s}) = Cardinality(C) + 1
          BY <1>1, FS_AddElement
        <5> QED
          BY <1>1, <5>1
      <4>2. Cardinality(D) <= Cardinality(C \cup {s})
        BY <1>6, <3>1, <4>1, FS_Subset
      <4> QED
        BY <1>1, <1>2, <3>1, <4>1, <4>2
    <3>2. CASE m \notin ms
      <4>1. Cardinality(D) <= Cardinality(C)
        BY <1>1, <1>6, <3>2, FS_Subset
      <4> QED
        BY <1>1, <3>2, <4>1
    <3> QED
      BY <3>1, <3>2
  <2>4. n + Cardinality(C) <= SumFunctionOnSet(docs, ms)
    BY DEF C
  <2>5. k = n
    BY <1>6
  <2>6. PICK d \in {0, 1} : d = IF m \in ms THEN 1 ELSE 0
    OBVIOUS
  <2>7. /\ SumFunctionOnSet(docs', ms) = SumFunctionOnSet(docs, ms) + d
        /\ Cardinality(D) <= Cardinality(C) + d
    BY <2>2, <2>3, <2>6
  <2> QED
    BY <1>1, <1>2, <1>3, <2>4, <2>5, <2>7
<1> QED
  BY <1>4, <1>5, <1>6 DEF C, D

\* The two directions: what others sent, and what the session sent.
Side(b) == IF b THEN Inbound ELSE Msg \ Inbound
Counter(b) == IF b THEN received ELSE sent
Covered(b) ==
  Counter(b) + Cardinality(Counting(Side(b))) <= SumFunctionOnSet(docs, Side(b))

\* Every step keeps both counts covered.
LEMMA CoverStep ==
  ASSUME TypeOK, TypeOK', NEW b \in BOOLEAN, Covered(b), [Next]_vars
  PROVE  Covered(b)'
<1> DEFINE ms == Side(b)
<1>1. ms \in SUBSET Msg /\ Counter(b) \in Nat /\ Counter(b)' \in Nat
  BY StoreAssumption DEF TypeOK, Side, Counter
<1>2. ms' = ms
  BY DEF Side
<1> HIDE DEF ms
<1>3. ASSUME docs' = docs, Counter(b)' = Counter(b), Counting(ms)' \subseteq Counting(ms)
      PROVE  Covered(b)'
  BY <1>1, <1>2, <1>3, CoverKeeps DEF Covered, ms
<1>4. CASE UNCHANGED vars
  BY <1>3, <1>4 DEF vars, Counter, Counting
<1>5. ASSUME NEW s \in Slot, NEW m \in Msg, Event(s, m)
      PROVE  Covered(b)'
  <2>1. Counting(ms)' \subseteq Counting(ms)
    BY <1>5 DEF Event, Counting, TypeOK
  <2>2. docs' = docs /\ Counter(b)' = Counter(b)
    BY <1>5 DEF Event, storeVars, countVars, Counter
  <2> QED
    BY <1>3, <2>1, <2>2
<1>6. ASSUME NEW s \in Slot, NEW m \in Msg, NEW to \in MessageStatus, Ack(s, m, to)
      PROVE  Covered(b)'
  <2>1. Counting(ms)' \subseteq Counting(ms)
    BY <1>6 DEF Ack, Counting, TypeOK
  <2>2. docs' = docs /\ Counter(b)' = Counter(b)
    BY <1>6 DEF Ack, countVars, Counter
  <2> QED
    BY <1>3, <2>1, <2>2
<1>7. ASSUME NEW s \in Slot, \/ FindById(s) \/ FindByContent(s) \/ UpdateCall(s)
                             \/ CountAck(s) \/ Fails(s)
      PROVE  Covered(b)'
  <2>1. Counting(ms)' \subseteq Counting(ms)
    BY <1>7 DEF FindById, FindByContent, UpdateCall, CountAck, Fails, Goto,
                Return, Counting, TypeOK
  <2>2. docs' = docs /\ Counter(b)' = Counter(b)
    BY <1>7 DEF FindById, FindByContent, UpdateCall, CountAck, Fails, storeVars,
                countVars, Counter
  <2> QED
    BY <1>3, <2>1, <2>2
<1>8. ASSUME NEW s \in Slot, Create(s)
      PROVE  Covered(b)'
  <2>1. PICK m \in Msg : m = job[s]
    BY <1>8 DEF Create, TypeOK
  <2>2. docs' = [docs EXCEPT ![m] = @ + 1] /\ Counter(b)' = Counter(b)
    BY <1>8, <2>1 DEF Create, countVars, Counter
  <2>3. Counting(ms)' \subseteq Counting(ms) \cup (IF m \in ms THEN {s} ELSE {})
    BY <1>8, <2>1 DEF Create, Goto, Counting, TypeOK
  <2> QED
    BY <1>1, <1>2, <2>2, <2>3, CoverKeeps DEF Covered, ms
<1>9. ASSUME NEW s \in Slot, CountMessage(s)
      PROVE  Covered(b)'
  <2>1. job[s] \in Msg /\ docs' = docs
    BY <1>9 DEF CountMessage, TypeOK, storeVars
  <2>2. Counting(ms)' \subseteq Counting(ms) \ {s}
    BY <1>9 DEF CountMessage, Return, Counting, TypeOK
  <2>3. CASE job[s] \in ms
    <3>1. s \in Counting(ms)
      BY <1>9, <2>3 DEF CountMessage, Counting
    <3>2. Counter(b)' = Counter(b) + 1
      BY <1>9, <2>1, <2>3 DEF CountMessage, Counter, ms, Side
    <3> QED
      BY <1>1, <1>2, <2>1, <2>2, <3>1, <3>2, CoverKeeps DEF Covered, ms
  <2>4. CASE job[s] \notin ms
    <3>1. Counter(b)' = Counter(b)
      BY <1>9, <2>1, <2>4 DEF CountMessage, Counter, ms, Side
    <3> QED
      BY <1>3, <2>1, <2>2, <3>1
  <2> QED
    BY <2>3, <2>4
<1> QED
  BY <1>4, <1>5, <1>6, <1>7, <1>8, <1>9 DEF Next

\* The session's counts of messages never run ahead of the documents, however
\* many handlers store and count at a time and wherever they fail.
THEOREM CountersAreCovered == Spec => []CountersCovered
<1>1. Init => CountersCovered
  <2> SUFFICES ASSUME Init, NEW ms \in SUBSET Msg
               PROVE  /\ Cardinality(Counting(ms)) = 0
                      /\ 0 <= SumFunctionOnSet(docs, ms)
    BY StoreAssumption DEF Init, CountersCovered
  <2>1. Counting(ms) = {}
    BY DEF Init, Counting
  <2>2. IsFiniteSet(ms)
    BY StoreAssumption, FS_Subset
  <2>3. \A x \in ms : docs[x] \in Nat
    BY DEF Init
  <2>4. Sums(docs, ms) \in [SUBSET ms -> Nat] /\ ms \in SUBSET ms
    BY <2>2, <2>3, SumsDefined
  <2>5. SumFunctionOnSet(docs, ms) \in Nat
    BY <2>4, SumsIs
  <2> QED
    BY <2>1, <2>5, FS_EmptySet
<1>2. CountersCovered <=> Covered(TRUE) /\ Covered(FALSE)
  BY DEF CountersCovered, Covered, Counter, Side
<1>3. TypeOK /\ TypeOK' /\ CountersCovered /\ [Next]_vars => CountersCovered'
  <2> SUFFICES ASSUME TypeOK, TypeOK', CountersCovered, [Next]_vars
               PROVE  CountersCovered'
    OBVIOUS
  <2>1. Covered(TRUE)' /\ Covered(FALSE)'
    BY <1>2, CoverStep
  <2> QED
    BY <2>1 DEF CountersCovered, Covered, Counter, Side
<1> QED
  BY <1>1, <1>3, StoreTypeCorrect, PTL DEF Spec
=============================================================================
