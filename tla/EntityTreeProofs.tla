-------------------------- MODULE EntityTreeProofs --------------------------
(***************************************************************************)
(* Proofs about EntityTree, for any entities: the types and the nesting of *)
(* the rights however many requests overlap, and what needs requests that  *)
(* do not overlap (OneAtATime): no orphans, no cycles but of an entity     *)
(* with itself, and the right levels.                                      *)
(***************************************************************************)
EXTENDS EntityTree, FiniteSetTheorems, WellFoundedInduction, TLAPS

\* An entity that exists manages itself, and its path holds only what exists.
PathsExist ==
  \A e \in Existing : e \in idPath[e] /\ idPath[e] \subseteq Existing

\* What running requests will write to: a new entity is created by one request
\* only, under a parent that existed; the others work on what exists.
RequestsBound ==
  \A o \in Op :
    /\ op[o].at = "creating" =>
         /\ state[op[o].e] = "absent"
         /\ op[o].p # NoParent => op[o].p \in Existing
         /\ \A o2 \in Op \ {o} : op[o2].at = "creating" => op[o2].e # op[o].e
    /\ op[o].at \in {"counting", "removing"} => op[o].e \in Existing

\* The inductive invariant.
TreeInv == TypeOK /\ PathsExist /\ RequestsBound /\ RightsNested

\* The steps that only remember something in a request.
Remembers ==
  /\ UNCHANGED <<state, idPath, tenant>>
  /\ parent' \in [Entity -> Place] /\ level' \in [Entity -> Nat]
  /\ staff' \subseteq Entity
  /\ \E o \in Op, r \in Request :
       /\ op' = [op EXCEPT ![o] = r]
       /\ r.at = "creating" =>
            /\ state[r.e] = "absent"
            /\ r.p # NoParent => r.p \in Existing
            /\ \A o2 \in Op : op[o2].at = "creating" => op[o2].e # r.e
       /\ r.at \in {"counting", "removing"} => r.e \in Existing

\* They keep the invariant.
LEMMA RemembersKeeps == ASSUME TreeInv, Remembers PROVE TreeInv'
<1> USE DEF TreeInv
<1> PICK o \in Op, r \in Request :
       /\ op' = [op EXCEPT ![o] = r]
       /\ r.at = "creating" =>
            /\ state[r.e] = "absent"
            /\ r.p # NoParent => r.p \in Existing
            /\ \A o2 \in Op : op[o2].at = "creating" => op[o2].e # r.e
       /\ r.at \in {"counting", "removing"} => r.e \in Existing
  BY DEF Remembers
<1>1. Existing' = Existing
  BY DEF Remembers, Existing
<1>2. op' \in [Op -> Request]
  BY DEF TypeOK
<1>3. TypeOK'
  BY <1>2 DEF TypeOK, Remembers, Place
<1>4. PathsExist'
  BY <1>1 DEF PathsExist, Remembers
<1>5. RightsNested'
  BY <1>1 DEF RightsNested, Remembers
<1>6. op'[o] = r /\ \A q \in Op \ {o} : op'[q] = op[q]
  BY DEF TypeOK
<1>7. RequestsBound'
  BY <1>1, <1>6 DEF RequestsBound, Remembers
<1> QED
  BY <1>3, <1>4, <1>5, <1>7

\* A request ends with a write to an entity that exists, or moves on.
LEMMA QuietSteps ==
  ASSUME TreeInv, NEW o \in Op,
         \/ MoveReads(o) \/ MoveWrites(o) \/ MoveCollects(o) \/ MoveUpdates(o)
         \/ RemoveCounts(o) \/ UserSaved(o)
  PROVE  Remembers
<1> USE TreeAssumption DEF TreeInv, TypeOK, treeVars, Place
<1> DEFINE e == op[o].e
<1>1. Idle \in Request /\ Idle.at = "idle"
  BY DEF Idle, Request
<1>2. op[o] \in Request
  OBVIOUS
<1>3. CASE MoveReads(o)
  <2>1. op[o].at = "moving" /\ op[o].e \in Entity /\ op[o].p \in Place
    BY <1>2, <1>3 DEF MoveReads, Request
  <2>2. ChildLevel(op[o].p) \in Nat
    BY <2>1 DEF ChildLevel
  <2> DEFINE r == [at |-> "placing", e |-> op[o].e, p |-> op[o].p,
                   level |-> ChildLevel(op[o].p)]
  <2>3. r \in Request /\ r.at = "placing"
    BY <2>1, <2>2 DEF Request
  <2>4. \/ op' = [op EXCEPT ![o] = r]
        \/ op' = [op EXCEPT ![o] = Idle]
    BY <1>3 DEF MoveReads, Does
  <2>5. UNCHANGED <<treeVars, staff>>
    BY <1>3 DEF MoveReads, Does
  <2> QED
    BY <1>1, <2>3, <2>4, <2>5 DEF Remembers
<1>4. CASE MoveWrites(o)
  <2>1. /\ op[o].at = "placing" /\ op[o].e \in Entity /\ op[o].p \in Place
        /\ op[o].level \in Nat
    BY <1>2, <1>4 DEF MoveWrites, Request
  <2> DEFINE r == [at |-> "collecting", e |-> op[o].e]
  <2>2. r \in Request /\ r.at = "collecting"
    BY <2>1 DEF Request
  <2>3. parent' \in [Entity -> Place] /\ level' \in [Entity -> Nat]
    BY <1>4, <2>1 DEF MoveWrites
  <2> QED
    BY <1>4, <2>2, <2>3 DEF Remembers, MoveWrites
<1>5. CASE MoveCollects(o)
  <2>1. \A d \in Descendants(op[o].e) : d \in Entity
    BY DEF Descendants
  <2> DEFINE r == [at |-> "updating",
                   todo |-> {<<d, parent[d]>> : d \in Descendants(op[o].e)}]
  <2>2. r \in Request /\ r.at = "updating"
    BY <2>1 DEF Request
  <2> QED
    BY <1>5, <2>2 DEF Remembers, MoveCollects, Does
<1>6. CASE MoveUpdates(o)
  <2>1. op[o].at = "updating" /\ op[o].todo \subseteq Entity \X Place
    BY <1>2, <1>6 DEF MoveUpdates, Request
  <2>2. CASE Does(o, Idle)
    BY <1>1, <2>2 DEF Remembers, Does
  <2>3. ASSUME NEW t \in op[o].todo,
               level' = [level EXCEPT ![t[1]] = ChildLevel(t[2])],
               op' = [op EXCEPT ![o].todo = @ \ {t}],
               UNCHANGED <<state, parent, idPath, tenant, staff>>
        PROVE  Remembers
    <3>1. t[1] \in Entity /\ t[2] \in Place
      BY <2>1
    <3>2. level' \in [Entity -> Nat]
      BY <2>3, <3>1 DEF ChildLevel
    <3> DEFINE r == [op[o] EXCEPT !.todo = @ \ {t}]
    <3>3. op' = [op EXCEPT ![o] = r]
      BY <2>3
    <3>4. r \in Request /\ r.at = "updating"
      BY <1>2, <2>1 DEF Request
    <3> QED
      BY <2>3, <3>2, <3>3, <3>4 DEF Remembers
  <2> QED
    BY <1>6, <2>2, <2>3 DEF MoveUpdates
<1>7. CASE RemoveCounts(o)
  <2>1. op[o].at = "counting" /\ op[o].e \in Existing /\ op[o].e \in Entity
    BY <1>2, <1>7 DEF RemoveCounts, Request, RequestsBound, Existing
  <2> DEFINE r == [at |-> "removing", e |-> op[o].e]
  <2>2. r \in Request /\ r.at = "removing" /\ r.e \in Existing
    BY <2>1 DEF Request
  <2> QED
    BY <1>1, <1>7, <2>2 DEF Remembers, RemoveCounts, Does
<1>8. CASE UserSaved(o)
  <2>1. op[o].e \in Entity
    BY <1>2, <1>8 DEF UserSaved, Request
  <2> QED
    BY <1>1, <1>8, <2>1 DEF Remembers, UserSaved
<1> QED
  BY <1>3, <1>4, <1>5, <1>6, <1>7, <1>8

\* A request that begins remembers what it has read.
LEMMA FirstSteps ==
  ASSUME TreeInv, NEW o \in Op, NEW by, NEW e \in Entity, NEW p \in Place,
         \/ CreateReads(o, by, e, p) \/ MoveChecks(o, by, e, p)
         \/ RemoveChecks(o, by, e) \/ UserJoins(o, e)
  PROVE  Remembers
<1> USE TreeAssumption DEF TreeInv, TypeOK, treeVars, Place
<1>1. CASE CreateReads(o, by, e, p)
  <2> DEFINE r == [at |-> "creating", e |-> e, p |-> p, level |-> ChildLevel(p)]
  <2>1. ChildLevel(p) \in Nat
    BY DEF ChildLevel
  <2>2. r \in Request
    BY <2>1 DEF Request
  <2>3. /\ state[e] = "absent"
        /\ p # NoParent => p \in Existing
        /\ \A o2 \in Op : op[o2].at = "creating" => op[o2].e # e
    BY <1>1 DEF CreateReads, Active, Existing
  <2>4. op' = [op EXCEPT ![o] = r] /\ UNCHANGED <<treeVars, staff>>
    BY <1>1 DEF CreateReads, Does
  <2>5. r.e = e /\ r.p = p /\ r.at = "creating"
    OBVIOUS
  <2> HIDE DEF r
  <2>6. /\ r.at = "creating" =>
             /\ state[r.e] = "absent"
             /\ r.p # NoParent => r.p \in Existing
             /\ \A o2 \in Op : op[o2].at = "creating" => op[o2].e # r.e
        /\ r.at \in {"counting", "removing"} => r.e \in Existing
    BY <2>3, <2>5
  <2> QED
    BY <2>2, <2>4, <2>6 DEF Remembers
<1>2. CASE MoveChecks(o, by, e, p)
  <2> DEFINE r == [at |-> "moving", e |-> e, p |-> p]
  <2>1. r \in Request /\ r.at = "moving"
    BY DEF Request
  <2> QED
    BY <1>2, <2>1 DEF Remembers, MoveChecks, Does
<1>3. CASE RemoveChecks(o, by, e)
  <2> DEFINE r == [at |-> "counting", e |-> e]
  <2>1. r \in Request /\ r.e \in Existing
    BY <1>3 DEF Request, RemoveChecks, Active, Existing
  <2> QED
    BY <1>3, <2>1 DEF Remembers, RemoveChecks, Does
<1>4. CASE UserJoins(o, e)
  <2> DEFINE r == [at |-> "joining", e |-> e]
  <2>1. r \in Request /\ r.at = "joining"
    BY DEF Request
  <2> QED
    BY <1>4, <2>1 DEF Remembers, UserJoins, Does
<1> QED
  BY <1>1, <1>2, <1>3, <1>4

\* The new entity's path is its parent's with the entity, its tenant the
\* parent's.
LEMMA CreateKeeps == ASSUME TreeInv, NEW o \in Op, CreateSaves(o) PROVE TreeInv'
<1> USE TreeAssumption DEF TreeInv
<1> DEFINE e == op[o].e
           p == op[o].p
<1>1. /\ op[o].at = "creating" /\ e \in Entity /\ p \in Place /\ op[o].level \in Nat
      /\ state[e] = "absent" /\ (p # NoParent => p \in Existing /\ p \in Entity)
  BY DEF CreateSaves, TypeOK, Request, RequestsBound, Place
<1>2. /\ state' = [state EXCEPT ![e] = "active"]
      /\ parent' = [parent EXCEPT ![e] = p]
      /\ idPath' = [idPath EXCEPT ![e] =
                      (IF p = NoParent THEN {} ELSE idPath[p]) \cup {e}]
      /\ tenant' = [tenant EXCEPT ![e] = IF p = NoParent THEN e ELSE tenant[p]]
      /\ level' = [level EXCEPT ![e] = op[o].level]
      /\ op' = [op EXCEPT ![o] = Idle] /\ staff' = staff
  BY DEF CreateSaves
<1>3. Existing' = Existing \cup {e} /\ e \notin Existing
  BY <1>1, <1>2 DEF Existing, TypeOK
<1>4. \A x \in Existing : idPath'[x] = idPath[x] /\ tenant'[x] = tenant[x]
  BY <1>2, <1>3 DEF TypeOK, Existing
<1>5. /\ idPath'[e] = (IF p = NoParent THEN {} ELSE idPath[p]) \cup {e}
      /\ tenant'[e] = IF p = NoParent THEN e ELSE tenant[p]
  BY <1>1, <1>2 DEF TypeOK
<1>6. p # NoParent =>
        /\ p \in idPath[p] /\ idPath[p] \subseteq Existing
        /\ \A a \in idPath[p] : idPath[a] \subseteq idPath[p] /\ tenant[a] = tenant[p]
        /\ tenant[p] \in Entity
  BY <1>1 DEF PathsExist, RightsNested, TypeOK, Existing
<1>7. PathsExist'
  BY <1>3, <1>4, <1>5, <1>6 DEF PathsExist
<1>8. RightsNested'
  <2> SUFFICES ASSUME NEW x \in Existing', NEW a \in idPath'[x]
               PROVE  idPath'[a] \subseteq idPath'[x] /\ tenant'[a] = tenant'[x]
    BY DEF RightsNested
  <2>1. CASE x = e
    <3>1. CASE a = e
      BY <2>1, <3>1
    <3>2. CASE a # e
      <4>1. p # NoParent /\ a \in idPath[p] /\ a \in Existing
        BY <1>5, <1>6, <2>1, <3>2
      <4> QED
        BY <1>4, <1>5, <1>6, <2>1, <4>1
    <3> QED
      BY <3>1, <3>2
  <2>2. CASE x # e
    <3>1. x \in Existing /\ a \in idPath[x] /\ a \in Existing
      BY <1>3, <1>4, <2>2 DEF PathsExist
    <3> QED
      BY <1>4, <3>1 DEF RightsNested
  <2> QED
    BY <2>1, <2>2
<1>9. TypeOK'
  <2>1. state' \in [Entity -> {"absent", "active", "removed"}]
    BY <1>1, <1>2 DEF TypeOK
  <2>2. parent' \in [Entity -> Entity \cup {NoParent}] /\ level' \in [Entity -> Nat]
    BY <1>1, <1>2 DEF TypeOK, Place
  <2>3. idPath' \in [Entity -> SUBSET Entity]
    BY <1>1, <1>2 DEF TypeOK
  <2>4. tenant' \in [Entity -> Entity \cup {NoParent}]
    BY <1>1, <1>2 DEF TypeOK
  <2>5. op' \in [Op -> Request]
    BY <1>2 DEF TypeOK, Request, Idle
  <2>6. \A x \in Entity : state'[x] = "absent" <=> tenant'[x] = NoParent
    BY <1>1, <1>2, <1>6 DEF TypeOK
  <2> QED
    BY <1>2, <2>1, <2>2, <2>3, <2>4, <2>5, <2>6 DEF TypeOK
<1>10. RequestsBound'
  <2>1. op'[o] = Idle /\ \A q \in Op \ {o} : op'[q] = op[q]
    BY <1>2 DEF TypeOK
  <2>2. \A q \in Op \ {o} : op[q].at = "creating" =>
          op[q].e # e /\ op[q].e \in Entity /\ state'[op[q].e] = state[op[q].e]
    BY <1>1, <1>2 DEF RequestsBound, TypeOK, Request
  <2> QED
    BY <1>3, <2>1, <2>2 DEF RequestsBound, Idle
<1> QED
  BY <1>7, <1>8, <1>9, <1>10

\* A removed entity still exists: its path and tenant stay.
LEMMA RemoveKeeps == ASSUME TreeInv, NEW o \in Op, RemoveWrites(o) PROVE TreeInv'
<1> USE DEF TreeInv
<1>1. op[o].at = "removing" /\ op[o].e \in Existing /\ op[o].e \in Entity
  BY DEF RemoveWrites, RequestsBound, Existing
<1>2. /\ state' = [state EXCEPT ![op[o].e] = "removed"]
      /\ op' = [op EXCEPT ![o] = Idle]
      /\ UNCHANGED <<parent, idPath, tenant, level, staff>>
  BY DEF RemoveWrites
<1>3. Existing' = Existing
  BY <1>1, <1>2 DEF Existing, TypeOK
<1>4. \A x \in Entity : state'[x] = "absent" <=> state[x] = "absent"
  BY <1>1, <1>2 DEF TypeOK, Existing
<1>5. op' \in [Op -> Request]
  BY <1>2 DEF TypeOK, Request, Idle
<1>6. TypeOK'
  BY <1>1, <1>2, <1>4, <1>5 DEF TypeOK
<1>7. PathsExist' /\ RightsNested'
  BY <1>2, <1>3 DEF PathsExist, RightsNested
<1>8. op'[o] = Idle /\ \A q \in Op \ {o} : op'[q] = op[q]
  BY <1>2 DEF TypeOK
<1>9. \A q \in Op : op[q].at = "creating" => op[q].e \in Entity
  BY DEF TypeOK, Request
<1>10. RequestsBound'
  BY <1>3, <1>4, <1>8, <1>9 DEF RequestsBound, Idle
<1> QED
  BY <1>6, <1>7, <1>10

\* The invariant holds at the start, and every step keeps it.
LEMMA TreeInvInductive == /\ Init => TreeInv
                          /\ TreeInv /\ [Next]_vars => TreeInv'
<1>1. Init => TreeInv
  BY TreeAssumption
     DEF Init, TreeInv, TypeOK, PathsExist, RequestsBound, RightsNested,
         Existing, Idle, Request
<1>2. ASSUME TreeInv, [Next]_vars PROVE TreeInv'
  <2>1. CASE UNCHANGED vars
    BY <1>2, <2>1
       DEF vars, treeVars, TreeInv, TypeOK, PathsExist, RequestsBound,
           RightsNested, Existing
  <2>2. ASSUME NEW o \in Op, NEW by \in Admin, NEW e \in Entity,
               NEW p \in Entity \cup {NoParent},
               \/ CreateReads(o, by, e, p) \/ MoveChecks(o, by, e, p)
               \/ RemoveChecks(o, by, e) \/ UserJoins(o, e)
        PROVE  TreeInv'
    BY <1>2, <2>2, FirstSteps, RemembersKeeps DEF Place
  <2>3. ASSUME NEW o \in Op,
               \/ MoveReads(o) \/ MoveWrites(o) \/ MoveCollects(o)
               \/ MoveUpdates(o) \/ RemoveCounts(o) \/ UserSaved(o)
        PROVE  TreeInv'
    BY <1>2, <2>3, QuietSteps, RemembersKeeps
  <2>4. ASSUME NEW o \in Op, CreateSaves(o) \/ RemoveWrites(o)
        PROVE  TreeInv'
    BY <1>2, <2>4, CreateKeeps, RemoveKeeps
  <2>5. ASSUME NEW e \in Entity, UsersLeave(e)
        PROVE  TreeInv'
    <3>1. UNCHANGED <<treeVars, op>> /\ staff' \subseteq staff
      BY <2>5 DEF UsersLeave
    <3> QED
      BY <1>2, <3>1
         DEF treeVars, TreeInv, TypeOK, PathsExist, RequestsBound,
             RightsNested, Existing
  <2> QED
    BY <1>2, <2>1, <2>2, <2>3, <2>4, <2>5 DEF Next, Admin
<1> QED
  BY <1>1, <1>2

\* Rights are transitive and stay within one tenant, for any entities and any
\* number of overlapping creations, moves and removals.
THEOREM RightsAreNested == Spec => []RightsNested
<1>1. TreeInv => RightsNested
  BY DEF TreeInv
<1> QED
  BY <1>1, TreeInvInductive, PTL DEF Spec

\* Entities and requests keep their types.
THEOREM TreeTypeCorrect == Spec => []TypeOK
<1>1. TreeInv => TypeOK
  BY DEF TreeInv
<1> QED
  BY <1>1, TreeInvInductive, PTL DEF Spec

-----------------------------------------------------------------------------
\* What getAllDescendants finds.

\* Sets of numbers have a least element.
LEMMA LeastOf ==
  ASSUME NEW T \in SUBSET Nat, T # {}
  PROVE  \E n \in T : \A k \in T : n <= k
<1>1. PICK n \in T : \A k \in T : <<k, n>> \notin OpToRel(<, Nat)
  BY NatLessThanWellFounded, WFMin
<1>2. \A k \in T : ~(k < n)
  BY <1>1 DEF OpToRel
<1> QED
  BY <1>2

\* One level further down.
Under(X) == X \cup {c \in Entity : Active(c) /\ parent[c] \in X}

\* The equation of the function that goes down, and the function.
Level(e, f, n) == IF n = 0 THEN Children(e) ELSE Under(f[n - 1])
Depths == 0..Cardinality(Entity)
Down(e) == CHOOSE f : f = [n \in Depths |-> Level(e, f, n)]

\* Descendants is the deepest level of the recursion.
LEMMA DescendantsAre ==
  ASSUME NEW e
  PROVE  Descendants(e) = Entity \cap Down(e)[Cardinality(Entity)]
BY DEF Descendants, Down, Depths, Level, Under

\* The recursion has a value at every depth: it has one as far as a least depth
\* without one would need it.
LEMMA DownTo ==
  ASSUME NEW e, NEW k \in Nat
  PROVE  \E f : f = [n \in 0..k |-> Level(e, f, n)]
<1> DEFINE T == {j \in Nat : ~ \E f : f = [n \in 0..j |-> Level(e, f, n)]}
<1> SUFFICES ASSUME T # {} PROVE FALSE
  OBVIOUS
<1>1. PICK j \in T : \A i \in T : j <= i
  <2>1. T \in SUBSET Nat
    OBVIOUS
  <2> HIDE DEF T
  <2> QED
    BY <2>1, LeastOf
<1>2. CASE j = 0
  <2> DEFINE f == [n \in 0..0 |-> Children(e)]
  <2>1. f = [n \in 0..0 |-> Level(e, f, n)]
    BY DEF Level
  <2> QED
    BY <1>1, <1>2, <2>1
<1>3. CASE j # 0
  <2>1. j - 1 \in Nat /\ j - 1 \notin T /\ j \in Nat
    BY <1>1, <1>3
  <2>2. PICK g : g = [n \in 0..(j - 1) |-> Level(e, g, n)]
    BY <2>1
  <2> DEFINE f == [n \in 0..j |-> Level(e, g, n)]
  <2>3. \A n \in 0..(j - 1) : f[n] = g[n]
    BY <2>1, <2>2
  <2>4. ASSUME NEW n \in 0..j PROVE Level(e, g, n) = Level(e, f, n)
    <3>1. CASE n = 0
      BY <3>1 DEF Level
    <3>2. CASE n # 0
      <4>1. n - 1 \in 0..(j - 1)
        BY <2>1, <3>2
      <4>2. f[n - 1] = g[n - 1]
        BY <2>3, <4>1
      <4> HIDE DEF f
      <4> QED
        BY <3>2, <4>2 DEF Level
    <3> QED
      BY <3>1, <3>2
  <2>5. f = [n \in 0..j |-> Level(e, f, n)]
    BY <2>4, Zenon
  <2> QED
    BY <1>1, <2>5
<1> QED
  BY <1>2, <1>3

\* Its equation, level by level.
LEMMA DownLevels ==
  ASSUME NEW e
  PROVE  /\ Cardinality(Entity) \in Nat
         /\ Down(e)[0] = Children(e)
         /\ \A n \in Depths : n # 0 =>
              n - 1 \in Depths /\ Down(e)[n] = Under(Down(e)[n - 1])
<1>1. Cardinality(Entity) \in Nat
  BY TreeAssumption, FS_CardinalityType
<1>2. \E f : f = [n \in Depths |-> Level(e, f, n)]
  BY <1>1, DownTo DEF Depths
<1>3. Down(e) = [n \in Depths |-> Level(e, Down(e), n)]
  BY <1>2 DEF Down
<1>4. \A n \in Depths : Down(e)[n] = Level(e, Down(e), n)
  BY <1>3
<1>5. 0 \in Depths /\ \A n \in Depths : n # 0 => n - 1 \in Depths
  BY <1>1 DEF Depths
<1> QED
  BY <1>1, <1>4, <1>5 DEF Level

\* The descendants are in every set that holds the children and theirs ...
LEMMA DescendantsLeast ==
  ASSUME NEW e, NEW X, Children(e) \subseteq X,
         \A c \in Entity : Active(c) /\ parent[c] \in X => c \in X
  PROVE  Descendants(e) \subseteq X
<1> DEFINE T == {n \in Depths : ~(Down(e)[n] \subseteq X)}
<1>1. T = {}
  <2> SUFFICES ASSUME T # {} PROVE FALSE
    OBVIOUS
  <2>1. PICK n \in T : \A k \in T : n <= k
    <3>1. T \in SUBSET Nat
      BY DEF Depths
    <3> HIDE DEF T
    <3> QED
      BY <3>1, LeastOf
  <2>2. n # 0 /\ n \in Nat
    BY <2>1, DownLevels DEF Depths
  <2>3. n - 1 \in Depths /\ Down(e)[n] = Under(Down(e)[n - 1])
    BY <2>1, <2>2, DownLevels
  <2>4. Down(e)[n - 1] \subseteq X
    BY <2>1, <2>2, <2>3
  <2>5. Under(Down(e)[n - 1]) \subseteq X
    BY <2>4 DEF Under
  <2> QED
    BY <2>3, <2>5
<1>2. Cardinality(Entity) \in Depths
  BY DownLevels DEF Depths
<1> QED
  BY <1>1, <1>2, DescendantsAre

\* ... and hold them themselves: after as many levels as there are entities
\* nothing new is found.
LEMMA DescendantsClosed ==
  ASSUME NEW e
  PROVE  /\ Children(e) \subseteq Descendants(e) /\ Descendants(e) \subseteq Entity
         /\ \A c \in Entity : Active(c) /\ parent[c] \in Descendants(e)
                                => c \in Descendants(e)
<1> DEFINE Done(n) == /\ Down(e)[n] \subseteq Entity
                      /\ Children(e) \subseteq Down(e)[n]
                      /\ \/ Under(Down(e)[n]) = Down(e)[n]
                         \/ Cardinality(Down(e)[n]) >= n
           T == {n \in Depths : ~Done(n)}
<1>1. T = {}
  <2> SUFFICES ASSUME T # {} PROVE FALSE
    OBVIOUS
  <2>1. PICK n \in T : \A k \in T : n <= k
    <3>1. T \in SUBSET Nat
      BY DEF Depths
    <3> HIDE DEF T
    <3> QED
      BY <3>1, LeastOf
  <2>2. n \in Nat /\ n \in Depths /\ ~Done(n)
    BY <2>1 DEF Depths
  <2>3. CASE n = 0
    <3>1. Children(e) \subseteq Entity /\ IsFiniteSet(Children(e))
      BY TreeAssumption, FS_Subset DEF Children
    <3>2. Cardinality(Children(e)) \in Nat
      BY <3>1, FS_CardinalityType
    <3> QED
      BY <2>2, <2>3, <3>1, <3>2, DownLevels
  <2>4. CASE n # 0
    <3> DEFINE A == Down(e)[n - 1]
    <3>1. n - 1 \in Depths /\ Down(e)[n] = Under(A)
      BY <2>2, <2>4, DownLevels
    <3>2. Done(n - 1)
      BY <2>1, <2>2, <2>4, <3>1
    <3>3. A \subseteq Entity /\ Children(e) \subseteq A
      BY <3>2
    <3>4. A \subseteq Under(A) /\ Under(A) \subseteq Entity
      BY <3>3 DEF Under
    <3>5. CASE Under(A) = A
      BY <2>2, <3>1, <3>3, <3>5
    <3>6. CASE Under(A) # A
      <4>1. PICK x \in Under(A) : x \notin A
        BY <3>4, <3>6
      <4>2. IsFiniteSet(A) /\ IsFiniteSet(Under(A))
        BY <3>3, <3>4, TreeAssumption, FS_Subset
      <4>3. IsFiniteSet(A \cup {x}) /\ Cardinality(A \cup {x}) = Cardinality(A) + 1
        BY <4>1, <4>2, FS_AddElement
      <4>4. Cardinality(A \cup {x}) <= Cardinality(Under(A))
        BY <3>4, <4>1, <4>2, FS_Subset
      <4>5. Cardinality(A) \in Nat /\ Cardinality(Under(A)) \in Nat
        BY <4>2, FS_CardinalityType
      <4>6. Cardinality(A) >= n - 1
        BY <3>2, <3>6
      <4> HIDE DEF A
      <4>7. Cardinality(Under(A)) >= n
        BY <2>2, <4>3, <4>4, <4>5, <4>6
      <4> QED
        BY <2>2, <3>1, <3>3, <3>4, <4>7
    <3> QED
      BY <3>5, <3>6
  <2> QED
    BY <2>3, <2>4
<1>2. Cardinality(Entity) \in Depths /\ Cardinality(Entity) \in Nat
  BY DownLevels DEF Depths
<1> DEFINE D == Down(e)[Cardinality(Entity)]
<1>3. Done(Cardinality(Entity))
  BY <1>1, <1>2
<1>4. D \subseteq Entity /\ Children(e) \subseteq D /\ Descendants(e) = D
  BY <1>3, DescendantsAre
<1>5. Under(D) = D
  <2> SUFFICES ASSUME Cardinality(D) >= Cardinality(Entity)
               PROVE  Under(D) = D
    BY <1>3
  <2>1. /\ IsFiniteSet(D) /\ Cardinality(D) \in Nat
        /\ Cardinality(D) <= Cardinality(Entity)
        /\ Cardinality(D) = Cardinality(Entity) => D = Entity
    BY <1>4, TreeAssumption, FS_Subset, FS_CardinalityType
  <2>2. D = Entity
    BY <1>2, <2>1
  <2> HIDE DEF D
  <2> QED
    BY <2>2 DEF Under
<1> HIDE DEF D
<1> QED
  BY <1>4, <1>5 DEF Under

-----------------------------------------------------------------------------
\* One request at a time: what it has read is still so when it writes.
OneAtATime == \A o1, o2 \in Op : o1 = o2

\* A parent that may get a child.
Placed(p) == p = NoParent \/ Active(p)

\* What the request has read is still so.
RequestCurrent(r) ==
  /\ r.at \in {"creating", "placing"} => r.level = ChildLevel(r.p)
  /\ r.at \in {"creating", "moving", "placing"} => Placed(r.p)
  /\ r.at \in {"moving", "placing", "collecting", "counting", "removing"} =>
       Active(r.e)
  /\ r.at \in {"moving", "placing"} => r.p \notin Descendants(r.e)
  /\ r.at \in {"counting", "removing"} => Children(r.e) = {}

\* A set of active entities that holds all their parents holds one that is its
\* own parent.
OnlySelfLoops ==
  \A X \in SUBSET Entity :
    X # {} /\ (\A x \in X : Active(x) /\ parent[x] \in X) =>
      \E x \in X : parent[x] = x

LevelFits(x) == level[x] = ChildLevel(parent[x])
AllFit == \A x \in Entity : Active(x) => LevelFits(x)

\* While a move updates the descendants: what does not fit is still to do, with
\* all that is below it, and nothing to do is its own parent.
TodoFits(todo) ==
  /\ \A t \in todo : /\ Active(t[1]) /\ t[2] = parent[t[1]]
                     /\ t[2] # t[1] /\ t[2] \in Entity
  /\ \A x \in Entity : Active(x) /\ ~LevelFits(x) => \E t \in todo : t[1] = x
  /\ \A x \in Entity : Active(x) /\ (\E t \in todo : t[1] = parent[x]) =>
       \E t \in todo : t[1] = x

\* Levels fit but for what a move has yet to write.
LevelsFit(r) ==
  /\ r.at = "collecting" /\ parent[r.e] # r.e =>
         \A x \in Entity : Active(x) /\ x \notin Children(r.e) => LevelFits(x)
  /\ r.at = "updating" => TodoFits(r.todo)
  /\ r.at \notin {"collecting", "updating"} => AllFit

\* The inductive invariant of requests one at a time.
AloneInv ==
  /\ NoOrphan /\ OnlySelfLoops
  /\ \A o \in Op : RequestCurrent(op[o]) /\ LevelsFit(op[o])
  /\ Op = {} => AllFit

\* What is not moved keeps its descendants.
LEMMA DescendantsSame ==
  ASSUME UNCHANGED <<state, parent>>, NEW x
  PROVE  Descendants(x)' = Descendants(x)
BY DEF Descendants, Children, Active

\* A step that only changes what the request remembers.
LEMMA RequestMoves ==
  ASSUME OneAtATime, TreeInv, AloneInv, NEW o \in Op, NEW r,
         UNCHANGED treeVars, op' = [op EXCEPT ![o] = r],
         RequestCurrent(r), LevelsFit(r)
  PROVE  AloneInv'
<1>1. UNCHANGED <<state, parent, level>>
  BY DEF treeVars
<1>2. op'[o] = r /\ \A o2 \in Op : o2 = o
  BY DEF OneAtATime, TreeInv, TypeOK
<1>3. NoOrphan' /\ OnlySelfLoops'
  BY <1>1 DEF AloneInv, NoOrphan, OnlySelfLoops, Active
<1>4. RequestCurrent(op[o])'
  <2>1. \A x : Descendants(x)' = Descendants(x)
    BY <1>1, DescendantsSame
  <2>2. \A x : (Active(x)' <=> Active(x)) /\ Children(x)' = Children(x)
                 /\ (Placed(x)' <=> Placed(x)) /\ ChildLevel(x)' = ChildLevel(x)
    BY <1>1 DEF Active, Children, Placed, ChildLevel
  <2> QED
    BY <1>2, <2>1, <2>2 DEF RequestCurrent
<1>5. LevelsFit(op[o])'
  BY <1>1, <1>2 DEF LevelsFit, TodoFits, AllFit, LevelFits, ChildLevel, Active, Children
<1> QED
  BY <1>2, <1>3, <1>4, <1>5 DEF AloneInv

\* The steps that read.
LEMMA ReadsAlone ==
  ASSUME OneAtATime, TreeInv, AloneInv, NEW o \in Op,
         NEW by, NEW e \in Entity, NEW p \in Place,
         \/ CreateReads(o, by, e, p) \/ MoveChecks(o, by, e, p)
         \/ RemoveChecks(o, by, e) \/ UserJoins(o, e)
         \/ MoveReads(o) \/ RemoveCounts(o) \/ UserSaved(o)
  PROVE  AloneInv'
<1>1. RequestCurrent(op[o]) /\ LevelsFit(op[o])
  BY DEF AloneInv
<1>2. Idle.at = "idle"
  BY DEF Idle
<1>3. ASSUME AllFit, NEW r, UNCHANGED treeVars, op' = [op EXCEPT ![o] = r],
             RequestCurrent(r), r.at \notin {"collecting", "updating"}
      PROVE  AloneInv'
  BY <1>3, RequestMoves DEF LevelsFit
<1>4. RequestCurrent(Idle)
  BY <1>2 DEF RequestCurrent
<1>5. CASE CreateReads(o, by, e, p)
  <2> DEFINE r == [at |-> "creating", e |-> e, p |-> p, level |-> ChildLevel(p)]
  <2>1. r.at = "creating" /\ r.e = e /\ r.p = p /\ r.level = ChildLevel(p)
    OBVIOUS
  <2>2. op' = [op EXCEPT ![o] = r] /\ UNCHANGED treeVars
    BY <1>5 DEF CreateReads, Does
  <2>3. AllFit /\ Placed(p)
    BY <1>1, <1>2, <1>5 DEF CreateReads, LevelsFit, Placed
  <2> HIDE DEF r
  <2>4. RequestCurrent(r)
    BY <2>1, <2>3 DEF RequestCurrent
  <2> QED
    BY <1>3, <2>1, <2>2, <2>3, <2>4
<1>6. CASE MoveChecks(o, by, e, p)
  <2> DEFINE r == [at |-> "moving", e |-> e, p |-> p]
  <2>1. r.at = "moving" /\ r.e = e /\ r.p = p
    OBVIOUS
  <2>2. op' = [op EXCEPT ![o] = r] /\ UNCHANGED treeVars
    BY <1>6 DEF MoveChecks, Does
  <2>3. AllFit
    BY <1>1, <1>2, <1>6 DEF MoveChecks, LevelsFit
  <2>4. Active(e) /\ (p # NoParent => Active(p) /\ p \notin Descendants(e))
    BY <1>6 DEF MoveChecks, MayMove
  <2>5. p \notin Descendants(e)
    BY <2>4, TreeAssumption, DescendantsClosed
  <2> HIDE DEF r
  <2>6. RequestCurrent(r)
    BY <2>1, <2>4, <2>5 DEF RequestCurrent, Placed
  <2> QED
    BY <1>3, <2>1, <2>2, <2>3, <2>6
<1>7. CASE RemoveChecks(o, by, e)
  <2> DEFINE r == [at |-> "counting", e |-> e]
  <2>1. r.at = "counting" /\ r.e = e
    OBVIOUS
  <2>2. /\ op' = [op EXCEPT ![o] = r] /\ UNCHANGED treeVars
        /\ Active(e) /\ Children(e) = {}
    BY <1>7 DEF RemoveChecks, Does
  <2>3. AllFit
    BY <1>1, <1>2, <1>7 DEF RemoveChecks, LevelsFit
  <2> HIDE DEF r
  <2>4. RequestCurrent(r)
    BY <2>1, <2>2 DEF RequestCurrent
  <2> QED
    BY <1>3, <2>1, <2>2, <2>3, <2>4
<1>8. CASE UserJoins(o, e)
  <2> DEFINE r == [at |-> "joining", e |-> e]
  <2>1. r.at = "joining"
    OBVIOUS
  <2>2. op' = [op EXCEPT ![o] = r] /\ UNCHANGED treeVars
    BY <1>8 DEF UserJoins, Does
  <2>3. AllFit
    BY <1>1, <1>2, <1>8 DEF UserJoins, LevelsFit
  <2> HIDE DEF r
  <2>4. RequestCurrent(r)
    BY <2>1 DEF RequestCurrent
  <2> QED
    BY <1>3, <2>1, <2>2, <2>3, <2>4
<1>9. CASE MoveReads(o)
  <2> DEFINE r == [at |-> "placing", e |-> op[o].e, p |-> op[o].p,
                   level |-> ChildLevel(op[o].p)]
  <2>1. r.at = "placing" /\ r.e = op[o].e /\ r.p = op[o].p
        /\ r.level = ChildLevel(op[o].p)
    OBVIOUS
  <2>2. /\ op[o].at = "moving" /\ UNCHANGED treeVars
        /\ op' = [op EXCEPT ![o] = r] \/ op' = [op EXCEPT ![o] = Idle]
    BY <1>9 DEF MoveReads, Does
  <2>3. AllFit
    BY <1>1, <2>2 DEF LevelsFit
  <2> HIDE DEF r
  <2>4. RequestCurrent(r)
    BY <1>1, <2>1, <2>2 DEF RequestCurrent
  <2> QED
    BY <1>2, <1>3, <1>4, <2>1, <2>2, <2>3, <2>4
<1>10. CASE RemoveCounts(o)
  <2> DEFINE r == [at |-> "removing", e |-> op[o].e]
  <2>1. r.at = "removing" /\ r.e = op[o].e
    OBVIOUS
  <2>2. /\ op[o].at = "counting" /\ UNCHANGED treeVars
        /\ op' = [op EXCEPT ![o] = r] \/ op' = [op EXCEPT ![o] = Idle]
    BY <1>10 DEF RemoveCounts, Does
  <2>3. AllFit
    BY <1>1, <2>2 DEF LevelsFit
  <2> HIDE DEF r
  <2>4. RequestCurrent(r)
    BY <1>1, <2>1, <2>2 DEF RequestCurrent
  <2> QED
    BY <1>2, <1>3, <1>4, <2>1, <2>2, <2>3, <2>4
<1>11. CASE UserSaved(o)
  <2>1. op[o].at = "joining" /\ op' = [op EXCEPT ![o] = Idle] /\ UNCHANGED treeVars
    BY <1>11 DEF UserSaved
  <2>2. AllFit
    BY <1>1, <2>1 DEF LevelsFit
  <2> QED
    BY <1>2, <1>3, <1>4, <2>1, <2>2
<1> QED
  BY <1>5, <1>6, <1>7, <1>8, <1>9, <1>10, <1>11

\* A request that ends with a write: only the tree is left to be shown right.
LEMMA WriteEnds ==
  ASSUME OneAtATime, TreeInv, NEW o \in Op, op' = [op EXCEPT ![o] = Idle],
         NoOrphan', OnlySelfLoops', AllFit'
  PROVE  AloneInv'
<1>1. op'[o] = Idle /\ \A o2 \in Op : o2 = o
  BY DEF OneAtATime, TreeInv, TypeOK
<1>2. Idle.at = "idle"
  BY DEF Idle
<1>3. RequestCurrent(op[o])' /\ LevelsFit(op[o])'
  BY <1>1, <1>2 DEF RequestCurrent, LevelsFit
<1> QED
  BY <1>1, <1>3 DEF AloneInv

\* A new entity has no children, and a parent that is there.
LEMMA CreateAlone ==
  ASSUME OneAtATime, TreeInv, AloneInv, NEW o \in Op, CreateSaves(o)
  PROVE  AloneInv'
<1>0. op[o].at = "creating" /\ op[o].e \in Entity /\ op[o].p \in Place
  BY DEF CreateSaves, TreeInv, TypeOK, Request
<1> PICK e \in Entity, p \in Place : e = op[o].e /\ p = op[o].p
  BY <1>0
<1>1. /\ op[o].at = "creating"
      /\ state[e] = "absent" /\ op[o].level = ChildLevel(p) /\ Placed(p)
  BY <1>0 DEF TreeInv, RequestsBound, AloneInv, RequestCurrent
<1>2. /\ state' = [state EXCEPT ![e] = "active"]
      /\ parent' = [parent EXCEPT ![e] = p]
      /\ level' = [level EXCEPT ![e] = ChildLevel(p)]
      /\ op' = [op EXCEPT ![o] = Idle]
  BY <1>1 DEF CreateSaves
<1>3. AllFit /\ NoOrphan /\ OnlySelfLoops
  BY <1>1 DEF AloneInv, LevelsFit
<1>4. NoParent \notin Entity /\ p # e
  BY <1>1, TreeAssumption DEF Placed, Active
<1>5. \A x \in Entity \ {e} :
        /\ Active(x)' <=> Active(x)
        /\ parent'[x] = parent[x] /\ level'[x] = level[x]
        /\ Active(x) => parent[x] # e
  <2>1. ~Active(e)
    BY <1>1 DEF Active
  <2> QED
    BY <1>1, <1>2, <1>3, <1>4, <2>1 DEF TreeInv, TypeOK, Active, NoOrphan
<1>6. Active(e)' /\ parent'[e] = p /\ level'[e] = ChildLevel(p)
  BY <1>1, <1>2 DEF TreeInv, TypeOK, Active
<1>7. \A q \in Place \ {e} : ChildLevel(q)' = ChildLevel(q)
  BY <1>5 DEF ChildLevel, Place
<1>8. \A x \in Entity : parent[x] \in Place
  BY DEF TreeInv, TypeOK, Place
<1>9. NoOrphan'
  BY <1>1, <1>3, <1>4, <1>5, <1>6, <1>8 DEF NoOrphan, Placed, Place
<1>10. AllFit'
  BY <1>1, <1>3, <1>4, <1>5, <1>6, <1>7, <1>8 DEF AllFit, LevelFits
<1>11. OnlySelfLoops'
  <2> SUFFICES ASSUME NEW X \in SUBSET Entity, X # {},
                      \A x \in X : Active(x)' /\ parent'[x] \in X
               PROVE  \E x \in X : parent'[x] = x
    BY DEF OnlySelfLoops
  <2> DEFINE Y == X \ {e}
  <2>1. Y # {}
    <3>1. CASE e \in X
      <4>1. p \in X
        BY <1>6, <3>1
      <4> QED
        BY <1>4, <4>1
    <3>2. CASE e \notin X
      BY <3>2
    <3> QED
      BY <3>1, <3>2
  <2>2. \A y \in Y : Active(y) /\ parent[y] \in Y
    BY <1>5
  <2>3. \E y \in Y : parent[y] = y
    BY <1>3, <2>1, <2>2 DEF OnlySelfLoops
  <2> QED
    BY <1>5, <2>3
<1> QED
  BY <1>2, <1>9, <1>10, <1>11, WriteEnds

\* What is removed has no children.
LEMMA RemoveAlone ==
  ASSUME OneAtATime, TreeInv, AloneInv, NEW o \in Op, RemoveWrites(o)
  PROVE  AloneInv'
<1>1. /\ op[o].at = "removing" /\ op[o].e \in Entity
      /\ Children(op[o].e) = {} /\ AllFit /\ NoOrphan /\ OnlySelfLoops
  BY DEF RemoveWrites, TreeInv, RequestsBound, Existing, AloneInv, RequestCurrent,
         LevelsFit
<1>2. /\ state' = [state EXCEPT ![op[o].e] = "removed"]
      /\ op' = [op EXCEPT ![o] = Idle] /\ UNCHANGED <<parent, level>>
  BY DEF RemoveWrites
<1>3. \A x \in Entity : /\ Active(x)' => Active(x) /\ parent[x] # op[o].e
                        /\ Active(x) /\ x # op[o].e => Active(x)'
  BY <1>1, <1>2 DEF Active, TreeInv, TypeOK, Children
<1>4. NoOrphan'
  BY <1>1, <1>2, <1>3 DEF NoOrphan, TreeInv, TypeOK
<1>5. OnlySelfLoops'
  <2> SUFFICES ASSUME NEW X \in SUBSET Entity, X # {},
                      \A x \in X : Active(x)' /\ parent'[x] \in X
               PROVE  \E x \in X : parent'[x] = x
    BY DEF OnlySelfLoops
  <2>1. \A x \in X : Active(x) /\ parent[x] \in X
    BY <1>2, <1>3
  <2> QED
    BY <1>1, <1>2, <2>1 DEF OnlySelfLoops
<1>6. AllFit'
  BY <1>1, <1>2, <1>3 DEF AllFit, LevelFits, ChildLevel
<1> QED
  BY <1>2, <1>4, <1>5, <1>6, WriteEnds

\* The new parent is not below the entity: a cycle would have to lead through
\* what is neither the entity nor below it, and was there before.
LEMMA MoveAlone ==
  ASSUME OneAtATime, TreeInv, AloneInv, NEW o \in Op, MoveWrites(o)
  PROVE  AloneInv'
<1>0. op[o].at = "placing" /\ op[o].e \in Entity /\ op[o].p \in Place
  BY DEF MoveWrites, TreeInv, TypeOK, Request
<1> PICK e \in Entity, p \in Place : e = op[o].e /\ p = op[o].p
  BY <1>0
<1> PICK D : D = Descendants(e)
  OBVIOUS
<1>1. Active(e) /\ Placed(p) /\ p \notin D /\ op[o].level = ChildLevel(p)
  BY <1>0 DEF AloneInv, RequestCurrent
<1>2. AllFit /\ NoOrphan /\ OnlySelfLoops
  BY <1>0 DEF AloneInv, LevelsFit
<1>3. /\ parent' = [parent EXCEPT ![e] = p]
      /\ level' = [level EXCEPT ![e] = ChildLevel(p)]
      /\ op' = [op EXCEPT ![o] = [at |-> "collecting", e |-> e]]
      /\ state' = state
  BY <1>1 DEF MoveWrites
<1>4. /\ Children(e) \subseteq D /\ D \subseteq Entity
      /\ \A c \in Entity : Active(c) /\ parent[c] \in D => c \in D
  BY DescendantsClosed
<1>5. /\ parent'[e] = p /\ level'[e] = ChildLevel(p)
      /\ \A x \in Entity \ {e} : parent'[x] = parent[x] /\ level'[x] = level[x]
      /\ \A x \in Entity : Active(x)' <=> Active(x)
  BY <1>1, <1>3 DEF TreeInv, TypeOK, Active
<1>6. NoOrphan'
  <2> SUFFICES ASSUME NEW x \in Entity, Active(x), parent'[x] # NoParent
               PROVE  Active(parent[x])'
    BY <1>5 DEF NoOrphan
  <2>1. CASE x = e
    BY <1>1, <1>3, <1>5, <2>1 DEF Placed, Active
  <2>2. CASE x # e
    BY <1>2, <1>3, <1>5, <2>2 DEF NoOrphan, Active
  <2> QED
    BY <2>1, <2>2
<1>7. OnlySelfLoops'
  <2> SUFFICES ASSUME NEW X \in SUBSET Entity, X # {},
                      \A x \in X : Active(x)' /\ parent'[x] \in X,
                      \A x \in X : parent'[x] # x
               PROVE  FALSE
    BY DEF OnlySelfLoops
  <2>1. CASE e \notin X
    <3>1. \A x \in X : Active(x) /\ parent[x] \in X /\ parent[x] # x
      BY <1>5, <2>1
    <3> QED
      BY <1>2, <3>1 DEF OnlySelfLoops
  <2>2. CASE e \in X
    <3> DEFINE Y == X \ (D \cup {e})
    <3>1. p \in X /\ p # e
      BY <1>5, <2>2
    <3>2. p \in Y
      BY <1>1, <3>1
    <3>3. ASSUME NEW y \in Y
          PROVE  Active(y) /\ parent[y] \in Y /\ parent[y] # y
      <4>1. Active(y) /\ parent[y] \in X /\ parent[y] # y
        BY <1>5
      <4>2. parent[y] # e
        BY <1>4, <4>1 DEF Children
      <4>3. parent[y] \notin D
        BY <1>4, <4>1
      <4> QED
        BY <4>1, <4>2, <4>3
    <3>4. Y # {} /\ Y \in SUBSET Entity
      BY <3>2
    <3> HIDE DEF Y
    <3> QED
      BY <1>2, <3>3, <3>4 DEF OnlySelfLoops
  <2> QED
    BY <2>1, <2>2
<1>8. op'[o] = [at |-> "collecting", e |-> e] /\ \A o2 \in Op : o2 = o
  BY <1>3 DEF OneAtATime, TreeInv, TypeOK
<1>9. RequestCurrent(op[o])'
  BY <1>1, <1>5, <1>8 DEF RequestCurrent
<1>10. ASSUME p # e, NEW x \in Entity, Active(x), x \notin Children(e)'
       PROVE  LevelFits(x)'
  <2>1. ChildLevel(p)' = ChildLevel(p)
    BY <1>1, <1>5, <1>10 DEF ChildLevel, Place
  <2>2. CASE x = e
    BY <1>5, <2>1, <2>2 DEF LevelFits
  <2>3. CASE x # e
    <3>1. parent'[x] = parent[x] /\ parent[x] # e /\ level'[x] = level[x]
      BY <1>5, <1>10, <2>3 DEF Children
    <3>2. LevelFits(x) /\ parent[x] \in Place
      BY <1>2, <1>10 DEF AllFit, TreeInv, TypeOK, Place
    <3>3. ChildLevel(parent[x])' = ChildLevel(parent[x])
      BY <1>5, <3>1, <3>2 DEF ChildLevel, Place
    <3> QED
      BY <3>1, <3>2, <3>3 DEF LevelFits
  <2> QED
    BY <2>2, <2>3
<1>11. LevelsFit(op[o])'
  BY <1>5, <1>8, <1>10 DEF LevelsFit
<1> QED
  BY <1>6, <1>7, <1>8, <1>9, <1>11 DEF AloneInv

\* A descendant is active, and its parent is one or the entity itself.
LEMMA DescendantsBelow ==
  ASSUME NEW e, NEW d \in Descendants(e)
  PROVE  d \in Entity /\ Active(d) /\ parent[d] \in Descendants(e) \cup {e}
<1> DEFINE X == {c \in Descendants(e) :
                   Active(c) /\ parent[c] \in Descendants(e) \cup {e}}
<1>1. Children(e) \subseteq X
  BY DescendantsClosed DEF Children
<1>2. \A c \in Entity : Active(c) /\ parent[c] \in X => c \in X
  BY DescendantsClosed
<1>3. Descendants(e) \subseteq X
  <2> HIDE DEF X
  <2> QED
    BY <1>1, <1>2, DescendantsLeast
<1> QED
  BY <1>3, DescendantsClosed

\* The look for descendants returns, so there is no cycle below the entity; all
\* that may not fit is found.
LEMMA CollectAlone ==
  ASSUME OneAtATime, TreeInv, AloneInv, NEW o \in Op, MoveCollects(o)
  PROVE  AloneInv'
<1>0. op[o].at = "collecting" /\ op[o].e \in Entity
  BY DEF MoveCollects, TreeInv, TypeOK, Request
<1> PICK e \in Entity : e = op[o].e
  BY <1>0
<1> DEFINE r == [at |-> "updating",
                 todo |-> {<<d, parent[d]>> : d \in Descendants(e)}]
<1>1. op' = [op EXCEPT ![o] = r] /\ UNCHANGED treeVars
  BY DEF MoveCollects, Does
<1>2. Active(e) /\ ~Endless(e)
  BY <1>0 DEF AloneInv, RequestCurrent, MoveCollects
<1>3. ASSUME NEW x \in Entity, Active(x), parent[x] = x
      PROVE  x \in Descendants(x)
  <2>1. x \in Children(x)
    BY <1>3 DEF Children
  <2> QED
    BY <2>1, DescendantsClosed
<1>4. parent[e] # e
  BY <1>2, <1>3 DEF Endless
<1>5. \A x \in Entity : Active(x) /\ x \notin Children(e) => LevelFits(x)
  BY <1>0, <1>4 DEF AloneInv, LevelsFit
<1>6. ASSUME NEW d \in Descendants(e)
      PROVE  /\ d \in Entity /\ Active(d) /\ parent[d] # d
             /\ parent[d] \in Entity
  <2>1. d \in Entity /\ Active(d) /\ parent[d] \in Descendants(e) \cup {e}
    BY DescendantsBelow
  <2>2. parent[d] # d
    BY <1>2, <1>3, <2>1 DEF Endless
  <2> QED
    BY <2>1, <2>2, DescendantsClosed
<1>7. r.at = "updating" /\ r.todo = {<<d, parent[d]>> : d \in Descendants(e)}
  OBVIOUS
<1> HIDE DEF r
<1>8. TodoFits(r.todo)
  <2>1. \A t \in r.todo : /\ Active(t[1]) /\ t[2] = parent[t[1]]
                          /\ t[2] # t[1] /\ t[2] \in Entity
    BY <1>6, <1>7
  <2>2. ASSUME NEW d \in Descendants(e)
        PROVE  \E t \in r.todo : t[1] = d
    <3>1. <<d, parent[d]>> \in r.todo /\ <<d, parent[d]>>[1] = d
      BY <1>7
    <3> QED
      BY <3>1
  <2>3. \A x \in Entity : Active(x) /\ ~LevelFits(x) => \E t \in r.todo : t[1] = x
    BY <1>5, <2>2, DescendantsClosed
  <2>4. \A x \in Entity : Active(x) /\ (\E t \in r.todo : t[1] = parent[x]) =>
          \E t \in r.todo : t[1] = x
    <3>1. \A t \in r.todo : t[1] \in Descendants(e)
      BY <1>7
    <3> QED
      BY <2>2, <3>1, DescendantsClosed
  <2> QED
    BY <2>1, <2>3, <2>4 DEF TodoFits
<1>9. RequestCurrent(r) /\ LevelsFit(r)
  BY <1>7, <1>8 DEF RequestCurrent, LevelsFit
<1> QED
  BY <1>1, <1>9, RequestMoves

\* The next one to do hangs from one that fits, and comes to fit; its children
\* are still to do.
LEMMA UpdateAlone ==
  ASSUME OneAtATime, TreeInv, AloneInv, NEW o \in Op, MoveUpdates(o)
  PROVE  AloneInv'
<1>0. op[o].at = "updating" /\ op[o] \in Request
      /\ op[o].todo \subseteq Entity \X Place
  BY DEF MoveUpdates, TreeInv, TypeOK, Request
<1>1. TodoFits(op[o].todo) /\ NoOrphan /\ OnlySelfLoops
  BY <1>0 DEF AloneInv, LevelsFit
<1>2. CASE op[o].todo = {} /\ Does(o, Idle)
  <2>1. AllFit
    BY <1>1, <1>2 DEF TodoFits, AllFit
  <2>2. RequestCurrent(Idle) /\ LevelsFit(Idle)
    BY <2>1 DEF RequestCurrent, LevelsFit, Idle
  <2> QED
    BY <1>2, <2>2, RequestMoves DEF Does
<1>3. ASSUME NEW t \in op[o].todo, \A u \in op[o].todo : u[1] # t[2],
             IF Active(t[2])
               THEN /\ level' = [level EXCEPT ![t[1]] = ChildLevel(t[2])]
                    /\ op' = [op EXCEPT ![o].todo = @ \ {t}]
                    /\ UNCHANGED <<state, parent, idPath, tenant, staff>>
               ELSE Does(o, Idle)
      PROVE  AloneInv'
  <2> PICK todo : todo = op[o].todo
    OBVIOUS
  <2> PICK x \in Entity, p \in Place : t = <<x, p>>
    BY <1>0
  <2>1. Active(x) /\ p = parent[x] /\ p # x /\ p \in Entity
    BY <1>1, <1>3 DEF TodoFits
  <2>2. Active(p)
    BY <1>1, <2>1, TreeAssumption DEF NoOrphan
  <2>3. /\ level' = [level EXCEPT ![x] = ChildLevel(p)]
        /\ op' = [op EXCEPT ![o].todo = @ \ {t}]
        /\ UNCHANGED <<state, parent>>
    BY <1>3, <2>2
  <2>4. /\ op'[o].at = "updating" /\ op'[o].todo = todo \ {t}
        /\ \A o2 \in Op : o2 = o
    BY <1>0, <2>3 DEF Request, OneAtATime, TreeInv, TypeOK
  <2>5. NoOrphan' /\ OnlySelfLoops'
    BY <1>1, <2>3 DEF NoOrphan, OnlySelfLoops, Active
  <2>6. /\ level'[x] = ChildLevel(p)
        /\ \A y \in Entity \ {x} : level'[y] = level[y]
    BY <2>3 DEF TreeInv, TypeOK
  <2>7. \A u \in todo : u[1] = x => u = t
    <3>1. \A u \in todo : u \in Entity \X Place /\ u[2] = parent[u[1]]
      BY <1>0, <1>1 DEF TodoFits
    <3> QED
      BY <2>1, <3>1
  <2>8. TodoFits(todo \ {t})'
    <3>1. \A u \in todo \ {t} : /\ Active(u[1])' /\ u[2] = parent'[u[1]]
                                /\ u[2] # u[1] /\ u[2] \in Entity
      BY <1>1, <2>3 DEF TodoFits, Active
    <3>2. ASSUME NEW y \in Entity, Active(y), ~LevelFits(y)'
          PROVE  \E u \in todo \ {t} : u[1] = y
      <4>1. CASE y = x
        <5>1. ChildLevel(p)' = ChildLevel(p) /\ parent'[x] = p
          BY <2>1, <2>3, <2>6 DEF ChildLevel
        <5> QED
          BY <2>6, <3>2, <4>1, <5>1 DEF LevelFits
      <4>2. CASE y # x /\ parent[y] = x
        <5>1. \E u \in todo : u[1] = y
          BY <1>1, <3>2, <4>2 DEF TodoFits
        <5> QED
          BY <4>2, <5>1
      <4>3. CASE y # x /\ parent[y] # x
        <5>1. parent[y] \in Place
          BY DEF TreeInv, TypeOK, Place
        <5>2. ChildLevel(parent[y])' = ChildLevel(parent[y]) /\ level'[y] = level[y]
          BY <2>3, <2>6, <4>3, <5>1 DEF ChildLevel, Place
        <5>3. ~LevelFits(y)
          BY <2>3, <3>2, <5>2 DEF LevelFits
        <5>4. \E u \in todo : u[1] = y
          BY <1>1, <3>2, <5>3 DEF TodoFits
        <5> QED
          BY <4>3, <5>4
      <4> QED
        BY <4>1, <4>2, <4>3
    <3>3. ASSUME NEW y \in Entity, Active(y), NEW u \in todo \ {t}, u[1] = parent[y]
          PROVE  \E v \in todo \ {t} : v[1] = y
      <4>1. PICK v \in todo : v[1] = y
        BY <1>1, <3>3 DEF TodoFits
      <4>2. y # x
        BY <1>3, <2>1, <3>3
      <4> QED
        BY <4>1, <4>2
    <3> QED
      BY <2>3, <3>1, <3>2, <3>3 DEF TodoFits, Active
  <2>9. RequestCurrent(op[o])' /\ LevelsFit(op[o])'
    BY <2>4, <2>8 DEF RequestCurrent, LevelsFit
  <2> QED
    BY <2>4, <2>5, <2>9 DEF AloneInv
<1> QED
  BY <1>2, <1>3 DEF MoveUpdates

\* Requests one at a time keep the invariant.
LEMMA AloneInductive ==
  ASSUME OneAtATime
  PROVE  /\ Init => AloneInv
         /\ TreeInv /\ AloneInv /\ [Next]_vars => AloneInv'
<1>1. Init => AloneInv
  <2> SUFFICES ASSUME Init PROVE AloneInv
    OBVIOUS
  <2>1. \A e \in Entity : ~Active(e)
    BY DEF Init, Active
  <2>2. NoOrphan /\ OnlySelfLoops /\ AllFit
    BY <2>1 DEF NoOrphan, OnlySelfLoops, AllFit
  <2>3. \A o \in Op : op[o].at = "idle"
    BY DEF Init, Idle
  <2> QED
    BY <2>2, <2>3 DEF AloneInv, RequestCurrent, LevelsFit
<1>2. ASSUME TreeInv, AloneInv, [Next]_vars PROVE AloneInv'
  <2>1. ASSUME UNCHANGED <<treeVars, op>> PROVE AloneInv'
    <3>1. CASE Op = {}
      BY <1>2, <2>1, <3>1 DEF AloneInv, treeVars, NoOrphan, OnlySelfLoops, AllFit,
         LevelFits, ChildLevel, Active
    <3>2. CASE Op # {}
      <4>1. PICK o \in Op : TRUE
        BY <3>2
      <4>2. op' = [op EXCEPT ![o] = op[o]]
        BY <1>2, <2>1 DEF TreeInv, TypeOK
      <4>3. RequestCurrent(op[o]) /\ LevelsFit(op[o])
        BY <1>2 DEF AloneInv
      <4> QED
        BY <1>2, <2>1, <4>2, <4>3, RequestMoves
    <3> QED
      BY <3>1, <3>2
  <2>2. CASE UNCHANGED vars
    BY <2>1, <2>2 DEF vars
  <2>3. ASSUME NEW e \in Entity, UsersLeave(e) PROVE AloneInv'
    BY <2>1, <2>3 DEF UsersLeave
  <2>4. ASSUME NEW o \in Op, NEW by \in Admin, NEW e \in Entity,
               NEW p \in Entity \cup {NoParent},
               \/ CreateReads(o, by, e, p) \/ MoveChecks(o, by, e, p)
               \/ RemoveChecks(o, by, e) \/ UserJoins(o, e)
        PROVE  AloneInv'
    BY <1>2, <2>4, ReadsAlone DEF Place
  <2>5. ASSUME NEW o \in Op, MoveReads(o) \/ RemoveCounts(o) \/ UserSaved(o)
        PROVE  AloneInv'
    <3>1. op[o].e \in Entity /\ NoParent \in Place
      BY <1>2, <2>5 DEF MoveReads, RemoveCounts, UserSaved, TreeInv, TypeOK,
                        Request, Place
    <3> QED
      BY <1>2, <2>5, <3>1, ReadsAlone
  <2>6. ASSUME NEW o \in Op, \/ CreateSaves(o) \/ MoveWrites(o) \/ MoveCollects(o)
                             \/ MoveUpdates(o) \/ RemoveWrites(o)
        PROVE  AloneInv'
    BY <1>2, <2>6, CreateAlone, MoveAlone, CollectAlone, UpdateAlone, RemoveAlone
  <2> QED
    BY <1>2, <2>2, <2>3, <2>4, <2>5, <2>6 DEF Next, Admin
<1> QED
  BY <1>1, <1>2

\* So it holds of every behaviour without overlaps.
LEMMA AloneHolds ==
  ASSUME OneAtATime
  PROVE  Spec => []AloneInv
BY AloneInductive, TreeInvInductive, PTL DEF Spec

\* Administrators whose requests do not overlap never leave an active entity
\* under a removed one, however they create, move and remove.
THEOREM NoOrphans ==
  ASSUME OneAtATime
  PROVE  Spec => []NoOrphan
<1>1. AloneInv => NoOrphan
  BY DEF AloneInv
<1> QED
  BY <1>1, AloneHolds, PTL

\* The only cycle that requests one at a time can make is an entity moved under
\* itself: the look for descendants, as deep as it goes, finds all others.
THEOREM NoLongCycles ==
  ASSUME OneAtATime
  PROVE  Spec => []OnlySelfCycles
<1>1. AloneInv => OnlySelfCycles
  <2> SUFFICES ASSUME AloneInv, NEW e \in Entity, e \in Descendants(e)
               PROVE  parent[e] = e
    BY DEF OnlySelfCycles
  <2>1. \A d \in Descendants(e) :
          d \in Entity /\ Active(d) /\ parent[d] \in Descendants(e)
    BY DescendantsBelow
  <2>2. PICK d \in Descendants(e) : parent[d] = d
    <3>1. Descendants(e) \in SUBSET Entity /\ Descendants(e) # {}
      BY <2>1
    <3> QED
      BY <2>1, <3>1 DEF AloneInv, OnlySelfLoops
  <2>3. CASE d # e
    <3> DEFINE X == Entity \ {d}
    <3>1. /\ Children(e) \subseteq X
          /\ \A c \in Entity : Active(c) /\ parent[c] \in X => c \in X
      BY <2>2, <2>3 DEF Children
    <3>2. Descendants(e) \subseteq X
      <4> HIDE DEF X
      <4> QED
        BY <3>1, DescendantsLeast
    <3> QED
      BY <2>2, <3>2
  <2> QED
    BY <2>2, <2>3
<1> QED
  BY <1>1, AloneHolds, PTL

\* Between requests that do not overlap every level is its parent's plus one:
\* what a move changes it changes all the way down.
THEOREM LevelsAreRight ==
  ASSUME OneAtATime
  PROVE  Spec => []LevelsMatch
<1>1. AloneInv => LevelsMatch
  <2> SUFFICES ASSUME AloneInv, \A o \in Op : op[o] = Idle PROVE AllFit
    BY DEF LevelsMatch, AllFit, LevelFits
  <2> QED
    BY DEF AloneInv, LevelsFit, Idle
<1> QED
  BY <1>1, AloneHolds, PTL
=============================================================================
