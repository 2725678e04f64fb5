----------------------------- MODULE EntityTree -----------------------------
(***************************************************************************)
(* The tree of entities (companies, departments, ...) that decides who may *)
(* see and change what: EntitiesService.create, move and remove, and the   *)
(* users who join an entity.  An operation checks, reads and writes in     *)
(* separate awaits; nothing else keeps requests of several administrators  *)
(* apart.  The tree is stored three times over: parentId, the ancestors'   *)
(* ids of entityIdPath, which grant rights, and level and path, which are  *)
(* derived from the parent's.                                              *)
(***************************************************************************)
EXTENDS FiniteSets, Naturals

CONSTANTS Entity, NoParent, System,
          Op,         \* bound: requests that run at a time
          MaxStaff,   \* bound: entities with users at a time
          MaxRemoved, \* bound: entities removed
          MaxLevel    \* bound: no level beyond it is written

ASSUME TreeAssumption ==
  /\ IsFiniteSet(Entity) /\ {NoParent, System} \cap Entity = {}
  /\ MaxStaff \in Nat /\ MaxRemoved \in Nat /\ MaxLevel \in Nat

VARIABLES
  state,   \* "absent", "active", or "removed" (isActive false)
  parent,  \* parentId
  idPath,  \* entityIdPath, as a set: only membership is ever asked
  tenant,  \* tenantId
  level,   \* level; the display path is written wherever the level is
  staff,   \* entities with active users
  op       \* what each running request has read and is about to do

treeVars == <<state, parent, idPath, tenant, level>>
vars == <<treeVars, staff, op>>

Idle == [at |-> "idle"]

Init ==
  /\ state = [e \in Entity |-> "absent"]
  /\ parent = [e \in Entity |-> NoParent]
  /\ idPath = [e \in Entity |-> {}]
  /\ tenant = [e \in Entity |-> NoParent]
  /\ level = [e \in Entity |-> 0]
  /\ staff = {}
  /\ op = [o \in Op |-> Idle]

-----------------------------------------------------------------------------
Active(e) == state[e] = "active"

Children(e) == {c \in Entity : Active(c) /\ parent[c] = e}

\* getAllDescendants: follows the active children down.
Descendants(e) ==
  LET down[n \in 0..Cardinality(Entity)] ==
        IF n = 0 THEN Children(e)
        ELSE LET above == down[n - 1]
             IN above \cup {c \in Entity : Active(c) /\ parent[c] \in above}
  IN Entity \cap down[Cardinality(Entity)]

\* Its recursion does not end when a cycle is below e.
Endless(e) == \E d \in Descendants(e) \cup {e} : d \in Descendants(d)

\* canManageEntity and canUserManageEntity: an administrator of entity a
\* manages a itself and what has a in its entityIdPath; the system
\* administrators manage everything.
CanManage(by, e) == by = System \/ by = e \/ (Active(e) /\ by \in idPath[e])

Does(o, r) == op' = [op EXCEPT ![o] = r] /\ UNCHANGED <<treeVars, staff>>

\* calculateLevel: the level of an entity under p.
ChildLevel(p) == IF p = NoParent THEN 0 ELSE level[p] + 1

\* create: the parent is there and may be managed; its level is read.  All
\* else that is read of it never changes.
CreateReads(o, by, e, p) ==
  /\ op[o] = Idle /\ state[e] = "absent"
  /\ \A o2 \in Op : op[o2].at = "creating" => op[o2].e # e
  /\ IF p = NoParent THEN by = System ELSE Active(p) /\ CanManage(by, p)
  /\ ChildLevel(p) <= MaxLevel
  /\ Does(o, [at |-> "creating", e |-> e, p |-> p, level |-> ChildLevel(p)])

\* Mutant of CreateSaves: entityIdPath holds only parent and entity.
CreateSavesShortPath(o) ==
  /\ op[o].at = "creating"
  /\ LET e == op[o].e
         p == op[o].p
     IN /\ state' = [state EXCEPT ![e] = "active"]
        /\ parent' = [parent EXCEPT ![e] = p]
        /\ idPath' = [idPath EXCEPT ![e] = {e, p} \ {NoParent}]
        /\ tenant' = [tenant EXCEPT ![e] = IF p = NoParent THEN e ELSE tenant[p]]
        /\ level' = [level EXCEPT ![e] = op[o].level]
  /\ op' = [op EXCEPT ![o] = Idle]
  /\ UNCHANGED staff

\* Mutant of CreateSaves: the parent is taken for the tenant.
CreateSavesParentAsTenant(o) ==
  /\ op[o].at = "creating"
  /\ LET e == op[o].e
         p == op[o].p
     IN /\ state' = [state EXCEPT ![e] = "active"]
        /\ parent' = [parent EXCEPT ![e] = p]
        /\ idPath' = [idPath EXCEPT ![e] =
                        (IF p = NoParent THEN {} ELSE idPath[p]) \cup {e}]
        /\ tenant' = [tenant EXCEPT ![e] = p]
        /\ level' = [level EXCEPT ![e] = op[o].level]
  /\ op' = [op EXCEPT ![o] = Idle]
  /\ UNCHANGED staff

\* entity.save(), whatever has become of the parent since.
CreateSaves(o) ==
  /\ op[o].at = "creating"
  /\ LET e == op[o].e
         p == op[o].p
     IN /\ state' = [state EXCEPT ![e] = "active"]
        /\ parent' = [parent EXCEPT ![e] = p]
        /\ idPath' = [idPath EXCEPT ![e] =
                        (IF p = NoParent THEN {} ELSE idPath[p]) \cup {e}]
        /\ tenant' = [tenant EXCEPT ![e] = IF p = NoParent THEN e ELSE tenant[p]]
        /\ level' = [level EXCEPT ![e] = op[o].level]
  /\ op' = [op EXCEPT ![o] = Idle]
  /\ UNCHANGED staff

-----------------------------------------------------------------------------
\* Mutant of MayMove: descendants are not looked at.
MayMoveAnywhere(by, e, p) ==
  /\ Active(e) /\ CanManage(by, e)
  /\ p = NoParent => by = System
  /\ p # NoParent => Active(p) /\ CanManage(by, p)

\* What move checks: tenant administrators need rights to the entity and to
\* the new parent, and cannot make roots; the new parent, in their tenant, is
\* active and not below the entity.  That it is the entity itself is not
\* refused.
MayMove(by, e, p) ==
  /\ Active(e) /\ CanManage(by, e)
  /\ p = NoParent => by = System
  /\ p # NoParent =>
       /\ Active(p) /\ CanManage(by, p) /\ p \notin Descendants(e)
       /\ by # System => tenant[p] = tenant[by]

\* The look for descendants does not return while there is a cycle.
MoveChecks(o, by, e, p) ==
  /\ op[o] = Idle /\ MayMove(by, e, p)
  /\ p # NoParent => ~Endless(e)
  /\ Does(o, [at |-> "moving", e |-> e, p |-> p])

\* generatePath and calculateLevel: fail if the parent is gone by now.
MoveReads(o) ==
  /\ op[o].at = "moving"
  /\ LET e == op[o].e
         p == op[o].p
     IN /\ ChildLevel(p) <= MaxLevel
        /\ Does(o, IF p = NoParent \/ Active(p)
                     THEN [at |-> "placing", e |-> e, p |-> p, level |-> ChildLevel(p)]
                     ELSE Idle)

\* The entity gets its parent, path and level.  Neither entityIdPath nor
\* tenantId is written.
MoveWrites(o) ==
  /\ op[o].at = "placing"
  /\ parent' = [parent EXCEPT ![op[o].e] = op[o].p]
  /\ level' = [level EXCEPT ![op[o].e] = op[o].level]
  /\ op' = [op EXCEPT ![o] = [at |-> "collecting", e |-> op[o].e]]
  /\ UNCHANGED <<state, idPath, tenant, staff>>

\* Mutant of MoveCollects: the children only.
MoveCollectsChildren(o) ==
  /\ op[o].at = "collecting"
  /\ ~Endless(op[o].e)
  /\ Does(o, [at |-> "updating",
              todo |-> {<<d, parent[d]>> : d \in Children(op[o].e)}])

\* updateDescendantsPaths reads the descendants, each with its parent, unless
\* there is a cycle, ...
MoveCollects(o) ==
  /\ op[o].at = "collecting"
  /\ ~Endless(op[o].e)
  /\ Does(o, [at |-> "updating",
              todo |-> {<<d, parent[d]>> : d \in Descendants(op[o].e)}])

\* ... and goes down from parents to children; a parent that is gone by now
\* ends the request with the rest undone.  The reads of the parent and the
\* write of the child are one step.
MoveUpdates(o) ==
  /\ op[o].at = "updating"
  /\ \/ /\ op[o].todo = {}
        /\ Does(o, Idle)
     \/ \E t \in op[o].todo :
          /\ \A u \in op[o].todo : u[1] # t[2]
          /\ IF Active(t[2])
               THEN /\ ChildLevel(t[2]) <= MaxLevel
                    /\ level' = [level EXCEPT ![t[1]] = ChildLevel(t[2])]
                    /\ op' = [op EXCEPT ![o].todo = @ \ {t}]
                    /\ UNCHANGED <<state, parent, idPath, tenant, staff>>
               ELSE Does(o, Idle)

-----------------------------------------------------------------------------
\* Mutant of RemoveChecks: children are not counted.
RemoveChecksNothing(o, by, e) ==
  /\ op[o] = Idle /\ Active(e)
  /\ by # e /\ CanManage(by, e)
  /\ Cardinality({r \in Entity : state[r] = "removed"}) < MaxRemoved
  /\ Does(o, [at |-> "counting", e |-> e])

\* remove: the entity, not the administrator's own, has no active children,
RemoveChecks(o, by, e) ==
  /\ op[o] = Idle /\ Active(e)
  /\ by # e /\ CanManage(by, e) /\ Children(e) = {}
  /\ Cardinality({r \in Entity : state[r] = "removed"}) < MaxRemoved
  /\ Does(o, [at |-> "counting", e |-> e])

\* and no active users;
RemoveCounts(o) ==
  /\ op[o].at = "counting"
  /\ Does(o, IF op[o].e \in staff THEN Idle ELSE [at |-> "removing", e |-> op[o].e])

\* then it is marked inactive, for ever.
RemoveWrites(o) ==
  /\ op[o].at = "removing"
  /\ state' = [state EXCEPT ![op[o].e] = "removed"]
  /\ op' = [op EXCEPT ![o] = Idle]
  /\ UNCHANGED <<parent, idPath, tenant, level, staff>>

\* UsersService: a user is created in an entity that was active when asked,
UserJoins(o, e) ==
  /\ op[o] = Idle /\ Active(e)
  /\ Cardinality(staff) < MaxStaff
  /\ Does(o, [at |-> "joining", e |-> e])

UserSaved(o) ==
  /\ op[o].at = "joining"
  /\ staff' = staff \cup {op[o].e}
  /\ op' = [op EXCEPT ![o] = Idle]
  /\ UNCHANGED treeVars

\* and the last one of an entity is removed.
UsersLeave(e) == e \in staff /\ staff' = staff \ {e} /\ UNCHANGED <<treeVars, op>>

-----------------------------------------------------------------------------
Admin == Entity \cup {System}

Next ==
  \/ \E o \in Op :
       \/ \E by \in Admin, e \in Entity, p \in Entity \cup {NoParent} :
            CreateReads(o, by, e, p) \/ MoveChecks(o, by, e, p)
       \/ \E by \in Admin, e \in Entity : RemoveChecks(o, by, e)
       \/ \E e \in Entity : UserJoins(o, e)
       \/ CreateSaves(o) \/ MoveReads(o) \/ MoveWrites(o) \/ MoveCollects(o)
       \/ MoveUpdates(o) \/ RemoveCounts(o) \/ RemoveWrites(o) \/ UserSaved(o)
  \/ \E e \in Entity : UsersLeave(e)

Spec == Init /\ [][Next]_vars

-----------------------------------------------------------------------------
Place == Entity \cup {NoParent}

\* What a running request holds between two awaits.
Request ==
  [at : {"idle"}]
    \cup [at : {"creating", "placing"}, e : Entity, p : Place, level : Nat]
    \cup [at : {"moving"}, e : Entity, p : Place]
    \cup [at : {"updating"}, todo : SUBSET (Entity \X Place)]
    \cup [at : {"collecting", "counting", "removing", "joining"}, e : Entity]

\* Types.
TypeOK ==
  /\ state \in [Entity -> {"absent", "active", "removed"}]
  /\ parent \in [Entity -> Entity \cup {NoParent}]
  /\ idPath \in [Entity -> SUBSET Entity]
  /\ tenant \in [Entity -> Entity \cup {NoParent}]
  /\ level \in [Entity -> Nat]
  /\ staff \subseteq Entity
  /\ op \in [Op -> Request]
  /\ \A e \in Entity : state[e] = "absent" <=> tenant[e] = NoParent

Existing == {e \in Entity : state[e] # "absent"}

\* Rights are transitive, whatever requests overlap: who manages an entity
\* manages all that is managed from it, and all of that is one tenant's.
RightsNested ==
  \A e \in Existing : \A a \in idPath[e] :
    idPath[a] \subseteq idPath[e] /\ tenant[a] = tenant[e]

\* One request at a time leaves no active entity under an inactive one.
NoOrphan == \A e \in Entity : Active(e) /\ parent[e] # NoParent => Active(parent[e])

\* Between requests, when they do not overlap, every level is the parent's
\* plus one, all the way down, through every move.
LevelsMatch ==
  (\A o \in Op : op[o] = Idle) =>
    \A e \in Entity : Active(e) =>
      level[e] = ChildLevel(parent[e])

\* One request at a time makes no cycle longer than an entity under itself:
\* the look for descendants finds all others.
OnlySelfCycles == \A e \in Entity : e \in Descendants(e) => parent[e] = e
=============================================================================
