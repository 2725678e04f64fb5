------------------------------ MODULE WorkQueue ------------------------------
(***************************************************************************)
(* What the queues promise to those that send work through them: a task is *)
(* taken by one worker at a time, under a lock that may lapse while the    *)
(* worker goes on.  Only the worker that holds the lock settles the task,  *)
(* in one step, after its own work on it; a task is given up only when it  *)
(* has had its tries; each taking of a task does its work once at most.    *)
(***************************************************************************)
EXTENDS Naturals

CONSTANTS Task, NoTask,
          Worker, Nobody,
          Tries,    \* lapses a task has had before a worker may give it up
          Limit     \* lapses after which the queue gives it up

VARIABLES
  state,    \* where the task is
  holder,   \* the worker that holds its lock
  lapses,   \* locks of it that have lapsed
  done,     \* how often its work was done
  task,     \* the task that a worker has in its hands
  open      \* the workers whose work on it is still to be done

vars == <<state, holder, lapses, done, task, open>>

Init ==
  /\ state = [t \in Task |-> "unsent"]
  /\ holder = [t \in Task |-> Nobody]
  /\ lapses = [t \in Task |-> 0] /\ done = [t \in Task |-> 0]
  /\ task = [w \in Worker |-> NoTask] /\ open = {}

\* A task is put into the queue, or refused.
Offer(t) ==
  /\ state[t] = "unsent"
  /\ \E s \in {"queued", "refused"} : state' = [state EXCEPT ![t] = s]
  /\ UNCHANGED <<holder, lapses, done, task, open>>

\* A worker with empty hands takes a task, under a lock.
Take(w, t) ==
  /\ task[w] = NoTask /\ state[t] = "queued"
  /\ state' = [state EXCEPT ![t] = "locked"]
  /\ holder' = [holder EXCEPT ![t] = w]
  /\ task' = [task EXCEPT ![w] = t]
  /\ open' = open \cup {w}
  /\ UNCHANGED <<lapses, done>>

\* It does the work, or fails at it.
Work(w) ==
  /\ w \in open /\ open' = open \ {w}
  /\ done' \in {done, [done EXCEPT ![task[w]] = @ + 1]}
  /\ UNCHANGED <<state, holder, lapses, task>>

\* Whose work is over settles its task, as long as it holds the lock.
Settle(w) ==
  /\ task[w] # NoTask /\ w \notin open /\ holder[task[w]] = w
  /\ \E s \in {"completed", "dead"} :
       /\ s = "dead" => lapses[task[w]] >= Tries
       /\ state' = [state EXCEPT ![task[w]] = s]
  /\ holder' = [holder EXCEPT ![task[w]] = Nobody]
  /\ task' \in {task, [task EXCEPT ![w] = NoTask]}
  /\ UNCHANGED <<lapses, done, open>>

\* A worker lets go of its task, done or not.
Leave(w) ==
  /\ task[w] # NoTask
  /\ task' = [task EXCEPT ![w] = NoTask]
  /\ open' = open \ {w}
  /\ UNCHANGED <<state, holder, lapses, done>>

\* A lock lapses, whatever its holder does: the task is free for the others.
Lapse(t) ==
  /\ state[t] = "locked"
  /\ lapses' = [lapses EXCEPT ![t] = @ + 1]
  /\ state' = [state EXCEPT ![t] = IF lapses'[t] < Limit THEN "queued"
                                                         ELSE "dead"]
  /\ holder' = [holder EXCEPT ![t] = Nobody]
  /\ UNCHANGED <<done, task, open>>

Next ==
  \/ \E t \in Task : Offer(t) \/ Lapse(t)
  \/ \E w \in Worker, t \in Task : Take(w, t)
  \/ \E w \in Worker : Work(w) \/ Settle(w) \/ Leave(w)

Spec == Init /\ [][Next]_vars
=============================================================================
