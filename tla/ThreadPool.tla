----------------------------- MODULE ThreadPool -----------------------------
(***************************************************************************)
(* Class ThreadPool over its BlockingQueue, one step for every operation   *)
(* on the mutex and the condition.  A thread waiting for a condition may   *)
(* wake without a signal, and a signal may wake more than one.  What a     *)
(* task does is left to the modules that extend this one.                  *)
(***************************************************************************)
EXTENDS Naturals, Sequences, FiniteSets

CONSTANTS
    Workers,        \* the threads a pool is started with
    Producers,      \* the threads that add tasks
    Tasks,
    NoTask,
    Nobody

ASSUME PoolAssumption ==
    /\ IsFiniteSet(Workers) /\ IsFiniteSet(Producers)
    /\ Workers \cap Producers = {}
    /\ Nobody \notin Workers \cup Producers
    /\ NoTask \notin Tasks

VARIABLES
    pool,       \* _threads: all of Workers, or none
    owner,      \* the thread that holds _mutex, or Nobody
    queue,      \* _queue
    at,         \* where a thread is
    task,       \* the task a thread adds or runs, or NoTask
    added,      \* tasks that addTask was called with
    done        \* tasks that were run to their end

poolVars == <<pool, owner, queue, at, task, added, done>>

Threads == Workers \cup Producers

(* Workers that were not started, and where the others can be.  A thread   *)
(* at "take" or "put" wants the mutex, one at "sleep" waits for a signal,  *)
(* one at "woken" wants the mutex back; from "test" and "push" on a thread *)
(* holds it.                                                               *)
Places ==
    {"absent", "take", "test", "sleep", "woken", "taken", "run",
     "out", "put", "push", "notify", "pushed"}

PoolInit ==
    /\ pool \in {{}, Workers}
    /\ owner = Nobody /\ queue = <<>>
    /\ at \in [Threads -> {"absent", "take", "out"}]
    /\ \A w \in Workers : at[w] \in (IF w \in pool THEN {"take", "absent"} ELSE {"absent"})
    /\ \A p \in Producers : at[p] = "out"
    /\ task = [t \in Threads |-> NoTask]
    /\ added = {} /\ done = {}

Moves(t, from, to) == at[t] = from /\ at' = [at EXCEPT ![t] = to]

(* addTask; without threads the task is run at once.                       *)
AddTask(p, t) ==
    /\ t \notin added
    /\ added' = added \cup {t}
    /\ IF pool = {}
       THEN /\ at[p] = "out"
            /\ done' = done \cup {t}
            /\ UNCHANGED <<at, task>>
       ELSE /\ Moves(p, "out", "put")
            /\ task' = [task EXCEPT ![p] = t]
            /\ UNCHANGED done
    /\ UNCHANGED <<pool, owner, queue>>

Lock(t) ==
    /\ owner = Nobody
    /\ \/ t \in Producers /\ Moves(t, "put", "push")
       \/ t \in Workers /\ (Moves(t, "take", "test") \/ Moves(t, "woken", "test"))
    /\ owner' = t
    /\ UNCHANGED <<pool, queue, task, added, done>>

Push(p) ==
    /\ Moves(p, "push", "notify")
    /\ queue' = Append(queue, task[p])
    /\ task' = [task EXCEPT ![p] = NoTask]
    /\ UNCHANGED <<pool, owner, added, done>>

Sleepers == {w \in Workers : at[w] = "sleep"}

(* Mistakes the checked properties must notice: a variant X_mistake stands *)
(* in for X in a mutation run, and nothing else uses it.                   *)
Notify_firstOnly(p) ==
    /\ at[p] = "notify"
    /\ \E woken \in SUBSET Sleepers :
        /\ Sleepers # {} /\ Len(queue) = 1 => woken # {}
        /\ at' = [t \in Threads |-> IF t = p THEN "pushed"
                                    ELSE IF t \in woken THEN "woken" ELSE at[t]]
    /\ UNCHANGED <<pool, owner, queue, task, added, done>>

Notify_not(p) ==
    Moves(p, "notify", "pushed") /\ UNCHANGED <<pool, owner, queue, task, added, done>>

(* A signal wakes one sleeper at least.                                    *)
Notify(p) ==
    /\ at[p] = "notify"
    /\ \E woken \in SUBSET Sleepers :
        /\ Sleepers # {} => woken # {}
        /\ at' = [t \in Threads |-> IF t = p THEN "pushed"
                                    ELSE IF t \in woken THEN "woken" ELSE at[t]]
    /\ UNCHANGED <<pool, owner, queue, task, added, done>>

Unlock(t) ==
    /\ Moves(t, "pushed", "out") \/ Moves(t, "taken", "run")
    /\ owner' = Nobody
    /\ UNCHANGED <<pool, queue, task, added, done>>

(* pthread_cond_wait gives the mutex back and waits in one step.           *)
Wait(w) ==
    /\ queue = <<>>
    /\ Moves(w, "test", "sleep")
    /\ owner' = Nobody
    /\ UNCHANGED <<pool, queue, task, added, done>>

WakeUnasked(w) ==
    /\ Moves(w, "sleep", "woken")
    /\ UNCHANGED <<pool, owner, queue, task, added, done>>

Pop_last(w) ==
    /\ queue # <<>>
    /\ Moves(w, "test", "taken")
    /\ task' = [task EXCEPT ![w] = queue[Len(queue)]]
    /\ queue' = SubSeq(queue, 1, Len(queue) - 1)
    /\ UNCHANGED <<pool, owner, added, done>>

Pop(w) ==
    /\ queue # <<>>
    /\ Moves(w, "test", "taken")
    /\ task' = [task EXCEPT ![w] = Head(queue)]
    /\ queue' = Tail(queue)
    /\ UNCHANGED <<pool, owner, added, done>>

EndTask(w) ==
    /\ Moves(w, "run", "take")
    /\ done' = done \cup {task[w]}
    /\ task' = [task EXCEPT ![w] = NoTask]
    /\ UNCHANGED <<pool, owner, queue, added>>

(* put, take and the loop of runInThread, without the tasks themselves.    *)
PutStep(p) == Lock(p) \/ Push(p) \/ Notify(p) \/ Unlock(p)
TakeStep(w) == Lock(w) \/ Wait(w) \/ Pop(w) \/ Unlock(w)

PoolNext ==
    \/ \E p \in Producers : PutStep(p) \/ \E t \in Tasks : AddTask(p, t)
    \/ \E w \in Workers : TakeStep(w) \/ WakeUnasked(w) \/ EndTask(w)

PoolSpec == PoolInit /\ [][PoolNext]_poolVars

----------------------------------------------------------------------------
TypeOK ==
    /\ pool \in {{}, Workers}
    /\ owner \in Threads \cup {Nobody}
    /\ queue \in Seq(Tasks)
    /\ at \in [Threads -> Places]
    /\ task \in [Threads -> Tasks \cup {NoTask}]
    /\ added \subseteq Tasks /\ done \subseteq Tasks

(* Workers that will look at the queue before they sleep again.            *)
Coming == {w \in Workers : at[w] \in {"take", "woken", "test"}}
Notifying == {p \in Producers : at[p] = "notify"}

(* No wakeup is lost: while a worker sleeps there is, for every task in    *)
(* the queue, a worker that will look at it or a notify that is still to   *)
(* be called (BlockingQueue.h:17-42).                                      *)
NoSleeperIsNeeded ==
    Sleepers # {} => Len(queue) <= Cardinality(Coming) + Cardinality(Notifying)

(* The abstract pool: a task is started when it is taken.                  *)
Abstract == INSTANCE TaskPool WITH
    waiting <- queue,
    running <- [w \in Workers |-> task[w]]

KeepsPoolPromise == Abstract!Spec
=============================================================================
