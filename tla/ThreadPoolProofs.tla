-------------------------- MODULE ThreadPoolProofs --------------------------
(***************************************************************************)
(* What holds of the thread pool for any number of threads and tasks, and  *)
(* so of the reporter that uses it: every step of the reporter is one of   *)
(* the pool, or changes nothing of it.                                     *)
(***************************************************************************)
EXTENDS Reporter, FiniteSetTheorems, SequenceTheorems, TLAPS

Held == {"push", "notify", "pushed", "test", "taken"}
WithTask == {"put", "push", "taken", "run"}

(* Where the two kinds of threads can be, who holds the mutex, and who a   *)
(* task.                                                                   *)
PlacesOfKinds ==
    /\ \A p \in Producers : at[p] \in {"out", "put", "push", "notify", "pushed"}
    /\ \A w \in Workers : at[w] \in {"absent", "take", "test", "sleep", "woken", "taken", "run"}
MutexIsHeld == \A t \in Threads : at[t] \in Held <=> owner = t
TasksAreHeld == \A t \in Threads : task[t] # NoTask <=> at[t] \in WithTask

Orderly == TypeOK /\ PlacesOfKinds /\ MutexIsHeld /\ TasksAreHeld

(* A task that was added is in one place.                                  *)
HeldByOne ==
    /\ \A t, u \in Threads : task[t] = task[u] /\ task[t] # NoTask => t = u
    /\ \A t \in Threads : task[t] # NoTask => task[t] \in added /\ task[t] \notin done
QueuedOnce ==
    /\ \A i, j \in 1 .. Len(queue) : queue[i] = queue[j] => i = j
    /\ \A i \in 1 .. Len(queue) : queue[i] \in added /\ queue[i] \notin done
    /\ \A i \in 1 .. Len(queue), t \in Threads : task[t] # queue[i]
OnePlace == done \subseteq added /\ HeldByOne /\ QueuedOnce

IInv == Orderly /\ OnePlace /\ NoSleeperIsNeeded

----------------------------------------------------------------------------
LEMMA KindsDiffer ==
    /\ Producers \subseteq Threads /\ Workers \subseteq Threads
    /\ \A p \in Producers, w \in Workers : p # w
    /\ Nobody \notin Threads /\ NoTask \notin Tasks
BY PoolAssumption DEF Threads

(* What a signal changes.                                                  *)
LEMMA NotifyWakes ==
    ASSUME NEW p \in Producers, Notify(p), at \in [Threads -> Places]
    PROVE  /\ UNCHANGED <<pool, owner, queue, task, added, done>>
           /\ at[p] = "notify" /\ at'[p] = "pushed"
           /\ at' \in [Threads -> Places]
           /\ \A t \in Threads \ {p} :
                 \/ at'[t] = at[t]
                 \/ t \in Workers /\ at[t] = "sleep" /\ at'[t] = "woken"
           /\ Sleepers # {} => \E w \in Workers : at[w] = "sleep" /\ at'[w] = "woken"
<1>1. PICK woken \in SUBSET Sleepers :
        /\ Sleepers # {} => woken # {}
        /\ at' = [t \in Threads |-> IF t = p THEN "pushed"
                                    ELSE IF t \in woken THEN "woken" ELSE at[t]]
  BY DEF Notify
<1>2. \A w \in woken : w \in Workers /\ w \in Threads /\ w # p /\ at[w] = "sleep"
  BY KindsDiffer DEF Sleepers
<1>3. at' \in [Threads -> Places]
  BY <1>1 DEF Places
<1>4. Sleepers # {} => \E w \in Workers : at[w] = "sleep" /\ at'[w] = "woken"
  BY <1>1, <1>2
<1> QED  BY <1>1, <1>2, <1>3, <1>4, KindsDiffer DEF Notify

----------------------------------------------------------------------------
LEMMA OrderlyInit == PoolInit => Orderly
<1> SUFFICES ASSUME PoolInit PROVE Orderly
  OBVIOUS
<1>1. at \in [Threads -> Places]
  BY DEF PoolInit, Places
<1>2. TypeOK
  BY <1>1 DEF PoolInit, TypeOK
<1>3. PlacesOfKinds
  BY DEF PoolInit, PlacesOfKinds
<1>4. \A t \in Threads : at[t] \in {"absent", "take", "out"} /\ task[t] = NoTask
  BY DEF PoolInit
<1>5. MutexIsHeld /\ TasksAreHeld
  BY <1>4, KindsDiffer DEF PoolInit, MutexIsHeld, TasksAreHeld, Held, WithTask
<1> QED  BY <1>2, <1>3, <1>5 DEF Orderly

LEMMA TypeStep == Orderly /\ [PoolNext]_poolVars => TypeOK'
<1> SUFFICES ASSUME Orderly, [PoolNext]_poolVars PROVE TypeOK'
  OBVIOUS
<1> USE DEF Orderly, TypeOK, Places
<1>1. ASSUME NEW p \in Producers, NEW t \in Tasks, AddTask(p, t) PROVE TypeOK'
  BY <1>1, KindsDiffer DEF AddTask, Moves
<1>2. ASSUME NEW t \in Threads, Lock(t) PROVE TypeOK'
  BY <1>2 DEF Lock, Moves
<1>3. ASSUME NEW p \in Producers, Push(p) PROVE TypeOK'
  <2>1. task[p] \in Tasks
    BY <1>3, KindsDiffer DEF Push, Moves, TasksAreHeld, WithTask
  <2>2. queue' \in Seq(Tasks)
    BY <1>3, <2>1 DEF Push
  <2> QED  BY <1>3, <2>2, KindsDiffer DEF Push, Moves
<1>4. ASSUME NEW p \in Producers, Notify(p) PROVE TypeOK'
  BY <1>4, NotifyWakes, KindsDiffer
<1>5. ASSUME NEW t \in Threads, Unlock(t) PROVE TypeOK'
  BY <1>5 DEF Unlock, Moves
<1>6. ASSUME NEW w \in Workers, Wait(w) PROVE TypeOK'
  BY <1>6 DEF Wait, Moves
<1>7. ASSUME NEW w \in Workers, WakeUnasked(w) PROVE TypeOK'
  BY <1>7 DEF WakeUnasked, Moves
<1>8. ASSUME NEW w \in Workers, Pop(w) PROVE TypeOK'
  <2>1. Head(queue) \in Tasks /\ Tail(queue) \in Seq(Tasks)
    BY <1>8, HeadTailProperties DEF Pop
  <2> QED  BY <1>8, <2>1 DEF Pop, Moves
<1>9. ASSUME NEW w \in Workers, EndTask(w) PROVE TypeOK'
  <2>1. task[w] \in Tasks
    BY <1>9, KindsDiffer DEF EndTask, Moves, TasksAreHeld, WithTask
  <2> QED  BY <1>9, <2>1 DEF EndTask, Moves
<1>10. CASE UNCHANGED poolVars
  BY <1>10 DEF poolVars
<1> QED
  BY <1>1, <1>2, <1>3, <1>4, <1>5, <1>6, <1>7, <1>8, <1>9, <1>10, KindsDiffer
     DEF PoolNext, PutStep, TakeStep

LEMMA PlacesStep == Orderly /\ [PoolNext]_poolVars => PlacesOfKinds'
<1> SUFFICES ASSUME Orderly, [PoolNext]_poolVars PROVE PlacesOfKinds'
  OBVIOUS
<1> USE DEF Orderly, TypeOK
<1>1. ASSUME NEW p \in Producers, NEW t \in Tasks, AddTask(p, t) PROVE PlacesOfKinds'
  BY <1>1, KindsDiffer DEF AddTask, Moves, PlacesOfKinds
<1>2. ASSUME NEW t \in Threads, Lock(t) PROVE PlacesOfKinds'
  BY <1>2, KindsDiffer DEF Lock, Moves, PlacesOfKinds
<1>3. ASSUME NEW p \in Producers, Push(p) PROVE PlacesOfKinds'
  BY <1>3, KindsDiffer DEF Push, Moves, PlacesOfKinds
<1>4. ASSUME NEW p \in Producers, Notify(p) PROVE PlacesOfKinds'
  BY <1>4, NotifyWakes, KindsDiffer DEF PlacesOfKinds
<1>5. ASSUME NEW t \in Threads, Unlock(t) PROVE PlacesOfKinds'
  BY <1>5, KindsDiffer DEF Unlock, Moves, PlacesOfKinds
<1>6. ASSUME NEW w \in Workers, Wait(w) PROVE PlacesOfKinds'
  BY <1>6, KindsDiffer DEF Wait, Moves, PlacesOfKinds
<1>7. ASSUME NEW w \in Workers, WakeUnasked(w) PROVE PlacesOfKinds'
  BY <1>7, KindsDiffer DEF WakeUnasked, Moves, PlacesOfKinds
<1>8. ASSUME NEW w \in Workers, Pop(w) PROVE PlacesOfKinds'
  BY <1>8, KindsDiffer DEF Pop, Moves, PlacesOfKinds
<1>9. ASSUME NEW w \in Workers, EndTask(w) PROVE PlacesOfKinds'
  BY <1>9, KindsDiffer DEF EndTask, Moves, PlacesOfKinds
<1>10. CASE UNCHANGED poolVars
  BY <1>10 DEF poolVars, PlacesOfKinds
<1> QED
  BY <1>1, <1>2, <1>3, <1>4, <1>5, <1>6, <1>7, <1>8, <1>9, <1>10, KindsDiffer
     DEF PoolNext, PutStep, TakeStep

LEMMA MutexStep == Orderly /\ [PoolNext]_poolVars => MutexIsHeld'
<1> SUFFICES ASSUME Orderly, [PoolNext]_poolVars PROVE MutexIsHeld'
  OBVIOUS
<1> USE DEF Orderly, TypeOK
<1>1. ASSUME NEW p \in Producers, NEW t \in Tasks, AddTask(p, t) PROVE MutexIsHeld'
  BY <1>1, KindsDiffer DEF AddTask, Moves, MutexIsHeld, Held
<1>2. ASSUME NEW t \in Threads, Lock(t) PROVE MutexIsHeld'
  BY <1>2, KindsDiffer DEF Lock, Moves, MutexIsHeld, Held
<1>3. ASSUME NEW p \in Producers, Push(p) PROVE MutexIsHeld'
  BY <1>3, KindsDiffer DEF Push, Moves, MutexIsHeld, Held
<1>4. ASSUME NEW p \in Producers, Notify(p) PROVE MutexIsHeld'
  BY <1>4, NotifyWakes, KindsDiffer DEF MutexIsHeld, Held
<1>5. ASSUME NEW t \in Threads, Unlock(t) PROVE MutexIsHeld'
  BY <1>5, KindsDiffer DEF Unlock, Moves, MutexIsHeld, Held
<1>6. ASSUME NEW w \in Workers, Wait(w) PROVE MutexIsHeld'
  BY <1>6, KindsDiffer DEF Wait, Moves, MutexIsHeld, Held
<1>7. ASSUME NEW w \in Workers, WakeUnasked(w) PROVE MutexIsHeld'
  BY <1>7, KindsDiffer DEF WakeUnasked, Moves, MutexIsHeld, Held
<1>8. ASSUME NEW w \in Workers, Pop(w) PROVE MutexIsHeld'
  BY <1>8, KindsDiffer DEF Pop, Moves, MutexIsHeld, Held
<1>9. ASSUME NEW w \in Workers, EndTask(w) PROVE MutexIsHeld'
  BY <1>9, KindsDiffer DEF EndTask, Moves, MutexIsHeld, Held
<1>10. CASE UNCHANGED poolVars
  BY <1>10 DEF poolVars, MutexIsHeld, Held
<1> QED
  BY <1>1, <1>2, <1>3, <1>4, <1>5, <1>6, <1>7, <1>8, <1>9, <1>10, KindsDiffer
     DEF PoolNext, PutStep, TakeStep

LEMMA HeldStep == Orderly /\ [PoolNext]_poolVars => TasksAreHeld'
<1> SUFFICES ASSUME Orderly, [PoolNext]_poolVars PROVE TasksAreHeld'
  OBVIOUS
<1> USE DEF Orderly, TypeOK
<1>1. ASSUME NEW p \in Producers, NEW t \in Tasks, AddTask(p, t) PROVE TasksAreHeld'
  BY <1>1, KindsDiffer DEF AddTask, Moves, TasksAreHeld, WithTask
<1>2. ASSUME NEW t \in Threads, Lock(t) PROVE TasksAreHeld'
  BY <1>2, KindsDiffer DEF Lock, Moves, TasksAreHeld, WithTask
<1>3. ASSUME NEW p \in Producers, Push(p) PROVE TasksAreHeld'
  BY <1>3, KindsDiffer DEF Push, Moves, TasksAreHeld, WithTask
<1>4. ASSUME NEW p \in Producers, Notify(p) PROVE TasksAreHeld'
  BY <1>4, NotifyWakes, KindsDiffer DEF TasksAreHeld, WithTask
<1>5. ASSUME NEW t \in Threads, Unlock(t) PROVE TasksAreHeld'
  BY <1>5, KindsDiffer DEF Unlock, Moves, TasksAreHeld, WithTask
<1>6. ASSUME NEW w \in Workers, Wait(w) PROVE TasksAreHeld'
  BY <1>6, KindsDiffer DEF Wait, Moves, TasksAreHeld, WithTask
<1>7. ASSUME NEW w \in Workers, WakeUnasked(w) PROVE TasksAreHeld'
  BY <1>7, KindsDiffer DEF WakeUnasked, Moves, TasksAreHeld, WithTask
<1>8. ASSUME NEW w \in Workers, Pop(w) PROVE TasksAreHeld'
  BY <1>8, KindsDiffer DEF Pop, Moves, TasksAreHeld, WithTask
<1>9. ASSUME NEW w \in Workers, EndTask(w) PROVE TasksAreHeld'
  BY <1>9, KindsDiffer DEF EndTask, Moves, TasksAreHeld, WithTask
<1>10. CASE UNCHANGED poolVars
  BY <1>10 DEF poolVars, TasksAreHeld, WithTask
<1> QED
  BY <1>1, <1>2, <1>3, <1>4, <1>5, <1>6, <1>7, <1>8, <1>9, <1>10, KindsDiffer
     DEF PoolNext, PutStep, TakeStep

LEMMA OrderlyStep == Orderly /\ [PoolNext]_poolVars => Orderly'
BY TypeStep, PlacesStep, MutexStep, HeldStep DEF Orderly

----------------------------------------------------------------------------
(* Tasks.                                                                  *)

LEMMA OnePlaceInit == PoolInit => OnePlace
BY DEF PoolInit, OnePlace, HeldByOne, QueuedOnce

LEMMA OnePlaceKept ==
    ASSUME OnePlace, UNCHANGED <<task, queue, added, done>>
    PROVE  OnePlace'
BY DEF OnePlace, HeldByOne, QueuedOnce

LEMMA AddTaskOnePlace ==
    ASSUME Orderly, OnePlace, NEW p \in Producers, NEW t \in Tasks, AddTask(p, t)
    PROVE  OnePlace'
<1>1. task \in [Threads -> Tasks \cup {NoTask}] /\ p \in Threads /\ t # NoTask
  BY KindsDiffer DEF Orderly, TypeOK
<1>2. CASE pool = {}
  BY <1>1, <1>2 DEF AddTask, OnePlace, HeldByOne, QueuedOnce
<1>3. CASE pool # {}
  <2>1. task' = [task EXCEPT ![p] = t] /\ added' = added \cup {t} /\ t \notin added
    BY <1>3 DEF AddTask
  <2>2. UNCHANGED <<queue, done>>
    BY <1>3 DEF AddTask
  <2>3. HeldByOne'
    BY <1>1, <2>1, <2>2 DEF OnePlace, HeldByOne
  <2>4. QueuedOnce'
    BY <1>1, <2>1, <2>2 DEF OnePlace, QueuedOnce
  <2> QED  BY <2>1, <2>2, <2>3, <2>4 DEF OnePlace
<1> QED  BY <1>2, <1>3

LEMMA PushOnePlace ==
    ASSUME Orderly, OnePlace, NEW p \in Producers, Push(p)
    PROVE  OnePlace'
<1>1. /\ task \in [Threads -> Tasks \cup {NoTask}] /\ p \in Threads
      /\ queue \in Seq(Tasks) /\ task[p] # NoTask /\ task[p] \in Tasks
  BY KindsDiffer DEF Orderly, TypeOK, TasksAreHeld, Push, Moves, WithTask
<1>2. /\ queue' = Append(queue, task[p])
      /\ task' = [task EXCEPT ![p] = NoTask]
      /\ UNCHANGED <<added, done>>
  BY DEF Push
<1>3. /\ Len(queue) \in Nat /\ Len(queue') = Len(queue) + 1
      /\ \A i \in 1 .. Len(queue) : queue'[i] = queue[i] /\ queue[i] \in Tasks
      /\ queue'[Len(queue) + 1] = task[p]
  BY <1>1, <1>2
<1>4. HeldByOne'
  BY <1>1, <1>2 DEF OnePlace, HeldByOne
<1>5. task[p] \in added /\ task[p] \notin done
  BY <1>1 DEF OnePlace, HeldByOne
<1>6. \A i \in 1 .. Len(queue') : i \in 1 .. Len(queue) \/ i = Len(queue) + 1
  BY <1>3
<1>7. \A i, j \in 1 .. Len(queue') : queue'[i] = queue'[j] => i = j
  BY <1>1, <1>3, <1>6 DEF OnePlace, QueuedOnce
<1>8. \A i \in 1 .. Len(queue') : queue'[i] \in added /\ queue'[i] \notin done
  BY <1>3, <1>5, <1>6 DEF OnePlace, QueuedOnce
<1>9. ASSUME NEW i \in 1 .. Len(queue'), NEW t \in Threads PROVE task'[t] # queue'[i]
  <2>1. CASE t = p
    <3>1. task'[t] = NoTask
      BY <1>1, <1>2, <2>1
    <3>2. queue'[i] \in Tasks
      BY <1>1, <1>3, <1>6
    <3> QED  BY <3>1, <3>2, KindsDiffer
  <2>2. CASE t # p
    <3>1. task'[t] = task[t]
      BY <1>1, <1>2, <2>2
    <3>2. i \in 1 .. Len(queue) => task[t] # queue[i]
      BY DEF OnePlace, QueuedOnce
    <3>3. task[t] # task[p]
      BY <1>1, <2>2 DEF OnePlace, HeldByOne
    <3> QED  BY <1>3, <1>6, <3>1, <3>2, <3>3
  <2> QED  BY <2>1, <2>2
<1> QED  BY <1>2, <1>4, <1>7, <1>8, <1>9 DEF OnePlace, QueuedOnce

LEMMA PopOnePlace ==
    ASSUME Orderly, OnePlace, NEW w \in Workers, Pop(w)
    PROVE  OnePlace'
<1>1. /\ task \in [Threads -> Tasks \cup {NoTask}] /\ w \in Threads
      /\ queue \in Seq(Tasks) /\ queue # <<>>
  BY KindsDiffer DEF Orderly, TypeOK, Pop
<1>2. /\ queue' = Tail(queue)
      /\ task' = [task EXCEPT ![w] = Head(queue)]
      /\ UNCHANGED <<added, done>>
  BY DEF Pop
<1>3. /\ Len(queue) \in Nat \ {0} /\ Len(queue') = Len(queue) - 1
      /\ \A i \in 1 .. Len(queue') : queue'[i] = queue[i + 1]
      /\ Head(queue) = queue[1] /\ queue[1] \in Tasks
  BY <1>1, <1>2
<1>4. \A i \in 1 .. Len(queue') : i + 1 \in 1 .. Len(queue) /\ i + 1 # 1
  BY <1>3
<1>5. 1 \in 1 .. Len(queue)
  BY <1>3
<1>6. \A t \in Threads : task[t] # queue[1]
  BY <1>5 DEF OnePlace, QueuedOnce
<1>7. \A t \in Threads : task'[t] = IF t = w THEN queue[1] ELSE task[t]
  BY <1>1, <1>2, <1>3
<1>8. HeldByOne'
  <2>1. queue[1] \in added /\ queue[1] \notin done
    BY <1>5 DEF OnePlace, QueuedOnce
  <2> QED  BY <1>2, <1>6, <1>7, <2>1 DEF OnePlace, HeldByOne
<1>9. \A i, j \in 1 .. Len(queue') : queue'[i] = queue'[j] => i = j
  <2> TAKE i, j \in 1 .. Len(queue')
  <2> HAVE queue'[i] = queue'[j]
  <2>1. i + 1 = j + 1
    BY <1>3, <1>4 DEF OnePlace, QueuedOnce
  <2> QED  BY <1>3, <2>1
<1>10. \A i \in 1 .. Len(queue') : queue'[i] \in added /\ queue'[i] \notin done
  BY <1>3, <1>4 DEF OnePlace, QueuedOnce
<1>11. ASSUME NEW i \in 1 .. Len(queue'), NEW t \in Threads PROVE task'[t] # queue'[i]
  <2>1. queue[1] # queue[i + 1] /\ task[t] # queue[i + 1]
    BY <1>4, <1>5 DEF OnePlace, QueuedOnce
  <2> QED  BY <1>3, <1>7, <2>1
<1> QED  BY <1>2, <1>8, <1>9, <1>10, <1>11 DEF OnePlace, QueuedOnce

LEMMA EndTaskOnePlace ==
    ASSUME Orderly, OnePlace, NEW w \in Workers, EndTask(w)
    PROVE  OnePlace'
<1>1. /\ task \in [Threads -> Tasks \cup {NoTask}] /\ w \in Threads
      /\ task[w] # NoTask /\ queue \in Seq(Tasks)
  BY KindsDiffer DEF Orderly, TypeOK, TasksAreHeld, EndTask, Moves, WithTask
<1>2. /\ done' = done \cup {task[w]} /\ task' = [task EXCEPT ![w] = NoTask]
      /\ UNCHANGED <<queue, added>>
  BY DEF EndTask
<1>3. HeldByOne'
  BY <1>1, <1>2 DEF OnePlace, HeldByOne
<1>4. \A i \in 1 .. Len(queue) : queue[i] # NoTask
  BY <1>1, KindsDiffer
<1>5. QueuedOnce'
  BY <1>1, <1>2, <1>4 DEF OnePlace, QueuedOnce
<1>6. done' \subseteq added'
  BY <1>1, <1>2 DEF OnePlace, HeldByOne
<1> QED  BY <1>3, <1>5, <1>6 DEF OnePlace

LEMMA OnePlaceStep == Orderly /\ OnePlace /\ [PoolNext]_poolVars => OnePlace'
<1> SUFFICES ASSUME Orderly, OnePlace, [PoolNext]_poolVars PROVE OnePlace'
  OBVIOUS
<1>1. ASSUME NEW p \in Producers, Lock(p) \/ Notify(p) \/ Unlock(p) PROVE OnePlace'
  BY <1>1, OnePlaceKept DEF Lock, Notify, Unlock
<1>2. ASSUME NEW w \in Workers, Lock(w) \/ Wait(w) \/ Unlock(w) \/ WakeUnasked(w)
      PROVE OnePlace'
  BY <1>2, OnePlaceKept DEF Lock, Wait, Unlock, WakeUnasked
<1>3. CASE UNCHANGED poolVars
  BY <1>3, OnePlaceKept DEF poolVars
<1> QED
  BY <1>1, <1>2, <1>3, AddTaskOnePlace, PushOnePlace, PopOnePlace, EndTaskOnePlace
     DEF PoolNext, PutStep, TakeStep

----------------------------------------------------------------------------
(* Wakeups.                                                                *)

LEMMA FiniteThreads ==
    /\ IsFiniteSet(Coming) /\ Cardinality(Coming) \in Nat
    /\ IsFiniteSet(Notifying) /\ Cardinality(Notifying) \in Nat
<1>1. IsFiniteSet(Coming)
  BY FS_Subset, PoolAssumption DEF Coming
<1>2. IsFiniteSet(Notifying)
  BY FS_Subset, PoolAssumption DEF Notifying
<1> QED  BY <1>1, <1>2, FS_CardinalityType

LEMMA FiniteThreadsNext ==
    /\ IsFiniteSet(Coming') /\ Cardinality(Coming') \in Nat
    /\ IsFiniteSet(Notifying') /\ Cardinality(Notifying') \in Nat
<1>1. IsFiniteSet(Coming')
  BY FS_Subset, PoolAssumption DEF Coming
<1>2. IsFiniteSet(Notifying')
  BY FS_Subset, PoolAssumption DEF Notifying
<1> QED  BY <1>1, <1>2, FS_CardinalityType

(* Nobody falls asleep, nothing is queued, and those who will come still   *)
(* do.                                                                     *)
LEMMA CoverKept ==
    ASSUME NoSleeperIsNeeded, queue' = queue,
           Sleepers' \subseteq Sleepers, Coming \subseteq Coming',
           Notifying \subseteq Notifying', queue \in Seq(Tasks)
    PROVE  NoSleeperIsNeeded'
<1>1. /\ Cardinality(Coming) <= Cardinality(Coming')
      /\ Cardinality(Notifying) <= Cardinality(Notifying')
  BY FiniteThreadsNext, FS_Subset
<1>2. Len(queue) \in Nat /\ Len(queue') = Len(queue)
  OBVIOUS
<1>3. Cardinality(Coming)' = Cardinality(Coming') /\ Cardinality(Notifying)' = Cardinality(Notifying')
  OBVIOUS
<1> QED  BY <1>1, <1>2, <1>3, FiniteThreads, FiniteThreadsNext DEF NoSleeperIsNeeded

LEMMA PushCover ==
    ASSUME Orderly, NoSleeperIsNeeded, NEW p \in Producers, Push(p)
    PROVE  NoSleeperIsNeeded'
<1>1. /\ at \in [Threads -> Places] /\ p \in Threads /\ queue \in Seq(Tasks)
      /\ task[p] \in Tasks
  BY KindsDiffer DEF Orderly, TypeOK, TasksAreHeld, Push, Moves, WithTask
<1>2. /\ at[p] = "push" /\ at' = [at EXCEPT ![p] = "notify"]
      /\ queue' = Append(queue, task[p])
  BY DEF Push, Moves
<1>3. Coming' = Coming /\ Sleepers' = Sleepers
  BY <1>1, <1>2, KindsDiffer DEF Coming, Sleepers
<1>4. Notifying' = Notifying \cup {p} /\ p \notin Notifying
  BY <1>1, <1>2, KindsDiffer DEF Notifying
<1>5. Cardinality(Notifying') = Cardinality(Notifying) + 1
  BY <1>4, FiniteThreads, FS_AddElement
<1>6. Len(queue) \in Nat /\ Len(queue') = Len(queue) + 1
  BY <1>1, <1>2
<1> QED  BY <1>3, <1>5, <1>6, FiniteThreads, FiniteThreadsNext DEF NoSleeperIsNeeded

LEMMA NotifyCover ==
    ASSUME Orderly, NoSleeperIsNeeded, NEW p \in Producers, Notify(p)
    PROVE  NoSleeperIsNeeded'
<1>1. at \in [Threads -> Places] /\ queue \in Seq(Tasks) /\ p \in Threads
  BY KindsDiffer DEF Orderly, TypeOK
<1>2. Sleepers' \subseteq Sleepers
  BY <1>1, NotifyWakes, KindsDiffer DEF Sleepers
<1>3. Notifying' = Notifying \ {p} /\ p \in Notifying
  BY <1>1, NotifyWakes, KindsDiffer DEF Notifying
<1>4. Cardinality(Notifying') = Cardinality(Notifying) - 1
  BY <1>3, FiniteThreads, FS_RemoveElement
<1>5. SUFFICES ASSUME Sleepers' # {}
               PROVE  Len(queue') <= Cardinality(Coming') + Cardinality(Notifying')
  BY DEF NoSleeperIsNeeded
<1>6. PICK w \in Workers : at[w] = "sleep" /\ at'[w] = "woken"
  BY <1>1, <1>2, <1>5, NotifyWakes
<1>7. Coming \cup {w} \subseteq Coming' /\ w \notin Coming
  BY <1>1, <1>6, NotifyWakes, KindsDiffer DEF Coming
<1>8. Cardinality(Coming) + 1 <= Cardinality(Coming')
  <2>1. Cardinality(Coming \cup {w}) = Cardinality(Coming) + 1
    BY <1>7, FiniteThreads, FS_AddElement
  <2>2. Cardinality(Coming \cup {w}) <= Cardinality(Coming')
    BY <1>7, FiniteThreadsNext, FS_Subset
  <2> QED  BY <2>1, <2>2
<1>9. Len(queue) <= Cardinality(Coming) + Cardinality(Notifying)
  BY <1>2, <1>5 DEF NoSleeperIsNeeded
<1>10. Len(queue) \in Nat /\ queue' = queue
  BY <1>1, NotifyWakes
<1> QED  BY <1>4, <1>8, <1>9, <1>10, FiniteThreads, FiniteThreadsNext

LEMMA PopCover ==
    ASSUME Orderly, NoSleeperIsNeeded, NEW w \in Workers, Pop(w)
    PROVE  NoSleeperIsNeeded'
<1>1. /\ at \in [Threads -> Places] /\ queue \in Seq(Tasks) /\ w \in Threads
      /\ queue # <<>> /\ queue' = Tail(queue)
      /\ at[w] = "test" /\ at' = [at EXCEPT ![w] = "taken"]
  BY KindsDiffer DEF Orderly, TypeOK, Pop, Moves
<1>2. Sleepers' = Sleepers /\ Notifying' = Notifying
  BY <1>1, KindsDiffer DEF Sleepers, Notifying
<1>3. Coming' = Coming \ {w} /\ w \in Coming
  BY <1>1, KindsDiffer DEF Coming
<1>4. Cardinality(Coming') = Cardinality(Coming) - 1
  BY <1>3, FiniteThreads, FS_RemoveElement
<1>5. Len(queue) \in Nat /\ Len(queue') = Len(queue) - 1
  BY <1>1
<1> QED  BY <1>2, <1>4, <1>5, FiniteThreads, FiniteThreadsNext DEF NoSleeperIsNeeded

(* A worker sleeps only when there is nothing in the queue.                *)
LEMMA WaitCover ==
    ASSUME NEW w \in Workers, Wait(w)
    PROVE  NoSleeperIsNeeded'
<1>1. Len(queue') = 0
  BY DEF Wait
<1> QED  BY <1>1, FiniteThreadsNext DEF NoSleeperIsNeeded

LEMMA CoverStep == Orderly /\ NoSleeperIsNeeded /\ [PoolNext]_poolVars => NoSleeperIsNeeded'
<1> SUFFICES ASSUME Orderly, NoSleeperIsNeeded, [PoolNext]_poolVars PROVE NoSleeperIsNeeded'
  OBVIOUS
<1>0. at \in [Threads -> Places] /\ queue \in Seq(Tasks)
  BY DEF Orderly, TypeOK
<1>1. ASSUME NEW p \in Producers, NEW t \in Tasks, AddTask(p, t) PROVE NoSleeperIsNeeded'
  BY <1>0, <1>1, CoverKept, KindsDiffer DEF AddTask, Moves, Sleepers, Coming, Notifying
<1>2. ASSUME NEW t \in Threads, Lock(t) PROVE NoSleeperIsNeeded'
  BY <1>0, <1>2, CoverKept, KindsDiffer DEF Lock, Moves, Sleepers, Coming, Notifying
<1>3. ASSUME NEW t \in Threads, Unlock(t) PROVE NoSleeperIsNeeded'
  BY <1>0, <1>3, CoverKept, KindsDiffer DEF Unlock, Moves, Sleepers, Coming, Notifying
<1>4. ASSUME NEW w \in Workers, WakeUnasked(w) PROVE NoSleeperIsNeeded'
  BY <1>0, <1>4, CoverKept, KindsDiffer DEF WakeUnasked, Moves, Sleepers, Coming, Notifying
<1>5. ASSUME NEW w \in Workers, EndTask(w) PROVE NoSleeperIsNeeded'
  BY <1>0, <1>5, CoverKept, KindsDiffer DEF EndTask, Moves, Sleepers, Coming, Notifying
<1>6. CASE UNCHANGED poolVars
  BY <1>0, <1>6, CoverKept DEF poolVars, Sleepers, Coming, Notifying
<1> QED
  BY <1>1, <1>2, <1>3, <1>4, <1>5, <1>6, PushCover, NotifyCover, PopCover, WaitCover,
     KindsDiffer
     DEF PoolNext, PutStep, TakeStep

----------------------------------------------------------------------------
(* The reporter's steps are steps of the pool.                             *)

LEMMA ReporterInit == Init => PoolInit
BY DEF Init

LEMMA ReporterStep == TypeOK /\ [Next]_vars => [PoolNext]_poolVars
<1> SUFFICES ASSUME TypeOK, [Next]_vars PROVE [PoolNext]_poolVars
  OBVIOUS
<1>1. CASE msgGetReportStatusCB
  <2>1. IsFiniteSet(added) /\ Cardinality(added) \in Nat
    <3>1. IsFiniteSet(1 .. MaxReports)
      BY ReporterAssumption, FS_Interval
    <3>2. added \subseteq 1 .. MaxReports
      BY ReporterAssumption DEF TypeOK, Reports
    <3> QED  BY <3>1, <3>2, FS_Subset, FS_CardinalityType
  <2>2. Cardinality(added) + 1 \in Tasks
    BY <1>1, <2>1, ReporterAssumption DEF msgGetReportStatusCB, Reports
  <2> QED  BY <1>1, <2>2, ReporterAssumption DEF msgGetReportStatusCB, PoolNext
<1>2. ASSUME NEW t \in Threads, PoolStep(t) PROVE PoolNext
  BY <1>2 DEF PoolStep, PoolNext
<1>3. ASSUME NEW w \in Workers, BeginQuery(w) \/ EndQuery(w) \/ Clash(w)
      PROVE UNCHANGED poolVars
  BY <1>3 DEF BeginQuery, EndQuery, Clash
<1>4. ASSUME NEW w \in Workers, EndReport(w) \/ Wakes(w) PROVE PoolNext
  BY <1>4 DEF EndReport, Wakes, PoolNext
<1>5. CASE UNCHANGED vars
  BY <1>5 DEF vars
<1> QED
  BY <1>1, <1>2, <1>3, <1>4, <1>5, KindsDiffer, ReporterAssumption DEF Next, WorkerStep

LEMMA IInvCorrect == Spec => []IInv
<1>1. Init => IInv
  <2>1. PoolInit => NoSleeperIsNeeded
    BY FiniteThreads DEF PoolInit, NoSleeperIsNeeded
  <2> QED  BY <2>1, ReporterInit, OrderlyInit, OnePlaceInit DEF IInv
<1>2. IInv /\ [Next]_vars => IInv'
  BY ReporterStep, OrderlyStep, OnePlaceStep, CoverStep DEF IInv, Orderly
<1> QED  BY <1>1, <1>2, PTL DEF Spec

(* The pool's variables keep their types (ThreadPool.h, BlockingQueue.h).  *)
THEOREM TypeCorrect == Spec => []TypeOK
<1>1. IInv => TypeOK
  BY DEF IInv, Orderly
<1> QED  BY <1>1, IInvCorrect, PTL

(* For any number of workers, while one sleeps every task in the queue has *)
(* a worker on its way or a notify to come: take and put of BlockingQueue  *)
(* lose no wakeup.                                                         *)
THEOREM NoWakeupIsLost == Spec => []NoSleeperIsNeeded
<1>1. IInv => NoSleeperIsNeeded
  BY DEF IInv
<1> QED  BY <1>1, IInvCorrect, PTL

----------------------------------------------------------------------------
(* The abstract pool.                                                      *)

LEMMA AbstractInit == PoolInit => Abstract!Init
BY KindsDiffer DEF PoolInit, Abstract!Init

LEMMA AbstractStep == IInv /\ [PoolNext]_poolVars => [Abstract!Next]_(Abstract!poolVars)
<1> SUFFICES ASSUME IInv, [PoolNext]_poolVars PROVE [Abstract!Next]_(Abstract!poolVars)
  OBVIOUS
<1>0. /\ task \in [Threads -> Tasks \cup {NoTask}] /\ queue \in Seq(Tasks)
      /\ DOMAIN queue = 1 .. Len(queue)
  BY DEF IInv, Orderly, TypeOK
<1>1. ASSUME NEW p \in Producers, NEW t \in Tasks, AddTask(p, t)
      PROVE  [Abstract!Next]_(Abstract!poolVars)
  <2>1. CASE pool = {}
    <3>1. Abstract!Fresh(t)
      BY <1>0, <1>1, KindsDiffer
         DEF AddTask, IInv, OnePlace, HeldByOne, QueuedOnce, Abstract!Fresh
    <3>2. Abstract!RunYourself(t)
      BY <1>1, <2>1, <3>1 DEF AddTask, Abstract!RunYourself
    <3> QED  BY <3>2 DEF Abstract!Next
  <2>2. CASE pool # {}
    <3>1. \A w \in Workers : task'[w] = task[w]
      BY <1>0, <1>1, <2>2, KindsDiffer DEF AddTask
    <3> QED  BY <1>1, <2>2, <3>1 DEF AddTask, Abstract!poolVars
  <2> QED  BY <2>1, <2>2
<1>2. ASSUME NEW p \in Producers, Push(p) PROVE [Abstract!Next]_(Abstract!poolVars)
  <2>1. task[p] # NoTask /\ task[p] \in Tasks
    BY <1>0, <1>2, KindsDiffer DEF IInv, Orderly, TasksAreHeld, Push, Moves, WithTask
  <2>2. Abstract!Fresh(task[p])
    BY <1>0, <2>1, KindsDiffer DEF IInv, OnePlace, HeldByOne, QueuedOnce, Abstract!Fresh
  <2>3. \A w \in Workers : task'[w] = task[w]
    BY <1>0, <1>2, KindsDiffer DEF Push
  <2>4. Abstract!Bring(task[p])
    BY <1>2, <2>2, <2>3 DEF Push, Abstract!Bring
  <2> QED  BY <2>1, <2>4 DEF Abstract!Next
<1>3. ASSUME NEW w \in Workers, Pop(w) PROVE [Abstract!Next]_(Abstract!poolVars)
  <2>1. task[w] = NoTask
    BY <1>3, KindsDiffer DEF IInv, Orderly, TasksAreHeld, Pop, Moves, WithTask
  <2>2. \A v \in Workers : task'[v] = IF v = w THEN Head(queue) ELSE task[v]
    BY <1>0, <1>3, KindsDiffer DEF Pop
  <2>3. Abstract!Start(w)
    BY <1>3, <2>1, <2>2 DEF Pop, Abstract!Start
  <2> QED  BY <2>3 DEF Abstract!Next
<1>4. ASSUME NEW w \in Workers, EndTask(w) PROVE [Abstract!Next]_(Abstract!poolVars)
  <2>1. task[w] # NoTask
    BY <1>4, KindsDiffer DEF IInv, Orderly, TasksAreHeld, EndTask, Moves, WithTask
  <2>2. \A v \in Workers : task'[v] = IF v = w THEN NoTask ELSE task[v]
    BY <1>0, <1>4, KindsDiffer DEF EndTask
  <2>3. Abstract!Finish(w)
    BY <1>4, <2>1, <2>2 DEF EndTask, Abstract!Finish
  <2> QED  BY <2>3 DEF Abstract!Next
<1>5. CASE UNCHANGED <<queue, task, done>>
  BY <1>5 DEF Abstract!poolVars
<1>6. ASSUME NEW t \in Threads, Lock(t) \/ Unlock(t) PROVE UNCHANGED <<queue, task, done>>
  BY <1>6 DEF Lock, Unlock
<1>7. ASSUME NEW p \in Producers, Notify(p) PROVE UNCHANGED <<queue, task, done>>
  BY <1>7 DEF Notify
<1>8. ASSUME NEW w \in Workers, Wait(w) \/ WakeUnasked(w)
      PROVE UNCHANGED <<queue, task, done>>
  BY <1>8 DEF Wait, WakeUnasked
<1>9. CASE UNCHANGED poolVars
  BY <1>5, <1>9 DEF poolVars
<1> QED
  BY <1>1, <1>2, <1>3, <1>4, <1>5, <1>6, <1>7, <1>8, <1>9, KindsDiffer
     DEF PoolNext, PutStep, TakeStep

(* The pool implements its promise: tasks are started in the order of      *)
(* their coming, each by one thread and once (ThreadPool.h:31-51).         *)
THEOREM PromiseIsKept == Spec => KeepsPoolPromise
<1>1. Init => Abstract!Init
  BY ReporterInit, AbstractInit
<1>2. IInv /\ [Next]_vars => [Abstract!Next]_(Abstract!poolVars)
  BY ReporterStep, AbstractStep DEF IInv, Orderly
<1> QED  BY <1>1, <1>2, IInvCorrect, PTL DEF Spec, KeepsPoolPromise, Abstract!Spec

----------------------------------------------------------------------------
(* The order of reports.                                                   *)

Started(r) == r \in done \/ \E w \in Workers : task[w] = r

(* Reports come, wait and are started in the order of their times.         *)
Numbered == \E n \in 0 .. MaxReports : added = 1 .. n
Sorted ==
    /\ \A i, j \in 1 .. Len(queue) : i < j => queue[i] < queue[j]
    /\ \A i \in 1 .. Len(queue) : task[Loop] # NoTask => queue[i] < task[Loop]
StartedEarlier ==
    \A r \in Reports : Started(r) =>
        /\ \A i \in 1 .. Len(queue) : r < queue[i]
        /\ task[Loop] # NoTask => r < task[Loop]
StartedTogether ==
    \A w \in Workers, r \in Reports :
        Started(r) /\ task[w] # NoTask /\ task[w] < r => {task[w], r} \in together
InTurn == Numbered /\ Sorted /\ StartedEarlier /\ StartedTogether

(* What the queries of the workers have done.                              *)
StoredWhatStarted ==
    /\ \A w \in querying : w \in Workers /\ at[w] = "run"
    /\ rows \in [Rows -> Reports \cup {0}]
    /\ \A r \in Reports, h \in Rows : <<r, h>> \in stored => Started(r)

RInv == pool = Workers /\ InTurn /\ StoredWhatStarted /\ RowsGoBackOnlyTogether

LEMMA ReportTypes ==
    ASSUME IInv
    PROVE  /\ task \in [Threads -> 0 .. MaxReports] /\ queue \in Seq(1 .. MaxReports)
           /\ Loop \in Threads /\ Loop \notin Workers /\ MaxReports \in Nat
           /\ NoTask = 0 /\ Tasks = 1 .. MaxReports /\ Reports = 1 .. MaxReports
           /\ \A i \in 1 .. Len(queue) : queue[i] \in 1 .. MaxReports
           /\ Len(queue) \in Nat
<1>1. MaxReports \in Nat /\ NoTask = 0 /\ Tasks = 1 .. MaxReports /\ Reports = 1 .. MaxReports
  BY ReporterAssumption DEF Reports
<1>2. Tasks \cup {NoTask} = 0 .. MaxReports
  BY <1>1
<1>3. task \in [Threads -> 0 .. MaxReports] /\ queue \in Seq(1 .. MaxReports)
  BY <1>1, <1>2 DEF IInv, Orderly, TypeOK
<1> QED  BY <1>1, <1>3, KindsDiffer, ReporterAssumption

LEMMA InTurnKept ==
    ASSUME InTurn, UNCHANGED <<task, queue, added, done>>, together \subseteq together'
    PROVE  InTurn'
BY DEF InTurn, Numbered, Sorted, StartedEarlier, StartedTogether, Started

LEMMA AddTaskInTurn ==
    ASSUME IInv, RInv, msgGetReportStatusCB
    PROVE  InTurn'
<1>1. PICK n \in 0 .. MaxReports : added = 1 .. n
  BY DEF RInv, InTurn, Numbered
<1>2. n \in Nat /\ Cardinality(added) = n
  <2>1. n \in Nat
    BY ReportTypes
  <2>2. Cardinality(1 .. n) = IF 1 > n THEN 0 ELSE n - 1 + 1
    BY <2>1, FS_Interval
  <2> QED  BY <1>1, <2>1, <2>2
<1>3. /\ n + 1 \in Reports /\ added' = added \cup {n + 1}
      /\ task' = [task EXCEPT ![Loop] = n + 1]
      /\ UNCHANGED <<queue, done, together>>
  BY <1>2, ReportTypes, ReporterAssumption DEF msgGetReportStatusCB, AddTask, RInv, dbVars
<1>4. \A w \in Workers : task'[w] = task[w]
  BY <1>3, ReportTypes
<1>5. \A r \in Reports : Started(r) => r < n + 1
  <2>1. \A r \in done : r \in 1 .. n
    BY <1>1 DEF IInv, OnePlace
  <2>2. \A w \in Workers : task[w] # NoTask => task[w] \in 1 .. n
    BY <1>1, KindsDiffer DEF IInv, OnePlace, HeldByOne
  <2> QED  BY <1>2, <2>1, <2>2, ReportTypes DEF Started
<1>6. \A i \in 1 .. Len(queue) : queue[i] < n + 1
  <2>1. \A i \in 1 .. Len(queue) : queue[i] \in 1 .. n
    BY <1>1 DEF IInv, OnePlace, QueuedOnce
  <2> QED  BY <1>2, <2>1
<1>7. Numbered'
  <2>1. added' = 1 .. n + 1
    BY <1>1, <1>2, <1>3
  <2>2. n + 1 \in 0 .. MaxReports
    BY <1>3, ReportTypes
  <2> QED  BY <2>1, <2>2 DEF Numbered
<1>8. \A r \in Reports : Started(r)' <=> Started(r)
  BY <1>3, <1>4 DEF Started
<1>9. task'[Loop] = n + 1
  BY <1>3, ReportTypes
<1>10. Sorted'
  BY <1>3, <1>6, <1>9 DEF RInv, InTurn, Sorted
<1>11. StartedEarlier'
  BY <1>3, <1>5, <1>8, <1>9 DEF RInv, InTurn, StartedEarlier
<1>12. StartedTogether'
  BY <1>3, <1>4, <1>8 DEF RInv, InTurn, StartedTogether
<1> QED  BY <1>7, <1>10, <1>11, <1>12 DEF InTurn

LEMMA PushInTurn ==
    ASSUME IInv, RInv, Push(Loop), together \subseteq together'
    PROVE  InTurn'
<1>1. /\ queue' = Append(queue, task[Loop]) /\ task' = [task EXCEPT ![Loop] = NoTask]
      /\ UNCHANGED <<added, done>>
  BY DEF Push
<1>2. task[Loop] # NoTask
  BY KindsDiffer, ReportTypes DEF IInv, Orderly, TasksAreHeld, Push, Moves, WithTask
<1>3. /\ Len(queue') = Len(queue) + 1
      /\ \A i \in 1 .. Len(queue') :
            queue'[i] = IF i = Len(queue) + 1 THEN task[Loop] ELSE queue[i]
  BY <1>1, ReportTypes
<1>4. \A w \in Workers : task'[w] = task[w]
  BY <1>1, ReportTypes
<1>5. \A r \in Reports : Started(r)' <=> Started(r)
  BY <1>1, <1>4 DEF Started
<1>6. task'[Loop] = NoTask
  BY <1>1, ReportTypes
<1>7. \A i \in 1 .. Len(queue') : i = Len(queue) + 1 \/ i \in 1 .. Len(queue)
  BY <1>3, ReportTypes
<1>8. Sorted'
  <2>1. ASSUME NEW i \in 1 .. Len(queue'), NEW j \in 1 .. Len(queue'), i < j
        PROVE  queue'[i] < queue'[j]
    <3>1. i \in 1 .. Len(queue)
      BY <1>3, <2>1, ReportTypes
    <3>2. queue'[i] = queue[i]
      BY <1>3, <3>1, ReportTypes
    <3>3. j = Len(queue) + 1 => queue'[j] = task[Loop] /\ queue[i] < task[Loop]
      BY <1>2, <1>3, <3>1 DEF RInv, InTurn, Sorted
    <3>4. j \in 1 .. Len(queue) => queue'[j] = queue[j] /\ queue[i] < queue[j]
      BY <1>3, <2>1, <3>1, ReportTypes DEF RInv, InTurn, Sorted
    <3> QED  BY <1>7, <3>2, <3>3, <3>4
  <2> QED  BY <1>6, <2>1 DEF Sorted
<1>9. StartedEarlier'
  BY <1>2, <1>3, <1>5, <1>6, <1>7 DEF RInv, InTurn, StartedEarlier
<1>10. StartedTogether'
  BY <1>4, <1>5 DEF RInv, InTurn, StartedTogether
<1>11. Numbered'
  BY <1>1 DEF RInv, InTurn, Numbered
<1> QED  BY <1>8, <1>9, <1>10, <1>11 DEF InTurn

(* The report that is started is newer than all that were, so that it is   *)
(* at work with every older one that is not done.                          *)
LEMMA PopInTurn ==
    ASSUME IInv, RInv, NEW w \in Workers, Pop(w), PoolStep(w)
    PROVE  InTurn'
<1>1. /\ queue # <<>> /\ queue' = Tail(queue)
      /\ task' = [task EXCEPT ![w] = Head(queue)]
      /\ UNCHANGED <<added, done>>
  BY DEF Pop
<1>2. /\ Len(queue) \in Nat \ {0} /\ Len(queue') = Len(queue) - 1
      /\ \A i \in 1 .. Len(queue') : queue'[i] = queue[i + 1]
      /\ Head(queue) = queue[1] /\ queue[1] \in Reports
  BY <1>1, ReportTypes
<1>3. \A t \in Threads : task'[t] = IF t = w THEN queue[1] ELSE task[t]
  BY <1>1, <1>2, ReportTypes
<1>4. task'[Loop] = task[Loop]
  BY <1>3, ReportTypes
<1>5. \A i \in 1 .. Len(queue') : i + 1 \in 1 .. Len(queue) /\ 1 < i + 1
  BY <1>2
<1>6. 1 \in 1 .. Len(queue)
  BY <1>2
<1>7. task[w] = NoTask
  BY KindsDiffer DEF IInv, Orderly, TasksAreHeld, Pop, Moves, WithTask
<1>8. \A r \in Reports : Started(r)' => Started(r) \/ r = queue[1]
  BY <1>1, <1>3, KindsDiffer DEF Started
<1>9. Sorted'
  <2>1. ASSUME NEW i \in 1 .. Len(queue'), NEW j \in 1 .. Len(queue'), i < j
        PROVE  queue'[i] < queue'[j]
    BY <1>2, <1>5, <2>1 DEF RInv, InTurn, Sorted
  <2>2. ASSUME NEW i \in 1 .. Len(queue'), task'[Loop] # NoTask
        PROVE  queue'[i] < task'[Loop]
    BY <1>2, <1>4, <1>5, <2>2 DEF RInv, InTurn, Sorted
  <2> QED  BY <2>1, <2>2 DEF Sorted
<1>10. StartedEarlier'
  <2>1. ASSUME NEW r \in Reports, Started(r)', NEW i \in 1 .. Len(queue')
        PROVE  r < queue'[i]
    <3>1. CASE Started(r)
      BY <1>2, <1>5, <3>1 DEF RInv, InTurn, StartedEarlier
    <3>2. CASE r = queue[1]
      BY <1>2, <1>5, <1>6, <3>2 DEF RInv, InTurn, Sorted
    <3> QED  BY <1>8, <2>1, <3>1, <3>2
  <2>2. ASSUME NEW r \in Reports, Started(r)', task'[Loop] # NoTask
        PROVE  r < task'[Loop]
    <3>1. CASE Started(r)
      BY <1>4, <2>2, <3>1 DEF RInv, InTurn, StartedEarlier
    <3>2. CASE r = queue[1]
      BY <1>4, <1>6, <2>2, <3>2 DEF RInv, InTurn, Sorted
    <3> QED  BY <1>8, <2>2, <3>1, <3>2
  <2> QED  BY <2>1, <2>2 DEF StartedEarlier
<1>11. together' = together \cup
          {{task'[u], task'[v]} : u, v \in {x \in Workers : task'[x] # NoTask}}
  BY DEF PoolStep
<1>12. StartedTogether'
  <2>1. SUFFICES ASSUME NEW v \in Workers, NEW r \in Reports,
                        Started(r)', task'[v] # NoTask, task'[v] < r
                 PROVE  {task'[v], r} \in together'
    BY DEF StartedTogether
  <2>2. CASE Started(r)
    <3>1. r < queue[1]
      BY <1>6, <2>2 DEF RInv, InTurn, StartedEarlier
    <3>2. v # w
      BY <1>2, <1>3, <2>1, <3>1, KindsDiffer, ReportTypes
    <3>3. task'[v] = task[v]
      BY <1>3, <3>2, KindsDiffer
    <3> QED  BY <1>11, <2>1, <2>2, <3>3 DEF RInv, InTurn, StartedTogether
  <2>3. CASE r = queue[1]
    <3>1. r = task'[w] /\ task'[w] # NoTask
      BY <1>2, <1>3, <2>3, KindsDiffer, ReportTypes
    <3> QED  BY <1>11, <2>1, <3>1
  <2> QED  BY <1>8, <2>1, <2>2, <2>3
<1>13. Numbered'
  BY <1>1 DEF RInv, InTurn, Numbered
<1> QED  BY <1>9, <1>10, <1>12, <1>13 DEF InTurn

LEMMA EndTaskInTurn ==
    ASSUME IInv, RInv, NEW w \in Workers, EndTask(w), together' = together
    PROVE  InTurn'
<1>1. /\ done' = done \cup {task[w]} /\ task' = [task EXCEPT ![w] = NoTask]
      /\ UNCHANGED <<queue, added>>
  BY DEF EndTask
<1>2. \A t \in Threads : task'[t] = IF t = w THEN NoTask ELSE task[t]
  BY <1>1, ReportTypes
<1>3. task'[Loop] = task[Loop]
  BY <1>2, ReportTypes
<1>4. \A r \in Reports : Started(r)' => Started(r)
  BY <1>1, <1>2, KindsDiffer, ReportTypes DEF Started
<1>5. Sorted' /\ StartedEarlier' /\ Numbered'
  BY <1>1, <1>3, <1>4 DEF RInv, InTurn, Sorted, StartedEarlier, Numbered
<1>6. StartedTogether'
  BY <1>2, <1>4, KindsDiffer DEF RInv, InTurn, StartedTogether
<1> QED  BY <1>5, <1>6 DEF InTurn

(* What has been started stays so.                                         *)
LEMMA StartedStays ==
    ASSUME IInv, [PoolNext]_poolVars, NEW r \in Reports, Started(r)
    PROVE  Started(r)'
<1>0. task \in [Threads -> 0 .. MaxReports] /\ r # NoTask
  BY ReportTypes
<1>1. ASSUME NEW p \in Producers, NEW t \in Tasks, AddTask(p, t) PROVE Started(r)'
  <2>1. done \subseteq done' /\ \A w \in Workers : task'[w] = task[w]
    BY <1>0, <1>1, KindsDiffer DEF AddTask
  <2> QED  BY <2>1 DEF Started
<1>2. ASSUME NEW p \in Producers, Push(p) PROVE Started(r)'
  <2>1. done' = done /\ \A w \in Workers : task'[w] = task[w]
    BY <1>0, <1>2, KindsDiffer DEF Push
  <2> QED  BY <2>1 DEF Started
<1>3. ASSUME NEW w \in Workers, Pop(w) PROVE Started(r)'
  <2>1. task[w] = NoTask
    BY <1>3, KindsDiffer DEF IInv, Orderly, TasksAreHeld, Pop, Moves, WithTask
  <2>2. done' = done /\ \A v \in Workers \ {w} : task'[v] = task[v]
    BY <1>0, <1>3, KindsDiffer DEF Pop
  <2> QED  BY <1>0, <2>1, <2>2 DEF Started
<1>4. ASSUME NEW w \in Workers, EndTask(w) PROVE Started(r)'
  <2>1. done' = done \cup {task[w]} /\ \A v \in Workers \ {w} : task'[v] = task[v]
    BY <1>0, <1>4, KindsDiffer DEF EndTask
  <2> QED  BY <2>1 DEF Started
<1>5. CASE UNCHANGED <<task, done>>
  BY <1>5 DEF Started
<1>6. ASSUME NEW t \in Threads, Lock(t) \/ Unlock(t) PROVE UNCHANGED <<task, done>>
  BY <1>6 DEF Lock, Unlock
<1>7. ASSUME NEW p \in Producers, Notify(p) PROVE UNCHANGED <<task, done>>
  BY <1>7 DEF Notify
<1>8. ASSUME NEW w \in Workers, Wait(w) \/ WakeUnasked(w) PROVE UNCHANGED <<task, done>>
  BY <1>8 DEF Wait, WakeUnasked
<1>9. CASE UNCHANGED poolVars
  BY <1>5, <1>9 DEF poolVars
<1> QED
  BY <1>1, <1>2, <1>3, <1>4, <1>5, <1>6, <1>7, <1>8, <1>9, KindsDiffer
     DEF PoolNext, PutStep, TakeStep

LEMMA RowsKept ==
    ASSUME RowsGoBackOnlyTogether, UNCHANGED <<rows, stored>>, together \subseteq together'
    PROVE  RowsGoBackOnlyTogether'
BY DEF RowsGoBackOnlyTogether

LEMMA EndQueryRows ==
    ASSUME IInv, RInv, NEW w \in Workers, EndQuery(w)
    PROVE  StoredWhatStarted' /\ RowsGoBackOnlyTogether'
<1>1. /\ UNCHANGED <<poolVars, together>> /\ querying' \subseteq querying
      /\ w \in querying
  BY DEF EndQuery
<1>2. at' = at /\ task' = task /\ done' = done
  BY <1>1 DEF poolVars
<1>3. task[w] \in Reports /\ Started(task[w])
  <2>1. at[w] = "run"
    BY <1>1 DEF RInv, StoredWhatStarted
  <2>2. task[w] # NoTask
    BY <2>1, KindsDiffer DEF IInv, Orderly, TasksAreHeld, WithTask
  <2> QED  BY <2>2, KindsDiffer, ReportTypes DEF Started
<1>4. CASE UNCHANGED <<rows, stored>>
  BY <1>1, <1>2, <1>4, RowsKept DEF RInv, StoredWhatStarted, Started
<1>5. CASE Stores(w)
  <2> DEFINE host == ResultOf(w)
  <2>1. /\ rows' = [rows EXCEPT ![host] = task[w]]
        /\ stored' = stored \cup {<<task[w], host>>}
    BY <1>5 DEF Stores
  <2> HIDE DEF host
  <2>2. rows \in [Rows -> Reports \cup {0}]
    BY DEF RInv, StoredWhatStarted
  <2>3. StoredWhatStarted'
    BY <1>1, <1>2, <1>3, <2>1, <2>2 DEF RInv, StoredWhatStarted, Started
  <2>4. ASSUME NEW r \in Reports, NEW h \in Rows, <<r, h>> \in stored', rows'[h] < r
        PROVE  {rows'[h], r} \in together'
    <3>1. CASE h = host
      <4>1. rows'[h] = task[w]
        BY <2>1, <2>2, <3>1
      <4>2. r # task[w]
        BY <1>3, <2>4, <4>1, ReportTypes
      <4>3. Started(r)
        BY <2>1, <2>4, <4>2 DEF RInv, StoredWhatStarted
      <4>4. task[w] # NoTask
        BY <1>3, ReportTypes
      <4> QED  BY <1>1, <2>4, <4>1, <4>3, <4>4 DEF RInv, InTurn, StartedTogether
    <3>2. CASE h # host
      <4>1. rows'[h] = rows[h] /\ <<r, h>> \in stored
        BY <2>1, <2>2, <2>4, <3>2
      <4> QED  BY <1>1, <2>4, <4>1 DEF RInv, RowsGoBackOnlyTogether
    <3> QED  BY <3>1, <3>2
  <2> QED  BY <2>3, <2>4 DEF RowsGoBackOnlyTogether
<1> QED  BY <1>4, <1>5 DEF EndQuery

LEMMA StoredKept ==
    ASSUME IInv, RInv, [PoolNext]_poolVars, UNCHANGED <<rows, stored>>,
           \A w \in querying' : w \in Workers /\ at'[w] = "run"
    PROVE  StoredWhatStarted'
BY StartedStays DEF RInv, StoredWhatStarted

(* A thread at "run" stays there while the pool goes on.                   *)
LEMMA RunningStays ==
    ASSUME IInv, NEW t \in Threads, PoolStep(t) \/ (t \in Workers /\ Wakes(t)),
           NEW w \in Workers, at[w] = "run"
    PROVE  at'[w] = "run"
<1>0. at \in [Threads -> Places]
  BY DEF IInv, Orderly, TypeOK
<1>1. ASSUME t \in Producers, Notify(t) PROVE at'[w] = "run"
  BY <1>0, <1>1, NotifyWakes, KindsDiffer
<1>2. ASSUME Lock(t) \/ Unlock(t) PROVE at'[w] = "run"
  BY <1>0, <1>2, KindsDiffer DEF Lock, Unlock, Moves
<1>3. ASSUME Push(t) \/ Wait(t) \/ Pop(t) \/ WakeUnasked(t) PROVE at'[w] = "run"
  BY <1>0, <1>3, KindsDiffer DEF Push, Wait, Pop, WakeUnasked, Moves
<1> QED  BY <1>1, <1>2, <1>3 DEF PoolStep, PutStep, TakeStep, Wakes

LEMMA RInvStep == IInv /\ RInv /\ [Next]_vars => RInv'
<1> SUFFICES ASSUME IInv, RInv, [Next]_vars PROVE RInv'
  OBVIOUS
<1>0. [PoolNext]_poolVars
  BY ReporterStep DEF IInv, Orderly
<1>1. CASE msgGetReportStatusCB
  <2>1. /\ UNCHANGED <<rows, stored, together, querying>> /\ pool' = pool
        /\ \A w \in Workers : at'[w] = at[w]
    BY <1>1, KindsDiffer, ReporterAssumption
       DEF msgGetReportStatusCB, AddTask, Moves, dbVars, IInv, Orderly, TypeOK
  <2>2. StoredWhatStarted'
    BY <1>0, <2>1, StoredKept DEF RInv, StoredWhatStarted
  <2> QED  BY <1>1, <2>1, <2>2, AddTaskInTurn, RowsKept DEF RInv
<1>2. ASSUME NEW t \in Threads, PoolStep(t) \/ (t \in Workers /\ Wakes(t)) PROVE RInv'
  <2>1. UNCHANGED <<rows, stored, querying>> /\ together \subseteq together'
    BY <1>2 DEF PoolStep, Wakes, dbVars
  <2>2. pool' = pool
    BY <1>2 DEF PoolStep, PutStep, TakeStep, Wakes, Lock, Push, Notify, Unlock, Wait,
                Pop, WakeUnasked
  <2>3. StoredWhatStarted'
    BY <1>0, <1>2, <2>1, StoredKept, RunningStays DEF RInv, StoredWhatStarted
  <2>4. InTurn'
    <3>1. CASE UNCHANGED <<task, queue, added, done>>
      BY <2>1, <3>1, InTurnKept DEF RInv
    <3>2. CASE t \in Producers /\ Push(t)
      BY <2>1, <3>2, PushInTurn, ReporterAssumption
    <3>3. CASE t \in Workers /\ Pop(t)
      <4>1. PoolStep(t)
        BY <1>2, <3>3 DEF Pop, Wakes, WakeUnasked, Moves
      <4> QED  BY <3>3, <4>1, PopInTurn
    <3>4. Lock(t) \/ Notify(t) \/ Unlock(t) \/ Wait(t) \/ WakeUnasked(t) =>
              UNCHANGED <<task, queue, added, done>>
      BY DEF Lock, Notify, Unlock, Wait, WakeUnasked
    <3> QED  BY <1>2, <3>1, <3>2, <3>3, <3>4 DEF PoolStep, PutStep, TakeStep, Wakes
  <2> QED  BY <2>1, <2>2, <2>3, <2>4, RowsKept DEF RInv
<1>3. ASSUME NEW w \in Workers, BeginQuery(w) PROVE RInv'
  <2>1. /\ UNCHANGED <<poolVars, rows, stored, together>>
        /\ querying' = querying \cup {w} /\ at[w] = "run"
    BY <1>3 DEF BeginQuery
  <2>2. UNCHANGED <<pool, task, queue, added, done, at>>
    BY <2>1 DEF poolVars
  <2>3. StoredWhatStarted'
    BY <1>0, <2>1, <2>2, StoredKept DEF RInv, StoredWhatStarted
  <2> QED  BY <2>1, <2>2, <2>3, InTurnKept, RowsKept DEF RInv
<1>4. ASSUME NEW w \in Workers, EndQuery(w) PROVE RInv'
  <2>1. UNCHANGED <<pool, task, queue, added, done, together>>
    BY <1>4 DEF EndQuery, poolVars
  <2> QED  BY <1>4, <2>1, InTurnKept, EndQueryRows DEF RInv
<1>5. ASSUME NEW w \in Workers, Clash(w) PROVE RInv'
  <2>1. /\ UNCHANGED <<pool, task, queue, added, done, at>>
        /\ UNCHANGED <<rows, stored, together, querying>>
    BY <1>5 DEF Clash, poolVars
  <2>2. StoredWhatStarted'
    BY <1>0, <2>1, StoredKept DEF RInv, StoredWhatStarted
  <2> QED  BY <2>1, <2>2, InTurnKept, RowsKept DEF RInv
<1>6. ASSUME NEW w \in Workers, EndReport(w) PROVE RInv'
  <2>1. /\ EndTask(w) /\ UNCHANGED <<rows, stored, together, querying>> /\ pool' = pool
        /\ w \notin querying
    BY <1>6 DEF EndReport, EndTask
  <2>2. \A v \in Workers : v # w => at'[v] = at[v]
    BY <2>1, KindsDiffer DEF EndTask, Moves, IInv, Orderly, TypeOK
  <2>3. StoredWhatStarted'
    BY <1>0, <2>1, <2>2, StoredKept DEF RInv, StoredWhatStarted
  <2> QED  BY <2>1, <2>3, EndTaskInTurn, RowsKept DEF RInv
<1>7. CASE UNCHANGED vars
  <2>1. /\ UNCHANGED <<pool, task, queue, added, done, at>>
        /\ UNCHANGED <<rows, stored, together, querying>>
    BY <1>7 DEF vars, poolVars, dbVars
  <2>2. StoredWhatStarted'
    BY <1>0, <2>1, StoredKept DEF RInv, StoredWhatStarted
  <2> QED  BY <2>1, <2>2, InTurnKept, RowsKept DEF RInv
<1> QED
  BY <1>1, <1>2, <1>3, <1>4, <1>5, <1>6, <1>7, KindsDiffer, ReporterAssumption
     DEF Next, WorkerStep

LEMMA RInvInit == Init => RInv
<1> SUFFICES ASSUME Init PROVE RInv
  OBVIOUS
<1>1. /\ queue = <<>> /\ task = [t \in Threads |-> NoTask] /\ added = {} /\ done = {}
      /\ querying = {} /\ rows = [h \in Rows |-> 0] /\ stored = {} /\ pool = Workers
  BY DEF Init, PoolInit
<1>2. Loop \in Threads /\ Len(queue) = 0 /\ MaxReports \in Nat /\ NoTask \notin Reports
  BY <1>1, KindsDiffer, ReporterAssumption
<1>3. added = 1 .. 0 /\ 0 \in 0 .. MaxReports
  BY <1>1, <1>2
<1>4. \A r \in Reports : ~Started(r)
  BY <1>1, <1>2, KindsDiffer DEF Started
<1>5. InTurn
  BY <1>1, <1>2, <1>3, <1>4 DEF InTurn, Numbered, Sorted, StartedEarlier, StartedTogether
<1>6. StoredWhatStarted
  BY <1>1 DEF StoredWhatStarted
<1>7. RowsGoBackOnlyTogether
  BY <1>1 DEF RowsGoBackOnlyTogether
<1> QED  BY <1>1, <1>5, <1>6, <1>7 DEF RInv

(* For any number of workers and reports, a row goes back to an older      *)
(* report only if two workers had the two at the same time                 *)
(* (ReporterService.cc:67-78, StoreReport.cc:26-51).                       *)
THEOREM OrderIsKept == Spec => []RowsGoBackOnlyTogether
<1>1. IInv /\ RInv /\ [Next]_vars => RInv'
  BY RInvStep
<1>2. RInv => RowsGoBackOnlyTogether
  BY DEF RInv
<1> QED  BY <1>1, <1>2, IInvCorrect, RInvInit, PTL DEF Spec
=============================================================================
