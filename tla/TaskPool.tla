------------------------------ MODULE TaskPool ------------------------------
(***************************************************************************)
(* What a pool of threads promises: tasks are started in the order in      *)
(* which they came, each once and by one thread, which it keeps until it   *)
(* is done.  A pool without threads leaves the task to who brings it.      *)
(***************************************************************************)
EXTENDS Sequences

CONSTANTS
    Workers,
    Tasks,
    NoTask

VARIABLES
    waiting,    \* tasks nobody has started
    running,    \* the task of a thread, or NoTask
    done

poolVars == <<waiting, running, done>>

Fresh(t) ==
    /\ t \notin done
    /\ \A i \in DOMAIN waiting : waiting[i] # t
    /\ \A w \in Workers : running[w] # t

Init ==
    /\ waiting = <<>>
    /\ running = [w \in Workers |-> NoTask]
    /\ done = {}

Bring(t) ==
    /\ Fresh(t)
    /\ waiting' = Append(waiting, t)
    /\ UNCHANGED <<running, done>>

RunYourself(t) ==
    /\ Fresh(t)
    /\ done' = done \cup {t}
    /\ UNCHANGED <<waiting, running>>

Start(w) ==
    /\ waiting # <<>> /\ running[w] = NoTask
    /\ running' = [running EXCEPT ![w] = Head(waiting)]
    /\ waiting' = Tail(waiting)
    /\ UNCHANGED done

Finish(w) ==
    /\ running[w] # NoTask
    /\ done' = done \cup {running[w]}
    /\ running' = [running EXCEPT ![w] = NoTask]
    /\ UNCHANGED waiting

Next ==
    \/ \E t \in Tasks : Bring(t) \/ RunYourself(t)
    \/ \E w \in Workers : Start(w) \/ Finish(w)

Spec == Init /\ [][Next]_poolVars
=============================================================================
