------------------------------ MODULE Reporter ------------------------------
(***************************************************************************)
(* The reporter: the loop thread hands every report to the thread pool,    *)
(* whose workers store its results one by one, all of them over one MYSQL  *)
(* handle without a lock.  Reports carry the times at which they were      *)
(* sent: a later report is a newer one.                                    *)
(***************************************************************************)
EXTENDS ThreadPool

CONSTANTS
    MaxReports,     \* bound: reports that arrive
    ResultsOf(_),   \* the hosts of a report, in its order
    Loop            \* the thread of ReporterService

Reports == 1 .. MaxReports

ASSUME ReporterAssumption ==
    /\ MaxReports \in Nat
    /\ Workers # {} /\ Producers = {Loop} /\ Tasks = Reports /\ NoTask = 0

VARIABLES
    next,       \* the result a worker is to store, of its report
    querying,   \* workers inside mysql_ping and mysql_real_query
    clashed,    \* did others use the handle during the query of a worker?
    rows,       \* the report a row of ServerCallStatus is of, 0 if there is none
    stored,     \* <<report, host>> that were written
    together,   \* reports that were at work at the same time
    broken      \* did two queries at once break the handle?

dbVars == <<next, querying, clashed, rows, stored, together, broken>>
vars == <<poolVars, dbVars>>

Rows == UNION {{ResultsOf(r)[i] : i \in DOMAIN ResultsOf(r)} : r \in Reports}

Init ==
    /\ PoolInit /\ pool = Workers
    /\ next = [w \in Workers |-> 1] /\ querying = {}
    /\ clashed = [w \in Workers |-> FALSE]
    /\ rows = [h \in Rows |-> 0] /\ stored = {} /\ together = {}
    /\ broken = FALSE

(* Reports come in the order of their times.                               *)
msgGetReportStatusCB ==
    /\ ~broken
    /\ Cardinality(added) < MaxReports
    /\ AddTask(Loop, Cardinality(added) + 1)
    /\ UNCHANGED dbVars

PoolStep(t) ==
    /\ ~broken
    /\ \/ t \in Producers /\ PutStep(t)
       \/ t \in Workers /\ TakeStep(t)
    /\ together' = together \cup
        {{task'[v], task'[w]} : v, w \in {u \in Workers : task'[u] # NoTask}}
    /\ UNCHANGED <<next, querying, clashed, rows, stored, broken>>

Wakes(w) == ~broken /\ WakeUnasked(w) /\ UNCHANGED dbVars

ResultOf(w) == ResultsOf(task[w])[next[w]]

(* mysql_ping and the call of mysql_real_query.                            *)
BeginQuery(w) ==
    /\ ~broken /\ at[w] = "run" /\ w \notin querying
    /\ next[w] \in DOMAIN ResultsOf(task[w])
    /\ querying' = querying \cup {w}
    /\ clashed' = [v \in Workers |->
                    IF v = w THEN querying # {} ELSE v \in querying \/ clashed[v]]
    /\ UNCHANGED <<poolVars, next, rows, stored, together, broken>>

Stores(w) ==
    /\ rows' = [rows EXCEPT ![ResultOf(w)] = task[w]]
    /\ stored' = stored \cup {<<task[w], ResultOf(w)>>}

(* The query comes back.  It may have failed; then nothing but a line on   *)
(* the console tells of it.                                                *)
EndQuery(w) ==
    /\ ~broken /\ w \in querying
    /\ querying' = querying \ {w}
    /\ next' = [next EXCEPT ![w] = @ + 1]
    /\ Stores(w) \/ UNCHANGED <<rows, stored>>
    /\ UNCHANGED <<poolVars, clashed, together, broken>>

(* Two threads in one handle are undefined behaviour: anything may come of *)
(* it, where a query that does what it should, or fails, is EndQuery.      *)
Clash(w) ==
    /\ ~broken /\ w \in querying /\ clashed[w]
    /\ broken' = TRUE
    /\ UNCHANGED <<poolVars, next, querying, clashed, rows, stored, together>>

EndReport(w) ==
    /\ ~broken /\ w \notin querying /\ at[w] = "run"
    /\ next[w] \notin DOMAIN ResultsOf(task[w])
    /\ EndTask(w)
    /\ next' = [next EXCEPT ![w] = 1]
    /\ UNCHANGED <<querying, clashed, rows, stored, together, broken>>

WorkerStep(w) ==
    PoolStep(w) \/ BeginQuery(w) \/ EndQuery(w) \/ Clash(w) \/ EndReport(w)

Next ==
    \/ msgGetReportStatusCB \/ PoolStep(Loop)
    \/ \E w \in Workers : WorkerStep(w) \/ Wakes(w)

Spec == Init /\ [][Next]_vars

(* Threads are scheduled, a query comes back (it has a timeout), and a     *)
(* thread gets a mutex that is free again and again.  Nothing is assumed   *)
(* of wakeups without a signal, and of the requests.                       *)
FairSpec ==
    /\ Spec
    /\ WF_vars(PoolStep(Loop))
    /\ \A w \in Workers : WF_vars(WorkerStep(w))
    /\ \A t \in Threads : SF_vars(Lock(t) /\ PoolStep(t))

----------------------------------------------------------------------------
(* A row goes back to an older report only if that report and the newer    *)
(* one were at work at the same time: the pool does not change the order   *)
(* of reports, only two workers can (StoreReport.cc:35-48 keeps whatever   *)
(* comes last).                                                            *)
RowsGoBackOnlyTogether ==
    \A r \in Reports, h \in Rows :
        <<r, h>> \in stored /\ rows[h] < r => {rows[h], r} \in together

(* Every report that was handed to the pool is worked off, if a thread of  *)
(* the pool was started and the handle lasts (ThreadPool.h:34-54).         *)
ReportsSettle ==
    \A r \in Reports :
        r \in added ~> \/ r \in done \/ broken
                       \/ \A w \in Workers : at[w] = "absent"
=============================================================================
