------------------------------ MODULE DnsRoute ------------------------------
(***************************************************************************)
(* How class DnsRoute finds out what changed in the database.  The loop    *)
(* thread checks the version every two seconds; every query of a check is  *)
(* a step of its own, because the administrator's programs write the three *)
(* tables in between.  The Readme of DnsService gives their order: first   *)
(* RouteData, then a row of RouteChange, then RouteVersion, which is set   *)
(* to the current time in seconds.                                         *)
(*                                                                         *)
(* The hosts of a module are represented by the number of their version.   *)
(***************************************************************************)
EXTENDS Integers

CONSTANTS
    RouteMods,        \* the (modid, cmdid) pairs
    MaxRouteChanges   \* bound: time stamps used, and changes of one module

ASSUME RouteAssumption == MaxRouteChanges \in Nat

VARIABLES
    data,        \* data[m]: version of the hosts of m in table RouteData
    rows,        \* table RouteChange, as pairs <<m, version>>
    dbVersion,   \* table RouteVersion
    admin,       \* what the administrator is at: "idle", "row" or "version"
    change,      \* the change being made, as a pair <<m, version>>
    step,        \* what the constructor or the check does next
    mapA, mapB,  \* _routeDataMapA, _routeDataMapB
    version,     \* _version
    changes,     \* the list changes of checkRouteChangesFunc
    published,   \* published[m]: hosts of m served when m was last published,
                 \* at first those of the constructor
    hurt         \* history, which no guard reads: hurt[m], how the last change
                 \* of m may have got lost, of Ways

database == <<data, rows, dbVersion, admin, change>>
routeVars == <<data, rows, dbVersion, admin, change, step, mapA, mapB, version,
               changes, published, hurt>>

NoChange == <<>>

(* "started": the constructor deleted the row of a change it had not       *)
(* loaded.  "passed": a later change moved the version on before the       *)
(* earlier was noticed.  "known": the version was noticed before the change*)
(* was complete, which an equal time stamp allows.                         *)
Ways == {"started", "passed", "known"}

Hurts(S, way) ==
    hurt' = [m \in RouteMods |->
                IF m \in S /\ published[m] # data[m] THEN hurt[m] \cup {way} ELSE hurt[m]]

RouteInit ==
    /\ data = [m \in RouteMods |-> 1]
    /\ rows = {}
    /\ dbVersion = 1
    /\ admin = "idle"
    /\ change = NoChange
    /\ step = "build"
    /\ mapA = [m \in RouteMods |-> 0]
    /\ mapB = [m \in RouteMods |-> 0]
    /\ version = 0
    /\ changes = {}
    /\ published = [m \in RouteMods |-> 0]
    /\ hurt = [m \in RouteMods |-> {}]

----------------------------------------------------------------------------
(* The administrator changes the hosts of a module.                        *)

ChangeData(m) ==
    /\ admin = "idle" /\ dbVersion <= MaxRouteChanges /\ data[m] <= MaxRouteChanges
    /\ data' = [data EXCEPT ![m] = @ + 1]
    /\ \E stamp \in {dbVersion, dbVersion + 1} : change' = <<m, stamp>>
    /\ admin' = "row"
    /\ hurt' = [hurt EXCEPT ![m] = {}]
    /\ UNCHANGED <<rows, dbVersion, step, mapA, mapB, version, changes, published>>

RecordChange ==
    /\ admin = "row"
    /\ rows' = rows \cup {change}
    /\ admin' = "version"
    /\ UNCHANGED <<data, dbVersion, change, step, mapA, mapB, version, changes,
                   published, hurt>>

SetVersion ==
    /\ admin = "version"
    /\ dbVersion' = change[2]
    /\ Hurts(IF change[2] = version THEN {change[1]} ELSE {}, "known")
    /\ change' = NoChange
    /\ admin' = "idle"
    /\ UNCHANGED <<data, rows, step, mapA, mapB, version, changes, published>>

----------------------------------------------------------------------------
(* The constructor.  From then on clients are served from mapA.            *)

BuildRouteMapA ==
    /\ step = "build"
    /\ mapA' = data
    /\ published' = data
    /\ step' = "clear"
    /\ UNCHANGED <<database, mapB, version, changes, hurt>>

RemoveAllChanges ==
    /\ step = "clear"
    /\ rows' = {}
    /\ Hurts({r[1] : r \in rows}, "started")
    /\ step' = "idle"
    /\ UNCHANGED <<data, dbVersion, admin, change, mapA, mapB, version, changes,
                   published>>

(* checkRouteChangesFunc.  loadVersion remembers a version it did not know *)
(* at once, before anything is done about it.                              *)
LoadVersion ==
    /\ step = "idle"
    /\ dbVersion # version
    /\ version' = dbVersion
    /\ Hurts({r[1] : r \in {q \in rows : version < q[2] /\ q[2] < dbVersion}}
                \ {r[1] : r \in {q \in rows : q[2] >= dbVersion}}, "passed")
    /\ step' = "load"
    /\ UNCHANGED <<database, mapA, mapB, changes, published>>

(* No new version, or the query failed: every ten seconds the data is      *)
(* loaded nevertheless, and nobody is told.                                *)
LoadAnyway ==
    /\ step = "idle"
    /\ step' = "reload"
    /\ UNCHANGED <<database, mapA, mapB, version, changes, published, hurt>>

LoadRouteMapB ==
    /\ step \in {"load", "reload"}
    /\ mapB' = data
    /\ step' = IF step = "load" THEN "swap" ELSE "reswap"
    /\ UNCHANGED <<database, mapA, version, changes, published, hurt>>

Swap ==
    /\ step \in {"swap", "reswap"}
    /\ mapA' = mapB
    /\ mapB' = mapA
    /\ step' = IF step = "swap" THEN "changes" ELSE "idle"
    /\ UNCHANGED <<database, version, changes, published, hurt>>

(* Mistakes the checked properties must notice: a variant X_mistake stands *)
(* in for X in a mutation run, and nothing else uses it.                   *)
LoadChanges_newerOnly ==
    /\ step = "changes"
    /\ changes' = {m \in RouteMods : \E r \in rows : r[1] = m /\ r[2] > version}
    /\ step' = "publish"
    /\ UNCHANGED <<database, mapA, mapB, version, published, hurt>>

LoadChanges ==
    /\ step = "changes"
    /\ changes' = {m \in RouteMods : \E r \in rows : r[1] = m /\ r[2] >= version}
    /\ step' = "publish"
    /\ UNCHANGED <<database, mapA, mapB, version, published, hurt>>

PublishChanges ==
    /\ step = "publish"
    /\ published' =
           [m \in RouteMods |-> IF m \in changes THEN mapA[m] ELSE published[m]]
    /\ hurt' = [m \in RouteMods |-> IF published'[m] = data[m] THEN {} ELSE hurt[m]]
    /\ step' = "remove"
    /\ UNCHANGED <<database, mapA, mapB, version, changes>>

RemoveChanges_all ==
    /\ step = "remove"
    /\ rows' = {}
    /\ changes' = {}
    /\ step' = "idle"
    /\ UNCHANGED <<data, dbVersion, admin, change, mapA, mapB, version, published,
                   hurt>>

RemoveChanges_marksVersion ==
    /\ step = "remove"
    /\ rows' = {r \in rows : r[2] > version}
    /\ version' = dbVersion
    /\ changes' = {}
    /\ step' = "idle"
    /\ UNCHANGED <<data, dbVersion, admin, change, mapA, mapB, published, hurt>>

RemoveChanges ==
    /\ step = "remove"
    /\ rows' = {r \in rows : r[2] > version}
    /\ changes' = {}
    /\ step' = "idle"
    /\ UNCHANGED <<data, dbVersion, admin, change, mapA, mapB, version, published,
                   hurt>>

Admin == RecordChange \/ SetVersion \/ \E m \in RouteMods : ChangeData(m)

Check ==
    \/ LoadRouteMapB \/ Swap \/ LoadChanges \/ PublishChanges \/ RemoveChanges

RouteNext ==
    \/ Admin
    \/ BuildRouteMapA \/ RemoveAllChanges
    \/ LoadVersion \/ LoadAnyway
    \/ Check

RouteSpec == RouteInit /\ [][RouteNext]_routeVars

(* The timer fires again and again and its query succeeds in the end; a    *)
(* begun change is finished.                                               *)
FairRouteSpec ==
    /\ RouteSpec
    /\ WF_routeVars(BuildRouteMapA \/ RemoveAllChanges \/ Check)
    /\ SF_routeVars(LoadVersion)
    /\ WF_routeVars(RecordChange \/ SetVersion)

----------------------------------------------------------------------------
(* Each variable has its type.                                             *)
Steps == {"build", "clear", "idle", "load", "swap", "reload", "reswap",
          "changes", "publish", "remove"}

RouteTypeOK ==
    /\ data \in [RouteMods -> Nat]
    /\ rows \in SUBSET (RouteMods \X Nat)
    /\ dbVersion \in Nat
    /\ admin \in {"idle", "row", "version"}
    /\ change \in {NoChange} \cup (RouteMods \X Nat)
    /\ (change = NoChange) = (admin = "idle")
    /\ step \in Steps
    /\ mapA \in [RouteMods -> Nat] /\ mapB \in [RouteMods -> Nat]
    /\ version \in Nat
    /\ changes \in SUBSET RouteMods
    /\ published \in [RouteMods -> Nat]
    /\ hurt \in [RouteMods -> SUBSET Ways]

(* Once a version has been dealt with, every module whose hosts changed    *)
(* has been published with its newest hosts, however the administrators'   *)
(* writes fall between the queries of a check and however often they       *)
(* change what: unless its last change was hurt in one of three Ways, no   *)
(* change is lost.                                                         *)
Settled == step = "idle" /\ admin = "idle" /\ version = dbVersion

ChangesArePublished ==
    Settled => \A m \in RouteMods : published[m] = data[m] \/ hurt[m] # {}

(* The same without exceptions: RouteChange tells which modules changed    *)
(* (Readme.md of DnsService, RouteChange), and writing RouteVersion makes  *)
(* DnsService notice (the same, mod增删改处理流程).                        *)
EveryChangeIsPublished == Settled => published = data

(* A version that is known has been loaded: the hosts clients ask for are  *)
(* then the newest (mapA in DnsRoute.h:34 is the map clients are answered  *)
(* from), unless the version was known before its change was complete.     *)
ServedHostsAreNewest ==
    Settled => \A m \in RouteMods : mapA[m] = data[m] \/ "known" \in hurt[m]

(* The same without exceptions: "the version was not changed, the data in  *)
(* the table has not changed" (DnsRoute.cc:224).                           *)
SameVersionIsSameData == Settled => mapA = data

(* What clients are answered never goes back to older hosts, although the  *)
(* old map stays in memory as the next buffer.                             *)
HostsMoveForward ==
    [][\A m \in RouteMods :
            mapA'[m] >= mapA[m] /\ published'[m] >= published[m]]_routeVars

(* The change an administrator makes is published in the end, or hurt in  *)
(* one of three Ways.                                                      *)
ChangesGetPublished ==
    \A m \in RouteMods :
        data[m] # published[m] ~> data[m] = published[m] \/ hurt[m] # {}
=============================================================================
