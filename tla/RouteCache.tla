----------------------------- MODULE RouteCache -----------------------------
(***************************************************************************)
(* What the agent promises about the modules it balances, whatever its     *)
(* lists, its statistics and its link to DNS do: a module is unknown, is   *)
(* being pulled, or is ready.  Only an answer of DNS makes a module ready, *)
(* changes its hosts or forgets it.  A module is ready only when DNS named *)
(* hosts for it, and all of them may be given to callers but those that an *)
(* answer dropped: these do not come back until the module is forgotten.   *)
(***************************************************************************)
CONSTANTS Mods, Hosts

VARIABLES
    phase,     \* phase[m]: "unknown", "pulling" or "ready"
    hosts,     \* hosts[m]: the hosts callers may be given
    dropped    \* dropped[m]: hosts that were served until an answer lacked them

cacheVars == <<phase, hosts, dropped>>

Init ==
    /\ phase = [m \in Mods |-> "unknown"]
    /\ hosts = [m \in Mods |-> {}]
    /\ dropped = [m \in Mods |-> {}]

(* A caller names a module for the first time.                             *)
Ask(m) ==
    /\ phase[m] = "unknown"
    /\ phase' = [phase EXCEPT ![m] = "pulling"]
    /\ UNCHANGED <<hosts, dropped>>

(* A caller finds the hosts too old; they are used until the answer comes. *)
Refresh(m) ==
    /\ phase[m] = "ready"
    /\ phase' = [phase EXCEPT ![m] = "pulling"]
    /\ UNCHANGED <<hosts, dropped>>

(* DNS names the hosts of the module.                                      *)
Fill(m, S) ==
    /\ phase[m] # "unknown"
    /\ S # {}
    /\ phase' = [phase EXCEPT ![m] = "ready"]
    /\ hosts' = [hosts EXCEPT ![m] = S \ dropped[m]]
    /\ dropped' = [dropped EXCEPT ![m] = @ \cup (hosts[m] \ S)]

(* DNS says that the module has no host.                                   *)
Forget(m) ==
    /\ phase[m] # "unknown"
    /\ phase' = [phase EXCEPT ![m] = "unknown"]
    /\ hosts' = [hosts EXCEPT ![m] = {}]
    /\ dropped' = [dropped EXCEPT ![m] = {}]

Next ==
    \E m \in Mods :
        \/ Ask(m) \/ Refresh(m) \/ Forget(m)
        \/ \E S \in SUBSET Hosts : Fill(m, S)

Spec == Init /\ [][Next]_cacheVars
=============================================================================
