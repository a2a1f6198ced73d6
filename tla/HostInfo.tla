------------------------------ MODULE HostInfo ------------------------------
(***************************************************************************)
(* The call statistics the agent keeps for one host (class HostInfo) and   *)
(* the thresholds they are compared with.                                  *)
(*                                                                         *)
(* The two time stamps _idlePts and _overloadPts only matter through one   *)
(* question, "has the timeout of the state the host is in run out?", and   *)
(* only the stamp of the current state is ever read.  They are abstracted  *)
(* to the field expired.  It is TRUE in a new object because the           *)
(* constructor leaves _idlePts at Timestamp(0), the epoch.                 *)
(***************************************************************************)
EXTENDS Integers

CONSTANTS
    InitSucc,                 \* INIT_SUCC_CNT: virtual successes of an idle host
    InitErr,                  \* INIT_ERR_CNT: virtual failures of an overloaded host
    ErrNum, ErrDen,           \* ERR_RATE as a fraction: idle host overloads above it
    SuccNum, SuccDen,         \* SUCC_RATE: overloaded host recovers above it
    WindowNum, WindowDen,     \* WINDOW_ERR_RATE: idle host overloads from it on
    ContinErrLimit,           \* CONTIN_ERR_LIMIT: failures in a row
    ContinSuccLimit           \* CONTIN_SUCC_LIMIT: successes in a row

ASSUME CountAssumption ==
    /\ InitSucc \in Nat
    /\ InitErr \in Nat
    /\ ContinErrLimit \in Nat \ {0}
    /\ ContinSuccLimit \in Nat \ {0}

ASSUME RateAssumption ==
    /\ ErrNum \in Nat /\ ErrDen \in Nat \ {0} /\ ErrNum <= ErrDen
    /\ SuccNum \in Nat /\ SuccDen \in Nat \ {0} /\ SuccNum <= SuccDen
    /\ WindowNum \in Nat /\ WindowDen \in Nat \ {0} /\ WindowNum <= WindowDen

HostInfoType ==
    [vsucc : Nat, verr : Nat, rsucc : Nat, rerr : Nat,
     continSucc : Nat, continErr : Nat, overload : BOOLEAN, expired : BOOLEAN]

(* The state setIdle leaves behind: every counter restarts.                *)
IdleInfo ==
    [vsucc |-> InitSucc, verr |-> 0, rsucc |-> 0, rerr |-> 0,
     continSucc |-> 0, continErr |-> 0, overload |-> FALSE, expired |-> FALSE]

(* The state setOverload leaves behind.                                    *)
OverloadInfo ==
    [vsucc |-> 0, verr |-> InitErr, rsucc |-> 0, rerr |-> 0,
     continSucc |-> 0, continErr |-> 0, overload |-> TRUE, expired |-> FALSE]

(* A freshly constructed object: idle, and its window already expired.     *)
NewInfo == [IdleInfo EXCEPT !.expired = TRUE]

(* One reported call, successful or not, counted before any decision.      *)
CountSuccess(hi) ==
    [hi EXCEPT !.vsucc = @ + 1, !.rsucc = @ + 1,
               !.continSucc = @ + 1, !.continErr = 0]

CountFailure(hi) ==
    [hi EXCEPT !.verr = @ + 1, !.rerr = @ + 1,
               !.continErr = @ + 1, !.continSucc = 0]

CountCall(hi, ok) == IF ok THEN CountSuccess(hi) ELSE CountFailure(hi)

(* The thresholds, fractions compared by cross multiplication.  A quotient *)
(* of two doubles holding small integers is rounded correctly, so the      *)
(* code's comparison with the literal 0.1, 0.5 or 0.7 decides the same.    *)
FailsTooOften(hi) == hi.verr * ErrDen > ErrNum * (hi.vsucc + hi.verr)

SucceedsEnough(hi) == hi.vsucc * SuccDen > SuccNum * (hi.vsucc + hi.verr)

(* Mistakes the checked properties must notice: a variant X_mistake stands *)
(* in for X in a mutation run, and nothing else uses it.                   *)
CheckWindow_countsSuccess(hi) ==
    /\ hi.rsucc + hi.rerr > 0
    /\ hi.rsucc * WindowDen >= WindowNum * (hi.rsucc + hi.rerr)

(* checkWindow: no call in the window never overloads.                     *)
CheckWindow(hi) ==
    /\ hi.rsucc + hi.rerr > 0
    /\ hi.rerr * WindowDen >= WindowNum * (hi.rsucc + hi.rerr)

MustOverload_rateOnly(hi, ok) == ~hi.overload /\ ~ok /\ FailsTooOften(hi)

(* Decision of adjustHostWhereTo on a host whose call was just counted.    *)
MustOverload(hi, ok) ==
    /\ ~hi.overload /\ ~ok
    /\ FailsTooOften(hi) \/ hi.continErr >= ContinErrLimit

MayIdle(hi, ok) ==
    /\ hi.overload /\ ok
    /\ SucceedsEnough(hi) \/ hi.continSucc >= ContinSuccLimit

(* The window check, reached only when neither decision returned early:    *)
(* an expired idle host is overloaded or has its window reset, an expired  *)
(* overloaded host is given another chance.                                *)
WindowInfo(hi) ==
    IF ~hi.expired THEN hi
    ELSE IF ~hi.overload /\ CheckWindow(hi) THEN OverloadInfo ELSE IdleInfo

(* The host's statistics after one reported call.                          *)
AdjustedInfo(hi, ok) ==
    LET counted == CountCall(hi, ok)
    IN  IF MustOverload(counted, ok) THEN OverloadInfo
        ELSE IF MayIdle(counted, ok) THEN IdleInfo
        ELSE WindowInfo(counted)

=============================================================================
