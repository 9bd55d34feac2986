--------------------------- MODULE LibraryDeployment ---------------------------
(***************************************************************************)
(* The Redis Function library: redis_lua_lib --deploy, run by several      *)
(* operators against one Redis (management/commands/redis_lua_lib.py), and *)
(* the applications that call it (_ensure_function_compatibility and       *)
(* _fcall of backends/redis/provider.py).  A deployment takes a lock key   *)
(* with a lease, reads and compares the installed library, loads its own   *)
(* and releases the lock by its token; it may outlast its lease.  An       *)
(* application checks the library once per event loop and then calls it.   *)
(***************************************************************************)
EXTENDS Integers

CONSTANTS
    Deployers,      \* invocations of the command
    Bundled,        \* the library each one carries: [library, api]
    Rollback,       \* the ones with --rollback
    Callers,        \* event loops of applications
    RequiredAPI,    \* FUNCTION_API_VERSION of the applications
    Absent,         \* no library is installed
    Free            \* no lock key

ASSUME DeploymentConstantsOK ==
    /\ Bundled \in [Deployers -> [library : Nat, api : Nat]]
    /\ Rollback \subseteq Deployers
    /\ RequiredAPI \in Nat
    /\ Absent \notin [library : Nat, api : Nat]
    /\ Free \notin Deployers

VARIABLES
    lock,           \* the token in the lock key
    installed,      \* the installed library
    deployer,       \* where each invocation is, and what it has read
    caller,         \* where each application is, and its compatibility flag
    lapsed,         \* history: deployments whose lease has ended under them
    overrun,        \* history: these, and the ones that started beside another one
    lowered         \* history: callers since whose check the API version was lowered

libraryvars == <<lock, installed, deployer, caller, lapsed, overrun, lowered>>
lockvars == <<lock, deployer, lapsed, overrun>>

ApiOf(v) == IF v = Absent THEN 0 ELSE v.api

Moves(d, where) == deployer' = [deployer EXCEPT ![d] = [at |-> where, seen |-> Absent]]
Deploying(d) == deployer[d].at \in {"list", "decide", "release"}
Beside(d) == \E e \in Deployers \ {d} : Deploying(e)

\* _deployment_lease: SET NX EX, or the command gives up.
Acquire(d) ==
    /\ deployer[d].at = "start"
    /\ IF lock = Free
       THEN /\ lock' = d /\ Moves(d, "list")
            /\ overrun' = IF Beside(d) THEN overrun \cup {d} ELSE overrun
       ELSE Moves(d, "done") /\ UNCHANGED <<lock, overrun>>
    /\ UNCHANGED <<installed, caller, lapsed, lowered>>

\* FUNCTION LIST
FunctionList(d) ==
    /\ deployer[d].at = "list"
    /\ deployer' = [deployer EXCEPT ![d] = [at |-> "decide", seen |-> installed]]
    /\ UNCHANGED <<lock, installed, caller, lapsed, overrun, lowered>>

\* Mutant of Loads: the versions are not compared.
LoadsAnything(d) == deployer[d].seen # Bundled[d]

\* A newer API is refused without --rollback, the same library left alone.
Loads(d) ==
    /\ deployer[d].seen # Bundled[d]
    /\ ApiOf(deployer[d].seen) > Bundled[d].api => d \in Rollback

\* FUNCTION LOAD REPLACE, or not.
FunctionLoad(d) ==
    /\ deployer[d].at = "decide"
    /\ installed' = IF Loads(d) THEN Bundled[d] ELSE installed
    /\ lowered' = IF ApiOf(installed') < ApiOf(installed) THEN Callers ELSE lowered
    /\ Moves(d, "release")
    /\ UNCHANGED <<lock, caller, lapsed, overrun>>

\* Mutant of Release: the token is not compared.
ReleaseAny(d) ==
    /\ deployer[d].at = "release"
    /\ lock' = Free
    /\ lapsed' = lapsed \ {d} /\ overrun' = overrun \ {d}
    /\ Moves(d, "done")
    /\ UNCHANGED <<installed, caller, lowered>>

\* _RELEASE_DEPLOYMENT_LOCK: the key goes only if it still holds d's token.
Release(d) ==
    /\ deployer[d].at = "release"
    /\ lock' = IF lock = d THEN Free ELSE lock
    /\ lapsed' = lapsed \ {d} /\ overrun' = overrun \ {d}
    /\ Moves(d, "done")
    /\ UNCHANGED <<installed, caller, lowered>>

\* A call fails: the finally clause releases the lock.  Or the process dies.
DeployFails(d) ==
    /\ deployer[d].at \in {"list", "decide"}
    /\ Moves(d, "release")
    /\ UNCHANGED <<lock, installed, caller, lapsed, overrun, lowered>>

DeployerDies(d) ==
    /\ Deploying(d)
    /\ Moves(d, "done")
    /\ lapsed' = lapsed \ {d} /\ overrun' = overrun \ {d}
    /\ UNCHANGED <<lock, installed, caller, lowered>>

\* Redis drops the lock key when its lease is over.
LeaseEnds ==
    /\ lock # Free
    /\ LET ended == {d \in {lock} : Deploying(d)}
       IN lapsed' = lapsed \cup ended /\ overrun' = overrun \cup ended
    /\ lock' = Free
    /\ UNCHANGED <<installed, deployer, caller, lowered>>

\* The command is run again.
DeployAgain(d) ==
    /\ deployer[d].at = "done"
    /\ Moves(d, "start")
    /\ UNCHANGED <<lock, installed, caller, lapsed, overrun, lowered>>

-------------------------------------------------------------------------------
CallerAt(c, where) == caller[c].at = where
Compatible(v) == v # Absent /\ ApiOf(v) >= RequiredAPI

\* _fcall: the flag of the event loop spares the check.
Fcall(c) ==
    /\ CallerAt(c, "idle")
    /\ caller' = [caller EXCEPT ![c].at = IF caller[c].flag THEN "call" ELSE "info"]
    /\ UNCHANGED <<lockvars, installed, lowered>>

\* _ensure_function_compatibility: django_queue_info answers, or is not there.
InfoAnswers(c) ==
    /\ CallerAt(c, "info")
    /\ caller' = [caller EXCEPT ![c] =
          IF Compatible(installed) THEN [at |-> "call", flag |-> TRUE]
          ELSE [@ EXCEPT !.at = "idle"]]
    /\ lowered' = IF Compatible(installed) THEN lowered \ {c} ELSE lowered
    /\ UNCHANGED <<lockvars, installed>>

\* The Function runs, in whatever library is installed now.
CallRuns(c) ==
    /\ CallerAt(c, "call")
    /\ caller' = [caller EXCEPT ![c].at = "idle"]
    /\ UNCHANGED <<lockvars, installed, lowered>>

\* aclose of the provider discards the flag, also while a call is under way.
ForgetsFlag(c) ==
    /\ caller' = [caller EXCEPT ![c].flag = FALSE]
    /\ UNCHANGED <<lockvars, installed, lowered>>

-------------------------------------------------------------------------------
LibraryInit ==
    /\ lock = Free /\ lapsed = {} /\ overrun = {} /\ lowered = {}
    /\ installed \in {Absent} \cup {Bundled[d] : d \in Deployers}
    /\ deployer = [d \in Deployers |-> [at |-> "start", seen |-> Absent]]
    /\ caller = [c \in Callers |-> [at |-> "idle", flag |-> FALSE]]

DeployStep(d) == Acquire(d) \/ FunctionList(d) \/ FunctionLoad(d) \/ Release(d)

LibraryNext ==
    \/ \E d \in Deployers : DeployStep(d) \/ DeployFails(d) \/ DeployerDies(d) \/ DeployAgain(d)
    \/ LeaseEnds
    \/ \E c \in Callers : Fcall(c) \/ InfoAnswers(c) \/ CallRuns(c) \/ ForgetsFlag(c)

LibraryTypeOK ==
    /\ lock \in Deployers \cup {Free} /\ lowered \subseteq Callers
    /\ lapsed \subseteq overrun /\ overrun \subseteq Deployers
    /\ installed \in {Absent} \cup {Bundled[d] : d \in Deployers}
    /\ \A d \in Deployers : deployer[d].at \in {"start", "list", "decide", "release", "done"}
    /\ caller \in [Callers -> [at : {"idle", "info", "call"}, flag : BOOLEAN]]

\* The lock keeps deployments apart: one holds it until its lease ends, whatever
\* a deployment that lost it does; and one that no lapsed lease is involved in runs
\* alone and decides on the library that is installed.
OneDeployment ==
    /\ LibraryTypeOK
    /\ \A d \in Deployers \ lapsed : Deploying(d) => lock = d
    /\ \A d \in Deployers \ overrun :
          /\ Deploying(d) => ~Beside(d)
          /\ deployer[d].at = "decide" => deployer[d].seen = installed

\* The API version is lowered only with --rollback, or by a deployment that a
\* lapsed lease let run beside another one.
Downgrade ==
    ApiOf(installed') < ApiOf(installed)
        => \E d \in Rollback \cup overrun : FunctionLoad(d)
NoSilentDowngrade == [][Downgrade]_libraryvars

\* A Function runs only in a library that is new enough for its caller, although
\* the check is made once per event loop, unless the library was lowered since that
\* check; and deployments, which could lower it, are kept apart.
CallsAreCompatible ==
    /\ OneDeployment
    /\ \A c \in Callers :
          caller[c].flag \/ CallerAt(c, "call") => Compatible(installed) \/ c \in lowered

===============================================================================
